# A verification project for ION's Licklider Transmission Protocol

The repository is a small distribution of ION's LTP (RFC 5326) with the ICI
services it stands on. This directory holds TLA+ models of its code, TLC
configurations that check them on small instances, and TLAPS proofs about them.

## The system

An *engine* sends blocks of client data to a peer over a *span*. The head of a
block, the *red part*, is reliable; the rest, the *green part*, is not. A block is
sent by an *export session* and received by an *import session*; the state of both
is kept in the SDR, a transactional database in shared memory, and is changed
only inside SDR transactions, one at a time.

| part | source | state | operations |
|---|---|---|---|
| export sessions | `libltpP.c` | exportSessions and its hash, deadExports, closedExports; checkpoints, claims, report serial numbers, flags of each session | segmentation (`ltpmeter`, `issueSegments`), `handleRS`, `handleCAS`, `handleCR`, `ltpResendCheckpoint`, `ltpResendXmitCancel`, `ltpForgetClosedExport` |
| import sessions | `libltpP.c` | importSessions and hash, deadImports, closedImports; red segments, reports, counters of each session; last red and green extents per span | `handleDataSegment`, `handleRA`, `handleCS`, `handleCAR`, `ltpResendReport`, `ltpResendRecvCancel` |
| outbound queue | `libltpP.c` | `LtpSpan.segments` | `ltpDequeueOutboundSegment`, `enqueueAckSegment`, the enqueueing in the handlers |
| timeline | `libltpP.c`, `ltpclock.c` | `LtpDB.timeline`, timers in segments and sessions | `setTimer`, `cancelEvent`, `dispatchEvents`, suspension and resumption of timers |
| aggregation and flow control | `libltp.c`, `ltpmeter.c` | the buffered block, the open and closed buffer semaphores | `ltp_send`, `ltpmeter`, aging by `ltpclock` |
| clients | `libltp.c` | notices list and semaphore of each client | `ltp_open`, `ltp_close`, `ltp_get_notice`, `ltp_interrupt` |
| spans | `libltpP.c`, `ltpadmin.c` | span list, volatile spans | add, update, remove, start, stop |
| link services | `udplso.c`, `udplsi.c` | none | send and receive datagrams |
| SDR transactions | `sdrxn.c` | the dataspace in a file, in memory or both; the log; the lock, its owner and depth | begin, end, cancel, exit, crash, put, reload, reboot |
| SDR heap | `sdrmgt.c` | the small and the large pool of the dataspace and their free lists | allocate, free |
| zero-copy objects | `zco.c` | references, liens, extents, capsules; occupancy of two accounts | create, append, clone, headers, delimit, read, destroy |
| ZCO space | `ion.c` | requisitions by priority, one semaphore per waiting task | request, provide, shred, create |
| red-black tree | `smrbt.c` | nodes in shared memory under a lock | insert, delete, search, next, previous, clear |
| contact plan | `rfx.c` | contacts and ranges in the database, two indexes, a timeline, logs of past contacts | insert, remove, discover, predict |
| other ICI parts | `ltp/ici/` | lists, hashes, shared memory, cryptography | see `PROJECT.json` |

They interact through the database and through semaphores: a client's `ltp_send`
fills the current block, `ltpmeter` cuts it into segments and gives the segment
semaphore, the link service output daemon dequeues a segment (which sets its timer),
the peer's input daemon handles it and queues the answer, and `ltpclock` dispatches
the timer events. Every interleaving of these processes is an interleaving of
transactions.

The ICI parts are layers under that picture. LTP's records are objects of the SDR heap,
changed by puts that a transaction can undo, after a death as well; blocks and
service data units are ZCOs, whose bytes are freed by whoever cites them last; red
segments and contacts are found by red-black trees; and the contact plan is what
tells `ltpclock`, by way of `rfxclock` and the rates of a neighbor, when a span may transmit and
its timers run.

What is hard: segments are lost, duplicated and reordered; retransmissions are cut
differently from the first transmission; reports are partial, may be split, and
race with timers; either end may cancel at any moment; a session goes on being
answered after it is closed, from a record that is itself forgotten; five ways of
ending an export session exclude one another only by their order. What each part
must get right: an export session ends with one verdict, which is truthful; the
red part is delivered whole and once; an open session always has a timer or a
queued segment that will move it. Below LTP: a transaction happens or does not, whoever
dies at whatever write; a heap has no hole and no overlap after any sequence of
allocations; an object is freed once and not before its last citation; a tree keeps
its balance and its order; an index, a list and a timeline of the same contacts agree.

## Modules

| module | models | state |
|---|---|---|
| `LtpSegments` | blocks, segments, segmentation, the outbound queue | - |
| `LtpExport` | the sending half, one action per transaction | export sessions, queue, timeline, notices |
| `LtpImport` | the receiving half | import sessions, queue, timeline, notices |
| `LtpSession` | one direction of a span: both halves and the link; all properties | plus the segments in flight |
| `LtpService` | what the clients are promised, without any protocol | outcome and red part of each block |
| `MCLtpSession` | small blocks and sessions for TLC | - |
| `LtpAggregation` | the sending side of a span seen from its clients: `ltp_send`, `ltpmeter`, the output daemon, `ltpclock` and the administration, meeting in semaphores; all its properties | sessions, current block, semaphores, one control state per process |
| `MCLtpAggregation` | three service data units of two clients for TLC | - |
| `LtpTimers`, `MCLtpTimers` | the timers of a span: set, suspended, resumed and expired, with `ltpclock`'s rounds and time | timers, timeline, number of queued copies |
| `SdrHeap` | the pools of an SDR: for each call the sequence of puts it makes | - |
| `SdrTransaction` | transactions, log, reversal, death of tasks, reload and reboot, for any calls (`Updates`) | both copies of the dataspace, log, lock, the put under way in each task |
| `MCSdrStore` | composes the two: tasks allocate and free in transactions; their properties | - |
| `Zco`, `MCZco` | zero-copy objects with their counts and occupancy, one step per function | ZCOs, liens, references, objects, occupancy |
| `ByteStrings` | what a ZCO is to its users: a string of bytes, with the steps that calls ask for | strings, lengths |
| `ZcoSpace`, `MCZcoSpace` | requisitions for ZCO space: `ionCreateZco` step by step | list, semaphores, awards, control state of each task |
| `RedBlackTree`, `MCRedBlackTree` | insertion, deletion and clearing, one step per turn of their loops | nodes, links and colors, the operation under way |
| `KeySet` | what the tree is to its users: a set of keys | keys, request |
| `ContactPlan`, `MCContactPlan` | contacts, ranges, logs and predictions, one step per call | lists, indexes, timeline, logs |
| `LtpInvariant` | the inductive invariants `LtpInv`, `SignalsInv` and `ProgressInv`, in named parts | - |
| `LtpSessionProofs` | lemmas on segmentation and on the queue operators; `TypeOK`, `LtpInv` and `OneVerdict` are invariants; `LtpSession` implements `LtpService` | - |
| `LtpSignalsProofs` | `SignalsInv` is an invariant, and what follows from it; `ProgressInv` is one and `NeverStranded` follows, where reports are not split | - |
| `DataLemmas` | induction, sums and ranks in finite sets, insertion and removal in lists, greatest elements, folds | - |
| `LtpAggregationProofs`, `LtpTimersProofs` | every safety property of `LtpAggregation` and `LtpTimers`, each with its inductive invariant | - |
| `IonProofs` | what LTP takes from ION's database: every safety property of `SdrTransaction` and `ContactPlan`, each with its inductive invariant | - |
| `ZcoProofs` | the accounts, the owners of bytes and the types of `Zco`, and every property of `ZcoSpace`, each module with its inductive invariant | - |
| `ZcoContentProofs` | what ZCOs hold: their lengths, the order of reading, that `Zco` implements `ByteStrings`, and that each call does what it was asked | - |

`LtpSession` and `LtpAggregation` are two views of the same export sessions. The
first looks inside one session, whose block it takes as given; the second looks at
how blocks come to be and takes from the first that every session ends
(`SenderFinishes`, run `live`), which is one of its fairness conditions.

Variables carry the names of the fields they model; a comment at each names the
structure. `expState` and `impState` say in which list a session is (`exportSessions`
= open, `deadExports` = dead, in none = closed). A checkpoint or report has an entry
`[seg, armed, count]`: the segment, `timer.segArrivalTime # 0`, and
`timer.expirationCount`. A timeline is a set of events, each named by its type,
session and serial number as in `LtpEvent`.

Abstractions. A unit stands for any number of bytes, so extents and claims are sets
of units; `Runs` and `Pieces` recover the lists of the code. Serial numbers count
from 1 where the code starts from a random number below 16384; their rollover at
2^32 is out of reach and not modelled. Time is abstracted: an event may fire at
any time after it is posted. Bursts have their default length of one. Notices that
carry no obligation (session start, green segments) are not recorded. Link schedules
(`receptionRate`, `enforceSchedule`) discard segments, which is a loss. Parsing,
authentication, overflow files and statistics are left out. What the environment
may refuse at any moment (no client, no heap, no ZCO space) is the constant `Faults`.

In `LtpAggregation` a list or queue is a set, since which of several segments or
notices comes first makes no difference there, and the data segments of a block are
one entry. The binary semaphores (`bufOpenRed`, `bufOpenGreen`, `bufClosed`,
`segSemaphore`) are the sets `given` and `ended`. Taking a semaphore, looking at
`sm_SemEnded` and the transaction that follows are separate steps, so a process may
be preempted between any two of them; `resetSpan` holds the SDR while it gives and
takes semaphores, which is `Unlocked` in the guard of every transaction. `ltpmeter`
may be killed between two transactions and started again. A block's age is
counted up to its limit. Units of length zero are left out.

`LtpTimers` looks at timers with real time and leaves out what a segment says. A *signal*
is whatever is sent again until it is answered: checkpoint, report or cancellation.
Time counts the seconds of `ltpclock`; the three delays that make up a deadline are
constants; the rates of the neighbor change at any time and matter when `manageLinks`
reads them. Events due at once for different signals are dispatched in any order.
`open` remembers when the neighbor was seen to transmit, as far as a property needs it.

`SdrTransaction` writes in the smallest pieces that matter: the control fields of a log
entry, its data, the put to the file, the put to memory. A task may be killed before
any of them; the lock then stays taken, the other tasks are stopped, and a reload (which
may be killed in turn) or a reboot follows, as `ionrestart` and a power cycle do. A call
that is refused ends the transaction (`CrashXn`). A write is taken to reach the file
when it returns (the code does not call `fsync`), and a put is one write. `SdrHeap` is in
words and double words of a heap of nine; the map's fields have addresses of their own.

In `Zco` each function is one step, since each runs in its caller's transaction, and an
object has two bytes or one. No function of `zco.c` makes bulk references or trailer
capsules, so there are none; changes that others make to a file behind a ZCO, the
provisional flag and the callback for occupancy are left out (the last is `ZcoSpace`).
`ZcoSpace` has one account and one medium. Each transaction of `ionCreateZco` is a step,
and so is each use of the semaphore between them; the destruction of a ZCO serves the
list before its transaction ends, so it may be canceled after that.

A node of `RedBlackTree` is named by its key. Deletion moves data between nodes, which
renames one; that an address held by a caller then means something else is not in the
model. Failure of the shared memory allocator is left out.

In `ContactPlan` time is a few instants and all managed and discovered contacts have one rate
and confidence 1.0, which is what `ionProd` enters. `rfx_insert_contact` takes any confidence above
0 (`rfx.c:747`); a contact of less than 1.0 counts as a prediction there, so that "one prediction
at most" in `ContactsDisjoint` would not hold of a plan to which such contacts are added.
Alarms, nodes, neighbors and probes, distances of ranges and the effects of events when they
are due are left out, so are failures of memory. Contacts and ranges share no entry, so
the ranges are explored while there is no contact and the contacts while there is no range.

`Quarantined` is the one assumption on time in `LtpSession`. `noteClosedImport` keeps a closed
import session on record for two times `maxTimeouts` round trips and ten seconds
so that "an additional checkpoint should never arrive after the removal event". The
model takes the comment at its word: the record is dropped only when the sender is
through with the session and none of its data segments is queued or in flight.
Where the comment's exception applies (different limits at the two ends) the block
may be delivered twice, as it says itself.

## What TLC checks

Each run answers one question of the system. The type invariants of `LtpAggregation`,
`LtpTimers` and `Zco` are proved and not run, and that of `MCSdrStore` holds on the same
instance; their runs spend their time on the other properties.

The runs of `MCLtpSession` use blocks of one to four units, one import session slot, and one retry
per timer. `NetCapacity` bounds the segments in flight (a further one is lost),
`QueueBound` the queue length at which an engine stops receiving. Two segments in
flight (`red`) are enough for every reordering of a pair; three
units with segments of two and checkpoints of one make a retransmission with
other boundaries than the original, and leave a gap before, between or after what
was received. One retry shows the first expiration, the retry and the limit. Two
checkpoints and two reports per session show the first round, a repair, and the
limit. Deadlock is not checked: a span with nothing left to do rests.

* `red` - the all-red block of three units in segments of one, two segments in flight,
  duplication, reports of one claim each, so that a report on a block with a gap is
  split. Types; a single delivery; a single verdict; one announcement of the end of
  transmission; one pending retransmission per armed segment; what the sender and the
  reports in flight claim is held by the receiver; `LtpSession` implements `LtpService`.
* `live` - a mixed block of three red units and a green one, and a block that is all green,
  with all faults. Weak fairness of the two output daemons and of each session's events: the
  daemons loop on the segment semaphore and `ltpclock` dispatches every due event
  each second, so an enabled step of theirs is taken in the end. Nothing is assumed
  of the link, not even that it ever delivers. Every export session ends, and every
  canceled import session is forgotten; an open session is never stranded, that is,
  some timer or queued segment will move it; completion waits for the end of
  transmission and is truthful; nothing is miscolored. One segment is in flight at a
  time, and the retransmissions of the first block still follow the second one; segments of two
  units and checkpoints of one make retransmissions with new bounds. What is reordered by the
  link is the subject of `red`, and of the proofs, where its capacity is arbitrary.

The runs of `MCLtpAggregation` use two red units and a green one, each of length 1,
an aggregation size limit of 2, an age limit of 1 and a window of one session.
A block is thus closed by its size, by its age, or by green data; there are senders
that wait for either semaphore at once; and the window, with the one over-limit
session that the code allows for green data, is full with two of the three units.

* `flow` - two clients, one of which closes and opens its service; `ltpmeter` dies,
  the link comes and goes with a purge, the span is stopped and started. The
  sessions with red data never exceed the window; only the current session waits to
  be segmented; blocks are well formed and their lengths are those of their units;
  an accepted unit is in one session or one notice; the output daemon misses no
  segment. Deadlock is not checked: see `resetSpan` below.
* `comeback` - every unit is accepted and comes back to its client, once a contact
  lasts. Senders, the output daemon and `ltpadmin` are weakly fair: they are
  processes that run on. Each step of `ltpmeter` is strongly fair, since it may be
  killed again and again and `ltpadmin` starts it again each time; what it needs is
  to get as far as that step at some time. Sessions end, as said above, and
  `ltpclock` notices the contact at one of its rounds.

The runs of the layers below:

* `timers` - a checkpoint and a cancellation, each delay of one second, one retry, seven
  seconds: enough for a signal to be sent, suspended before or after its answer
  is due, resumed, sent again and suspended again. `RS` and `CR` name the other kinds.
  No signal that waits for an answer is forgotten; a checkpoint or report has one
  timeout or one place in the queue; no timeout is charged before an answer could come.
* `store` - two tasks on a heap of nine double words with a small and two large sizes,
  in transactions nested twice, in a file or in a file and in memory. The heap is small
  enough to be exhausted from both sides and large enough to split, and to join a
  block with both neighbors. The log is followed by a kill at each write. Whoever takes
  the lock finds the dataspace of the last transaction that ended; at any instant the
  log leads back to it; the pools are well formed; the blocks in use are the
  objects that tasks hold. `MaxLog = 0` is a bound: a transaction makes one call with
  all its puts, then ends, is canceled or is killed. Power cycles are
  taken of a database in a file.
* `zco` - a file of two bytes and a heap object of one, two ZCOs, two liens, three extents
  in all, both accounts. The sizes of the records are numbers no two sums of
  which agree by accident. Counts are the citations there are and the occupancy is
  what is cited; nothing that is cited is freed and nothing else is kept; and reading in
  any portions returns each byte once. `Zco` implements `ByteStrings`, so what is done to a ZCO
  shows in no other one; and each call makes the step of `ByteStrings` that it was asked for. The
  second is not in the first: a specification in `strings` and `lengths` alone knows of no
  call, so a clone with another offset would be a step of it too. `CallsAsAsked` takes the
  offset and the length from the call: with a walk that begins at the start of an extent
  (`WalkFromStart`) the first holds and the second does not.
* `space` - three tasks, a limit of four, requests of two priorities that wait or do
  not. No requisition is abandoned; the list keeps priority and arrival; who is awakened
  has been served. Deadlock is not checked: see the lost wakeup below.
* `tree` - ten keys: black height three and every repair of deletion. After each
  operation the tree is balanced, its readers find all keys in order, and throughout it
  implements a set.
* `plan` - three nodes, four instants, up to three contacts or ranges. Contacts of a pair
  are disjoint whatever was predicted and refused; list, index and timeline agree; an
  imputed range rests on an asserted one.

Fairness is assumed in `live` and `comeback` only. The deadlock check is off where the
system may rest (`red`, `live`, `leak`, `notices`, `timers` at its last second, `plan`,
`zco` and `store` at a bound) or may stop for good (`flow`, `space`).

Two runs show where the code departs from its own comments and the RFC kept in `doc/`.

* `leak` - after the acknowledgment of a cancellation the dead export session is
  never dropped, since `handleCAS` looks it up in the wrong list.
* `notices` - when both ends cancel a session at almost the same time, its client is told
  once, though the comment in `ltp_get_notice` says that "both cancellations cause notices to be
  sent". The sender has taken the session out of the hash when the cancellation by the receiver
  arrives, and `handleCR` ignores it. `OneVerdict` states what the code does: one verdict.

## Where the code does less than one would expect

Met while modelling. The models have these steps as the code has them, save the removal of
a span, the check of writes (`sdrmgt.c:963`) and the address in an `int` (`smrbt.c:1020`):

* `libltpP.c:397` `resetSpan` gives each semaphore and takes it again while it holds the
  SDR. A sender that was waiting may take it between the two; `resetSpan` then waits for
  ever, and everyone else for the SDR.
* `libltpP.c:5278` a checkpoint whose bytes overlap stored ones is discarded without a
  report, even when its serial number is new.
* `libltpP.c:1422` `removeSpan` refuses a span with an export session, and
  `ltpmeter` always leaves an empty one there for the next block: a span that was once
  started cannot be deleted, whatever is pending.
* `libltpP.c:6874` a cancellation by the receiver that finds the session canceled here
  is neither told to the client nor acknowledged (run `notices`); the receiver repeats it
  until its retries are used up.
* `libltpP.c:3306` a session closed by its last green segment leaves timers of its checkpoints.
* `libltpP.c:268` late reports that use up the response limit free the entry of a closed
  export session while the event that is to free it is pending. What the stale pointer
  then deletes is modelled as nothing or another session's entry.
* `libltpP.c:6320` of a report that is split (the code has 20 claims in a segment) the part
  that arrives may have no gap in its scope: then nothing is retransmitted, but the timer of the
  checkpoint is stopped, and the session waits for the receiver alone. If the rest of the
  report, its retransmissions and the cancellation that follows are lost, it stays open for
  ever. TLC finds both `NeverStranded` and `SenderFinishes` violated when `live` is run
  with `MaxClaims = 1` and `SegLen = 1`; the runs have blocks whose reports are not split.
* `libltpP.c:7525` a cancellation that was never sent has a timer that counts as suspended;
  a resumption of the link posts its timeout.
* `sdrxn.c:1775` a nested begin clears the mark that the dataspace was modified, so that a
  cancellation of an irreversible transaction does not bail out.
* `sdrxn.c:1418` after a power cycle a database in file and memory starts with an empty
  memory, though the file has the contents.
* `sdrmgt.c:963` the check that a write stays inside an object uses "or" for "and".
* `ion.c:1121` the wakeup of a task that is about to wait may be lost; `ion.c:1178` space that
  is awarded is not withheld from requests of higher priority, nor from anyone between
  the end of a ticket and the making of its ZCO.
* `smrbt.c:204` clearing a tree leaves its length; `smrbt.c:1020` an address is kept in an `int`.
* `rfx.c:2446` removing all ranges of a pair does not end, and holds the SDR, when the other
  direction has been asserted; `rfx.c:2189` a range that overrides an imputed one is
  compared with the last range of all in place of its neighbors.

Each property of a passing run has a faulty variant of a definition of the model (they
stand before the definition they vary and are used by no action) under which
TLC finds the property violated.

## What is proved

Seven components are proved for every value of their constants: the sessions of a span,
aggregation, timers, zero-copy objects, requisitions of their space, transactions, and the
contact plan.

| theorem | module | statement |
|---|---|---|
| `TypeCorrect` | `LtpSessionProofs` | `Spec => []TypeOK` |
| `VerdictsAreFinal` | `LtpSessionProofs` | `Spec => []OneVerdict` |
| `SessionsConsistent` | `LtpSessionProofs` | `Spec => []LtpInv` |
| `RedPartDeliveredOnce` | `LtpSessionProofs` | `Spec => []DeliveredOnce` |
| `CompletionIsTruthful` | `LtpSessionProofs` | `Spec => []CompletionTruthful` |
| `SessionImplementsService` | `LtpSessionProofs` | `Spec => ImplementsService` |
| `SignalsConsistent` | `LtpSignalsProofs` | `Spec => []SignalsInv` |
| `OneRetransmissionPerSignal` | `LtpSignalsProofs` | `Spec => []OneRetransmission` |
| `ClaimsAreHeld` | `LtpSignalsProofs` | `Spec => []ClaimsHeld` |
| `NothingIsMiscolored` | `LtpSignalsProofs` | `Spec => []NeverMiscolored` |
| `TransmissionAnnouncedOnce` | `LtpSignalsProofs` | `Spec => []XmitCompleteOnce` |
| `CompletionAfterTransmission` | `LtpSignalsProofs` | `Spec => []CompleteAfterXmit` |
| `ProgressConsistent` | `LtpSignalsProofs` | `Spec => []ProgressInv`, if `WholeReports` |
| `OpenNeverStranded` | `LtpSignalsProofs` | `Spec => []NeverStranded`, if `WholeReports` |
| `AggregationTypeCorrect` | `LtpAggregationProofs` | `Spec => []TypeOK` |
| `WindowRespected` | `LtpAggregationProofs` | `Spec => []RedWindow` |
| `OneBlockOpen` | `LtpAggregationProofs` | `Spec => []OneOpenBlock` |
| `BlocksAreConsistent` | `LtpAggregationProofs` | `Spec => []BlocksConsistent` |
| `UnitsAccounted` | `LtpAggregationProofs` | `Spec => []SdusAccounted` |
| `WakeupNeverLost` | `LtpAggregationProofs` | `Spec => []NoLostWakeup` |
| `TimersTypeCorrect` | `LtpTimersProofs` | `Spec => []TypeOK` |
| `NothingForgotten` | `LtpTimersProofs` | `Spec => []NeverForgotten` |
| `OneTimeoutEach` | `LtpTimersProofs` | `Spec => []OneTimeout` |
| `NoTimeoutPremature` | `LtpTimersProofs` | `Spec => []NoPrematureTimeout` |
| `AccountsAgree` | `ZcoProofs` | `Spec => []AccountsExact` |
| `BytesOwned` | `ZcoProofs` | `Spec => []StorageOwned` |
| `ZcoTypes` | `ZcoProofs` | `Spec => []TypeOK` |
| `LengthsAreTrue` | `ZcoContentProofs` | `Spec => []ContentInv` |
| `ReadersInOrder` | `ZcoContentProofs` | `Spec => []ReadsInOrder` |
| `ZcoImplementsByteStrings` | `ZcoContentProofs` | `Spec => ImplementsByteStrings` |
| `CallsDoAsAsked` | `ZcoContentProofs` | `Spec => CallsAsAsked` |
| `TicketsAreOwned` | `ZcoProofs` | `SpaceSpec => []TicketsOwned` |
| `PriorityKept` | `ZcoProofs` | `SpaceSpec => []PriorityOrder` |
| `WakesAreServices` | `ZcoProofs` | `SpaceSpec => []WakesServiced` |
| `TransactionInvariant` | `IonProofs` | `Spec => []TransactionInv`, for protected configurations |
| `UnlockedCommitted` | `IonProofs` | `Spec => []UnlockedIsCommitted`, likewise |
| `LogAlwaysRestores` | `IonProofs` | `Spec => []LogRestores`, likewise |
| `PlanConsistent` | `IonProofs` | `PlanSpec => []PlanInv` |
| `ContactsApart` | `IonProofs` | `PlanSpec => []ContactsDisjoint` |
| `IndexesAgree` | `IonProofs` | `PlanSpec => []PlanIndexed` |
| `ImputedRest` | `IonProofs` | `PlanSpec => []ImputedBacked` |

### From which assumptions

The only assumptions are the named ones on the constants, which TLC evaluates, and the
hypotheses of the theorems on progress and on transactions.

* Sessions: `ConstantsAssumption`, `ImportAssumption` and `SessionAssumption` say that
  lengths and limits are positive where the code makes them so. Sessions, blocks, limits of
  retries and reports, faults, the capacity of the links and the bounds on the queues are
  arbitrary; links may lose and repeat any segment and deliver in any order. The
  quarantine of closed sessions is part of the model (above).
* `WholeReports` (`ProgressConsistent`, `OpenNeverStranded`): `RedLen(s) <= 2 * MaxClaims`.
  Claims are apart, so at most every second unit starts one and no report on a
  checkpoint is split, whatever is missing. The code has 20 claims in a report: blocks whose
  red part is lost and received in up to 40 stretches. The hypothesis cannot be dropped:
  with `RedLen` 3 and one claim in a report the session is stranded
  (`libltpP.c:6320`, above). `live`, the run that checks `NeverStranded`, satisfies it; `red`
  is about split reports and does not.
* `AggregationAssumption`, `TimersAssumption`: finite sets of units, clients, sessions and
  signals, positive lengths, and natural numbers for limits and delays.
* `ZcoAssumption`: finitely many addresses of objects, ZCOs and liens, objects that are not empty,
  natural sizes. Accounts, sizes, limits, the bounds on extents and headers and the delimitations that are
  tried are arbitrary, and whether callers declare lengths to be okay.
* `SpaceAssumption`: a finite set of tasks, each of which asks for some natural amount.
* `TransactionAssumption`: a database is in a file or in memory; `Updates`, the calls that
  tasks may make, is any set of sequences of puts. So the theorems hold of every
  user of transactions and not of the heap alone.
* `PlanAssumption`: nodes have positive numbers; finitely many pairs of distinct
  nodes have contacts; times are natural numbers below the end of time, and contacts start after
  the beginning. Rates, the length of the logs, the error of the clock and
  the constants of prediction are arbitrary.
* `ProtectedConfigs`: every configuration is reversible and keeps its log in a file, and
  a power cycle happens only without a copy in memory. This is what the code promises
  its users something for: without a log there is nothing to reverse, a log in
  memory is empty after a restart, and the copy in memory is not read back
  after a power cycle (`sdrxn.c:1418`). All configurations of run `store` satisfy it.

### Along which argument

Each invariant was checked by TLC on the constants of its runs before it was proved.
**Sessions.** `DeliveredOnce` is not inductive: a second delivery needs a segment that
starts a session the client has already heard of. `Settled` says why there is none:
after the first notice the session is open and delivered, dead, on record as closed,
or `Gone`, and `Gone` (the sender is through and no data segment of the session is
queued or in flight) is stable because only an open session sends data.

`CompletionTruthful` is not inductive either, since the sender adds up claims that it
received at different times. The part that carries it is `ClaimsBounded`: as long as
the red part is not delivered, some unit of it is claimed *nowhere* - not at the
sender, in no report on its way, queued or listed for retransmission - and an open
session's reports claim only what it holds. Reports are the only source of claims
(`ReportsFlow`, `ClaimsFlow`), a session that reports lacks a unit (`ReporterLacks`,
which needs the byte counts to be those of the units: `BytesAccounted`, and through it
`SegmentsSound`), and a session the receiver has forgotten is `Gone`, or was never
heard of (`UnissuedUnknown`). `FinalAckTruthful` keeps the fact for the sessions that
complete later, with their last green segment. `CkptsOwned` is what makes a
retransmission from the list of checkpoints as sound as the first transmission.

`LtpSessionProofs` has one lemma per action for `TypeOK`, then *flow lemmas* (where a
segment in a queue, a list or a link can come from in one step, for any set of
segments) and *life lemmas* (how the lists and notices of one session move), and
proves each part of `LtpInv` from these. `LtpInv` was checked by TLC on the
constants of `red` and `live`, and with reports of one claim, before it was proved. The refinement adds that
a step concerns one session and one of its clients (`ExpLocal`, `ImpLocal`,
`OneHalfActs`), and says what that client may be told (`OutcomeStep`, `RedPartStep`).

The other properties of the sessions rest on a second invariant, `SignalsInv`, proved from
`LtpInv` before and after each step and checked by TLC on the constants of `red` and
`live` first. None of them is inductive.

* `OneRetransmission`: the queue and the timeline name a checkpoint or a report by its
  number, so `CkptsSignaled` and `ReportsSignaled` state for every *number* that has been
  given out that at most one entry, one queued copy and one event bear it, that the copy is
  that of the entry, and that there is not both copy and event. For reports this
  needs that the reports of one checkpoint are numbered without a gap (`PiecesNumbered`,
  from the ranks of `DataLemmas`).
* `NeverMiscolored`: red segments end within the red part, green ones start beyond it
  (`SegmentsMarked`), and the receiver's marks of the last red and green segment do too
  (`ColorsKept`).
* `ClaimsHeld`: claims are within the red part (`ClaimsWithin`), and a session that is
  delivered has told its client (`HeardIsDelivered`), so for each unit an open session lacks
  `ClaimsBounded` says that nobody claims it.
* `XmitCompleteOnce`: the end of an all-red block is announced when its checkpoint is sent
  for the first time. Until then the end is nowhere but in the queue (`RedEndAnnounced`,
  `EndUnseen`); afterwards only retransmissions of that first checkpoint carry it
  (`EndIsFirst`), and no report ever asks for the end again, since whoever reports the
  end of the block has it (`ReportsAnswer`). With a green part it is the last green segment,
  of which one copy exists (`GreenEndAnnounced`).
* `CompleteAfterXmit`: the last report of an all-red block claims its end, which is
  `Unclaimed` before it is announced; otherwise the session closes only with `EOB_SENT`.

`NeverStranded` rests on a third, `ProgressInv`, proved from both others before and after
each step. What has to be excluded is that the last checkpoint that is waited for is answered by
a report that asks for nothing and yet leaves the session open. Reports
are whole, so each covers the block from its start at least to the end of the checkpoint it answers
(`Reaching`, `ScopesReach`); whatever of the red part lies beyond the end of a
checkpoint has been claimed before, since a retransmission ends with the last gap (`BeyondClaimed`).
So a report that claims its whole scope leaves nothing unclaimed, and the session closes or has
its green end in the queue (`AckedEarly`, `EndSentEarly`); and a report with a gap
queues a new checkpoint behind the data it resends. `SessionsMove` gathers what
holds of an open session: until its red part is acknowledged some checkpoint of it is queued
or armed (`AnswerAwaited`; by `SignalsInv` an armed one is queued or has its event),
and afterwards the end of its green part is queued. `UnissuedUnnumbered` starts the
induction: a session that is idle has given out no checkpoint number.

**Aggregation.** `DataInv` ties the records of the database together: of the open sessions
only the current one has not been cut (`Cut`), data in the queue are those of a session that
was cut and cancellations those of one that is gone (`Queued`), the lengths of the buffer and
of the blocks are those of their units, red before green (`BufferSound`, `BlockSound`), and a
unit is in one session or one notice if it was accepted (`Placed`, which gives
`SdusAccounted` and, for two sessions, what no count of units could say). `RedWindow` is
inductive with them, as the current session counts once it holds red data. `ControlInv` is about
the processes: `NoLostWakeup` survives a reset of the span, which takes back the segment
semaphore, only because the output daemon has ended by then (`ResetAlone`).

**Timers.** `SignalInv` says of one signal how its place in the queue, its timer and its event on
the timeline go together: a live one that is timed has one of the three, or is suspended while
the neighbor is silent (`NotForgotten`); a segment has at most one of queue and event
(`OneWait`); a suspended timer has none (`SuspendedIdle`), which is what the resumption relies
on. `NoPrematureTimeout` needs the history of the neighbor's link as well: a deadline is never
less than that of an answer at the earliest, and has been moved only if that time is past
(`DeadlineBounded`, `QueuedLate`), an event is at the deadline (`EventAtDeadline`), and either the
answer has yet to begin and the neighbor transmits, or the neighbor was seen to transmit
early enough (`EventTimely`, with `TransmissionSeen`).

**Zero-copy objects.** A function of `zco.c` posts, counts, drops and cuts in a loop over the
extents, and in between nothing agrees with anything. So the invariant is one of the *stores* the
functions work on, and is stated with a table `v` of what the ZCOs are taken to be and with
what is about to be cited: `SoundWith(s, v, L, O)`. While `zco_destroy` works, the ZCO is
still in the store and `v` has what is left of it; while `appendExtent` works, the new lien (`L`) and the
reference it made (`O`) have no citation yet. Within it, `Paid` says that what the book of an account has in
excess of the costs of liens and references (`Excess`) is what its ZCOs cost, so a step moves the
excess by what it changes and the sums are never taken apart but at one place;
`CitesCounted` and `RefsCounted` are the two levels of counters; `LiensCited` and
`RefsKept` say that what nothing cites is gone, and what is cited is there;
`ExtentsInside` that extents lie within their objects; and `HeadersOwned` that each
capsule has one owner, which bonding needs (a header's object is in the heap, and has no reference until
then), and destruction (no header is destroyed twice). Each step of a loop keeps it
(`ExtentAdded`, `ExtentCut`, `HeaderCut`, `HeaderBonded`), and `LeftTurns` and `RightTurns` carry
that through the folds. The pieces of a walk lie within the extents they come from (`WalkInside`), so
what they cite stands.

What a ZCO holds is a second subject (`ZcoContentProofs`). `BytesOf`, which joins the pieces of a
walk, is a fold; `BytesAppend` says what one more piece adds, and from there on strings are handled by
sequence lemmas and by an induction over lengths (`SequenceInduction`). `WalkReads` is the core: skipping
`o` bytes and taking `n` of a list of pieces, as the readers and the functions that clone do
it piece by piece, gives the part of the joined bytes from `o` on, `n` long or as long as there are
bytes (`IsPart`). Two parts of which the second begins where the first ends join to one
(`PartsMeet`), which is `ReadsInOrder` once the lengths that tell a reader where it stands are true.
So `ContentInv` is `ZcoInv` with `LengthsTrue`: the kept lengths are those of the bytes. For the
refinement, a function changes the string it is about, and no other: two stores agree on
the liens both hold (`Agree`), a lien that other ZCOs cite is not removed (`SoundWith`), and so
their extents lead to the same bytes as before (`PiecesAgree`, `OthersKept`). This holds of each turn
of the loops too, and `Refilled` and `FewerLiens` carry what bonding and destruction have
done so far: after each header that was bonded, the headers still attached followed by the body are
the string it was. Functions on references alone touch no string (`ActsUnseen`), all others are the steps of
`ByteStrings` (`ActsAsPromised`), and those that were asked for: by `WalkReads` the pieces that a
clone cites are the slice of its source (`SliceOfBody`), which is the text that the new string
is made of or the old one gets (`Makes`, `Adds`).

**ZCO space.** `SpaceInv`: the list, and the record of arrivals, hold one ticket of each task that is
inside `ionCreateZco` (`Tickets`); a ticket stands before those of lower priority and those
of its own that came later (`InOrder`, which an award, a removal and an insertion behind the last
that may precede keep); and a semaphore given or just taken was given with the request serviced
or the attendant ended (`TaskFine`).

**Transactions.** What must be shown is a statement about every instant between two writes: the
log, reversed, gives back what was committed. `Restores` says so without the reversal: at each
address the *oldest* whole entry has the committed content, and an address without an
entry has it still. `ReversedAll` shows, by induction on the entries, that this is
what the loop of `reverseTransaction` computes. `LogFine` says that the entries are whole, save
for a last one that is being written or was when its task was killed; `PutFine` that a put reaches the file
or memory only after its entry; `CopiesFine` that file and memory are equal but for the put
under way, and how far a reversal has come, which may be begun again after a death at any of
its steps; `LockFine` that what is not locked is committed and only the owner of the lock writes.

**Contact plan.** A call is a function of the part of the state that concerns contacts, and
a call may make others: an insertion drives predictions out, the end of a contact logs it,
and a loss of the peer removes, logs and predicts again. So what is proved of each function is that it
keeps a plan `Coherent`: the database, the index and the timeline agree but for the events of the
ranges, which are given (`others`), and no two contacts of a pair meet. That gives
`ContactsDisjoint` and the contacts' half of `PlanIndexed` at once; that there is only
one prediction of a pair is kept as well, since predicting replaces what it predicted
before. The functions that walk over an index are folds over a set in no particular order, and
the lemmas on folds of `DataLemmas` say that whatever each step keeps the fold
keeps. The basis of a prediction, a sum of bytes and times over the log, is a natural
number whatever the log holds (`BaseTyped`). `ImputedBacked` is not inductive: an
asserted range is removed with the imputed one that rests on it only if it is the canonical one of
its pair, from the lower to the higher node. `Rests` adds that the range below an
imputed one is canonical.

`DataLemmas` has what these need of sequences and sets and the library does not state: sums
over finite sets (`LtpAggregation`, `Zco`), insertion and removal in a list kept in order
(`LtpTimers`, `ZcoSpace`), and folds over sets (`ContactPlan`, `Zco`). Its induction on naturals is in terms of a set and not of a
predicate, for the reason given below.

### What is only model-checked

* `SenderFinishes`, `DeadImportsDrained` and `SdusComeBack`, the liveness properties of `live`
  and `comeback`: out of the prover's reach.
* `NeverStranded` without `WholeReports`: then it is false (above). Every other safety
  property of the sessions is proved as it is checked.
* `HeapWellFormed` and `ObjectsIntact`, `Balanced` and `NeighborsExact`: their predicates are
  recursive over the free lists and the nodes, and what a recursive definition computes
  for every input cannot be proved, since the theorems on induction take an operator.
  (Where a statement can be put in terms of a *set* of numbers, as in `DataLemmas`, it can.)
* The refinement of `KeySet` by `RedBlackTree`: that a deletion removes the key, and that clearing
  ends with no node left, rest on the order of keys below every node, kept through all rotations.
  The sets of descendants can be named without recursion, but this proof has not been made.

## Not modelled

* The merging of claim arrays in `handleRS`, gap lists and segment lengths: the models
  have sets of units. `libltpP.c:6166` is a hazard without a property.
* Adding, changing and removing spans (`ltpclock.c:89` is a hazard), and the client's side
  of the notices.
* SDR: logs in memory (a reload with one has no entries left to reverse), reloading a
  database in memory only, the catalogue, lists and hashes.
* Personal space management, `smlist`, `lyst`: used as sets and sequences.
* SDA, SDNVs, extensions, statistics, cryptography, test programs: no state of their own
  that anything else depends on.

## What is left to prove

The proofs of the sessions and of the zero-copy objects take about a quarter of an hour each to check,
the others a few minutes. What is left:

* `RedBlackTree`: the order of the keys in terms of the sets of descendants, and with it
  the refinement of `KeySet`. `Balanced`, `NeighborsExact` and the pools of `SdrHeap` stay with TLC.
