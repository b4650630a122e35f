------------------------------ MODULE ZcoSpace ------------------------------
(* Flow control of zero-copy object space (ion.c): a task that wants to    *)
(* create a ZCO puts a requisition in the list of its account, has the     *)
(* list served, and either creates the ZCO, gives up, or waits on its      *)
(* attendant's semaphore.  One account and one medium; a task has one      *)
(* requisition or one ZCO at a time.  Each transaction of the SDR is one   *)
(* step; what a task does between two transactions is a step of its own.   *)
EXTENDS Integers, FiniteSets, SequencesExt, TLC

CONSTANTS Tasks, MaxOccupancy,
    Requests        \* what a task may ask for, a set of requisitions

ASSUME SpaceAssumption ==
    /\ IsFiniteSet(Tasks) /\ MaxOccupancy \in Nat
    /\ Requests \subseteq [need : Nat \ {0}, coarse : 0..255, fine : 0..255,
                           waits : BOOLEAN, serviced : {FALSE}]

VARIABLES
    requisitions,   \* the list: its elements are the tasks' tickets
    req,            \* req[t]: what task t has requested, until it is idle again
    arrivals,       \* the tickets in the order they were drawn (history)
    given, ended,   \* tasks whose attendant's semaphore is given, is ended
    occupancy,      \* current occupancy of the account
    held,           \* held[t]: length of the ZCO that task t has created
    pc              \* pc[t]: where t is in ionCreateZco

spaceVars == <<requisitions, req, arrivals, given, ended, occupancy, held, pc>>
sems == <<given, ended>>

NoRequest == [need |-> 0, coarse |-> 0, fine |-> 0,
              waits |-> FALSE, serviced |-> FALSE]

\* The tasks that hold a ticket, by the place they have reached.
Ticketed == {"listed", "provided", "refused", "priming", "primed",
             "waiting", "woken", "awarded", "interrupted"}

Places == Ticketed \cup {"idle", "creating"}

(***************************************************************************)
(* The list.  A requisition goes after the last one of at least its own    *)
(* priority.                                                               *)
(***************************************************************************)
Precedes(old, new) ==
    \/ old.coarse > new.coarse
    \/ old.coarse = new.coarse /\ old.fine >= new.fine

\* A plausible error: requisitions of the same priority are passed by.
InsertPointPassingEquals(list, r) ==
    LET ahead == {i \in DOMAIN list : ~Precedes(r, req[list[i]])}
    IN  IF ahead = {} THEN 0 ELSE Max(ahead)

InsertPoint(list, r) ==
    LET ahead == {i \in DOMAIN list : Precedes(req[list[i]], r)}
    IN  IF ahead = {} THEN 0 ELSE Max(ahead)

Listed(t, r) == InsertAt(requisitions, InsertPoint(requisitions, r) + 1, t)

(***************************************************************************)
(* ionProvideZcoSpace: one walk over the list.  What a serviced            *)
(* requisition has reserved is subtracted where the walk meets it.         *)
(***************************************************************************)
Available(r, total, restricted) ==
    LET avbl == IF r.waits THEN restricted ELSE total
    IN  IF avbl < 0 THEN 0 ELSE avbl

Affordable(r, walk) == r.need <= Available(r, walk.total, walk.restricted)

Provision(walk, t) ==
    IF req[t].serviced \/ Affordable(req[t], walk)
    THEN [total      |-> walk.total - req[t].need,
          restricted |-> walk.restricted - req[t].need,
          serviced   |-> walk.serviced \cup {t}]
    ELSE walk

Provided(list, occupied) ==
    FoldLeft(Provision,
             [total      |-> MaxOccupancy - occupied,
              restricted |-> MaxOccupancy \div 2 - occupied,
              serviced   |-> {}], list).serviced

\* The requisitions that a walk services and the semaphores it gives; a
\* semaphore that is given already stays as it is.
ProvideZcoSpace(occupied) ==
    LET serviced == Provided(requisitions, occupied)
        fresh    == {t \in serviced : ~req[t].serviced}
    IN  /\ req' = [t \in Tasks |-> IF t \in fresh
                                   THEN [req[t] EXCEPT !.serviced = TRUE]
                                   ELSE req[t]]
        /\ given' = given \cup {t \in fresh : req[t].waits}

Goto(t, place) == pc' = [pc EXCEPT ![t] = place]

(***************************************************************************)
(* ionRequestZcoSpace and ionCreateZco.                                    *)
(***************************************************************************)
RequestZcoSpace(t, r) ==
    /\ pc[t] = "idle" /\ held[t] = 0
    /\ req' = [req EXCEPT ![t] = r]
    /\ requisitions' = Listed(t, r)
    /\ arrivals' = Append(arrivals, t)
    /\ Goto(t, "listed")
    /\ UNCHANGED <<sems, occupancy, held>>

Provide(t) ==
    /\ pc[t] = "listed"
    /\ ProvideZcoSpace(occupancy)
    /\ Goto(t, "provided")
    /\ UNCHANGED <<requisitions, arrivals, ended, occupancy, held>>

\* secondsUnclaimed is read when the transaction is over.
NotYet(t) ==
    /\ pc[t] = "provided" /\ ~req[t].serviced
    /\ Goto(t, IF req[t].waits THEN "priming" ELSE "refused")
    /\ UNCHANGED <<requisitions, req, arrivals, sems, occupancy, held>>

GotIt(t) ==
    /\ pc[t] = "provided" /\ req[t].serviced
    /\ Goto(t, "awarded")
    /\ UNCHANGED <<requisitions, req, arrivals, sems, occupancy, held>>

PrimeGive(t) ==
    /\ pc[t] = "priming"
    /\ given' = given \cup {t}
    /\ Goto(t, "primed")
    /\ UNCHANGED <<requisitions, req, arrivals, ended, occupancy, held>>

PrimeTake(t) ==
    /\ pc[t] = "primed" /\ t \in given
    /\ given' = given \ {t}
    /\ Goto(t, "waiting")
    /\ UNCHANGED <<requisitions, req, arrivals, ended, occupancy, held>>

\* A plausible error: the semaphore is not readied before the wait.
PrimeNothing(t) ==
    /\ pc[t] = "priming"
    /\ Goto(t, "waiting")
    /\ UNCHANGED <<requisitions, req, arrivals, sems, occupancy, held>>

Prime(t) == PrimeGive(t) \/ PrimeTake(t)

Wake(t) ==
    /\ pc[t] = "waiting" /\ t \in given
    /\ given' = given \ {t}
    /\ Goto(t, "woken")
    /\ UNCHANGED <<requisitions, req, arrivals, ended, occupancy, held>>

\* sm_SemEnded gives the semaphore of an ended attendant again.
CheckEnded(t) ==
    /\ pc[t] = "woken"
    /\ IF t \in ended THEN given' = given \cup {t} /\ Goto(t, "interrupted")
                      ELSE UNCHANGED given /\ Goto(t, "awarded")
    /\ UNCHANGED <<requisitions, req, arrivals, ended, occupancy, held>>

\* ionShred deletes the list element that the ticket is.
Without(list, t) == RemoveAt(list, CHOOSE i \in DOMAIN list : list[i] = t)

Shred(t, place) ==
    /\ requisitions' = Without(requisitions, t)
    /\ arrivals' = Without(arrivals, t)
    /\ req' = [req EXCEPT ![t] = IF place = "idle" THEN NoRequest ELSE @]
    /\ Goto(t, place)
    /\ UNCHANGED <<sems, occupancy, held>>

\* A plausible error: an interrupted request is left in the list.
GiveUpRefusedOnly(t) ==
    /\ pc[t] \in {"refused", "interrupted"}
    /\ IF pc[t] = "refused" THEN Shred(t, "idle")
       ELSE /\ Goto(t, "idle")
            /\ UNCHANGED <<requisitions, req, arrivals, sems, occupancy, held>>

GiveUp(t) == pc[t] \in {"refused", "interrupted"} /\ Shred(t, "idle")

Claim(t) == pc[t] = "awarded" /\ Shred(t, "creating")

\* zco_create is told not to look at the limit.
CreateZco(t) ==
    /\ pc[t] = "creating"
    /\ occupancy' = occupancy + req[t].need
    /\ held' = [held EXCEPT ![t] = req[t].need]
    /\ req' = [req EXCEPT ![t] = NoRequest]
    /\ Goto(t, "idle")
    /\ UNCHANGED <<requisitions, arrivals, sems>>

(***************************************************************************)
(* The destruction of a ZCO, by any task, serves the list inside its own   *)
(* transaction; the transaction may yet be canceled, which restores the    *)
(* occupancy and not the working memory.                                   *)
(***************************************************************************)
DestroyZco(t) ==
    /\ held[t] > 0
    /\ ProvideZcoSpace(occupancy - held[t])
    /\ occupancy' = occupancy - held[t]
    /\ held' = [held EXCEPT ![t] = 0]
    /\ UNCHANGED <<requisitions, arrivals, ended, pc>>

DestroyCanceled(t) ==
    /\ held[t] > 0
    /\ ProvideZcoSpace(occupancy - held[t])
    /\ UNCHANGED <<requisitions, arrivals, ended, occupancy, held, pc>>

Interrupt(t) ==
    /\ t \notin ended
    /\ ended' = ended \cup {t} /\ given' = given \cup {t}
    /\ UNCHANGED <<requisitions, req, arrivals, occupancy, held, pc>>

Resume(t) ==
    /\ t \in ended /\ pc[t] = "idle"
    /\ ended' = ended \ {t}
    /\ UNCHANGED <<requisitions, req, arrivals, given, occupancy, held, pc>>

SpaceInit ==
    /\ requisitions = <<>> /\ arrivals = <<>>
    /\ req = [t \in Tasks |-> NoRequest]
    /\ given \in SUBSET Tasks /\ ended = {}
    /\ occupancy = 0
    /\ held = [t \in Tasks |-> 0]
    /\ pc = [t \in Tasks |-> "idle"]

Step(t) ==
    \/ \E r \in Requests : RequestZcoSpace(t, r)
    \/ Provide(t) \/ NotYet(t) \/ GotIt(t) \/ Prime(t) \/ Wake(t)
    \/ CheckEnded(t) \/ GiveUp(t) \/ Claim(t) \/ CreateZco(t)

SpaceNext == \E t \in Tasks : Step(t) \/ DestroyZco(t) \/ DestroyCanceled(t)
                                 \/ Interrupt(t) \/ Resume(t)

SpaceSpec == SpaceInit /\ [][SpaceNext]_spaceVars

(***************************************************************************)
(* Properties.                                                             *)
(***************************************************************************)
\* Tickets are the tasks inside ionCreateZco that hold one, each once: no
\* requisition is abandoned in the list, whichever way the call ends, and
\* the occupancy is what the living ZCOs take.
TicketsOwned ==
    /\ IsInjective(requisitions)
    /\ ToSet(requisitions) = {t \in Tasks : pc[t] \in Ticketed}
    /\ occupancy = SumFunctionOnSet(held, Tasks)

\* The list is in order of priority, and of arrival among equals, whatever
\* was inserted and shredded in between.
PriorityOrder ==
    \A i, j \in DOMAIN requisitions : i < j =>
        LET a == req[requisitions[i]]
            b == req[requisitions[j]]
        IN  /\ Precedes(a, b)
            /\ a.coarse = b.coarse /\ a.fine = b.fine =>
                 \E k, l \in DOMAIN arrivals :
                    /\ k < l
                    /\ arrivals[k] = requisitions[i]
                    /\ arrivals[l] = requisitions[j]

\* A task that is woken and not interrupted finds its request serviced, as
\* ionCreateZco takes for granted: what is left in the semaphore from an
\* earlier request never passes for a service.
WakesServiced == \A t \in Tasks : pc[t] \in {"awarded", "creating"} => req[t].serviced

=============================================================================
