--------------------------- MODULE SdrTransaction ---------------------------
(***************************************************************************)
(* Transactions on an SDR (sdrxn.c).  The tasks that share an SDR take its *)
(* semaphore for the length of a transaction, which may be nested.  Each   *)
(* update of the dataspace is preceded, when the SDR is reversible, by an  *)
(* entry in the log with the data it replaces; a canceled transaction is   *)
(* backed out from the log, and so is one whose task was killed, when the  *)
(* profile of the SDR is reloaded.                                         *)
(*                                                                         *)
(* An update is an address and its new content.  What a task does between  *)
(* the beginning and the end of a transaction is a sequence of calls, each *)
(* of which makes a sequence of updates that depends on the dataspace; the *)
(* constant Updates says which ones it may be.                             *)
(***************************************************************************)
EXTENDS Integers, Sequences, SequencesExt

CONSTANTS
    Tasks,         \* the threads that use the SDR
    None,          \* no task: sdrOwnerTask = -1
    Empty,         \* the dataspace that initSdrMap makes
    Configs,       \* what the profile may say
    Reboots,       \* the profiles under which power cycles are considered
    MaxDepth,      \* bound: nesting of transactions
    MaxLog,        \* bound: entries in the log when a call begins
    Updates(_)     \* the updates one call may make, in order

ASSUME TransactionAssumption ==
    /\ Reboots \subseteq Configs
    /\ None \notin Tasks
    /\ MaxDepth \in Nat \ {0} /\ MaxLog \in Nat
    /\ Configs \subseteq [reversible : BOOLEAN, inFile : BOOLEAN, inDram : BOOLEAN,
                          logInFile : BOOLEAN]
    /\ \A c \in Configs : c.inFile \/ c.inDram
    /\ Empty = [x \in DOMAIN Empty |-> Empty[x]]  \* a function

VARIABLES
    config,      \* configFlags, and logSize = 0 for a log in a file
    file, dram,  \* the two copies of the dataspace, where there are two
    log,         \* entries: the address, the data there before, and whether both
                 \* parts were written
    logEntries,  \* the list of the entries of the current transaction
    locked,      \* the SDR's semaphore is taken
    owner,       \* sdrOwnerTask and sdrOwnerThread
    xnDepth, xnCanceled,
    phase,       \* what the termination of the transaction has still to do
    undone,      \* number of log entries already reversed
    view,        \* of each task: attached, modified, and the updates still to be
                 \* made by the call under way, with the stage of the first one
    committed    \* history: the dataspace after the last transaction that ended

vars == <<config, file, dram, log, logEntries, locked, owner, xnDepth, xnCanceled,
          phase, undone, view, committed>>
dataspace == <<file, dram>>
theLog == <<log, logEntries>>
lock == <<locked, owner, xnDepth, xnCanceled>>

NoView == [attached |-> FALSE, modified |-> FALSE, puts |-> <<>>, stage |-> "none"]
NewView == [NoView EXCEPT !.attached = TRUE]

\* What sdr_read and the update functions see.
Contents == IF config.inDram THEN dram ELSE file

Init ==
    /\ config \in Configs
    /\ file = Empty /\ dram = Empty /\ committed = Empty
    /\ log = <<>> /\ logEntries = <<>>
    /\ locked = FALSE /\ owner = None /\ xnDepth = 0 /\ xnCanceled = FALSE
    /\ phase = "open" /\ undone = 0
    /\ view = [t \in Tasks |-> NewView]

(***************************************************************************)
(* sdr_begin_xn.  Beginning within a transaction says that nothing was     *)
(* modified.                                                               *)
(***************************************************************************)
InTransaction(t) == owner = t /\ phase = "open"
Ready(t) == view[t].attached /\ view[t].puts = <<>>

BeginXn(t) ==
    /\ Ready(t)
    /\ \/ InTransaction(t) /\ xnDepth < MaxDepth /\ xnDepth' = xnDepth + 1
       \/ ~locked /\ xnDepth' = 1
    /\ locked' = TRUE /\ owner' = t
    /\ view' = [view EXCEPT ![t].modified = FALSE]
    /\ UNCHANGED <<config, dataspace, theLog, xnCanceled, phase, undone, committed>>

(***************************************************************************)
(* _sdrput, once for each update of a call: the log entry's control        *)
(* fields, the data they are about, the file, the memory.  Until the data  *)
(* are in the entry, something else stands there.                          *)
(***************************************************************************)
FirstStage ==
    IF config.reversible THEN "control" ELSE IF config.inFile THEN "file" ELSE "dram"

StartCall(t) ==
    /\ Ready(t) /\ InTransaction(t) /\ Len(log) <= MaxLog
    /\ \E puts \in Updates(Contents) :
           view' = [view EXCEPT ![t].puts = puts, ![t].stage = FirstStage]
    /\ UNCHANGED <<config, dataspace, theLog, lock, phase, undone, committed>>

Putting(t, stage) == view[t].puts # <<>> /\ view[t].stage = stage

PutAddress(t) == Head(view[t].puts)[1]
PutContent(t) == Head(view[t].puts)[2]

\* The next put of the call.
AfterPut(v) ==
    [v EXCEPT !.puts = Tail(v.puts),
              !.stage = IF Tail(v.puts) = <<>> THEN "none" ELSE FirstStage]

LogControl(t) ==
    /\ Putting(t, "control")
    /\ log' = Append(log, [addr |-> PutAddress(t), old |-> PutContent(t),
                           whole |-> FALSE])
    /\ view' = [view EXCEPT ![t].stage = "data"]
    /\ UNCHANGED <<config, dataspace, logEntries, lock, phase, undone, committed>>

LogData(t) ==
    /\ Putting(t, "data")
    /\ log' = [log EXCEPT ![Len(log)] = [addr |-> PutAddress(t), whole |-> TRUE,
                                         old |-> Contents[PutAddress(t)]]]
    /\ logEntries' = Append(logEntries, Len(log))
    /\ view' = [view EXCEPT ![t].stage = IF config.inFile THEN "file" ELSE "dram"]
    /\ UNCHANGED <<config, dataspace, lock, phase, undone, committed>>

WriteFile(t) ==
    /\ Putting(t, "file")
    /\ file' = [file EXCEPT ![PutAddress(t)] = PutContent(t)]
    /\ view' = [view EXCEPT ![t] = IF config.inDram THEN [@ EXCEPT !.stage = "dram"]
                                   ELSE [AfterPut(@) EXCEPT !.modified = TRUE]]
    /\ UNCHANGED <<config, dram, theLog, lock, phase, undone, committed>>

WriteDram(t) ==
    /\ Putting(t, "dram")
    /\ dram' = [dram EXCEPT ![PutAddress(t)] = PutContent(t)]
    /\ view' = [view EXCEPT ![t] = [AfterPut(@) EXCEPT !.modified = TRUE]]
    /\ UNCHANGED <<config, file, theLog, lock, phase, undone, committed>>

(***************************************************************************)
(* terminateXn, up to the choice of what remains to be done.  A task that  *)
(* cannot back out what it modified aborts, and the transaction stays.     *)
(***************************************************************************)
Terminate(t, canceled) ==
    LET aborts == canceled /\ ~config.reversible /\ view[t].modified
    IN  /\ xnDepth' = 0
        /\ xnCanceled' = FALSE
        /\ undone' = 0
        /\ phase' = CASE aborts -> "open"
                      [] ~canceled -> "commit"
                      [] canceled /\ config.reversible -> "reverse"
                      [] OTHER -> "clear"
        /\ owner' = IF aborts THEN None ELSE t
        /\ view' = [view EXCEPT ![t] = IF aborts THEN NoView ELSE @]
        /\ UNCHANGED locked

\* sdr_end_xn
EndXn(t) ==
    /\ Ready(t) /\ InTransaction(t)
    /\ \/ /\ xnDepth > 1
          /\ xnDepth' = xnDepth - 1
          /\ UNCHANGED <<locked, owner, xnCanceled, phase, undone, view>>
       \/ xnDepth = 1 /\ Terminate(t, xnCanceled)
    /\ UNCHANGED <<config, dataspace, theLog, committed>>

\* sdr_cancel_xn
CancelXn(t) ==
    /\ Ready(t) /\ InTransaction(t)
    /\ \/ /\ xnDepth > 1
          /\ xnDepth' = xnDepth - 1 /\ xnCanceled' = TRUE
          /\ UNCHANGED <<locked, owner, phase, undone, view>>
       \/ xnDepth = 1 /\ Terminate(t, TRUE)
    /\ UNCHANGED <<config, dataspace, theLog, committed>>

\* sdr_exit_xn, by which tasks leave transactions in which they only read.
ExitXn(t) ==
    /\ Ready(t) /\ InTransaction(t) /\ Contents = committed
    /\ IF xnDepth > 1
       THEN /\ xnDepth' = xnDepth - 1
            /\ UNCHANGED <<owner, phase, view>>
       ELSE /\ xnDepth' = 0
            /\ phase' = IF view[t].modified THEN "open" ELSE "clear"
            /\ owner' = IF view[t].modified THEN None ELSE t
            /\ view' = [view EXCEPT ![t] = IF @.modified THEN NoView ELSE @]
    /\ UNCHANGED <<config, dataspace, theLog, locked, xnCanceled, undone, committed>>

\* crashXn, by a call that is refused: no space, no such object, a failed check.
\* The functions that called it find that they are in no transaction any more.
CrashXn(t) ==
    /\ Ready(t) /\ InTransaction(t)
    /\ Terminate(t, TRUE)
    /\ UNCHANGED <<config, dataspace, theLog, committed>>

Terminating(t, phases) == view[t].attached /\ owner = t /\ phase \in phases

(***************************************************************************)
(* reverseTransaction: the entries of the list, from the last one.         *)
(***************************************************************************)
\* Faulty variant: from the first one.
ReverseEntryForward(t) ==
    /\ Terminating(t, {"reverse"}) /\ undone < Len(logEntries)
    /\ LET entry == log[logEntries[undone + 1]]
       IN  /\ file' = IF config.inFile THEN [file EXCEPT ![entry.addr] = entry.old]
                      ELSE file
           /\ dram' = IF config.inDram THEN [dram EXCEPT ![entry.addr] = entry.old]
                      ELSE dram
    /\ undone' = undone + 1
    /\ UNCHANGED <<config, theLog, lock, phase, view, committed>>

ReverseEntry(t) ==
    /\ Terminating(t, {"reverse"}) /\ undone < Len(logEntries)
    /\ LET entry == log[logEntries[Len(logEntries) - undone]]
       IN  /\ file' = IF config.inFile THEN [file EXCEPT ![entry.addr] = entry.old]
                      ELSE file
           /\ dram' = IF config.inDram THEN [dram EXCEPT ![entry.addr] = entry.old]
                      ELSE dram
    /\ undone' = undone + 1
    /\ UNCHANGED <<config, theLog, lock, phase, view, committed>>

ReverseEnds(t) ==
    /\ Terminating(t, {"reverse"}) /\ undone = Len(logEntries)
    /\ phase' = "clear" /\ undone' = 0
    /\ UNCHANGED <<config, dataspace, theLog, lock, view, committed>>

\* clearTransaction.  The transaction has ended when its log is truncated.
ClearTransaction(t) ==
    /\ Terminating(t, {"commit", "clear"})
    /\ log' = <<>> /\ logEntries' = <<>>
    /\ committed' = IF phase = "commit" THEN Contents ELSE committed
    /\ phase' = "unlock"
    /\ UNCHANGED <<config, dataspace, lock, undone, view>>

\* unlockSdr
UnlockSdr(t) ==
    /\ Terminating(t, {"unlock"})
    /\ owner' = None /\ locked' = FALSE /\ phase' = "open"
    /\ UNCHANGED <<config, dataspace, theLog, xnDepth, xnCanceled, undone, view, committed>>

(***************************************************************************)
(* The task in the transaction is killed, between any two of the steps     *)
(* above, or the system stops.  Killing one leaves the semaphore taken, so *)
(* that nothing can happen until the others are stopped as well.           *)
(***************************************************************************)
Running == \E t \in Tasks : view[t].attached

Kill ==
    /\ Running /\ locked
    /\ view' = [t \in Tasks |-> NoView]
    /\ UNCHANGED <<config, dataspace, theLog, lock, phase, undone, committed>>

\* The dataspace with some entries of the log reversed, the last one first.
Reversed(ds, entries) ==
    LET after[n \in 0..Len(entries)] ==
            IF n = 0 THEN ds
            ELSE LET entry == log[entries[Len(entries) - n + 1]]
                 IN  [after[n - 1] EXCEPT ![entry.addr] = entry.old]
    IN  after[Len(entries)]

\* Faulty variant: does not stop at the entry that was not written in full.
ReloadedEntriesAll ==
    IF config.reversible /\ config.logInFile THEN [i \in 1..Len(log) |-> i] ELSE <<>>

\* reloadLogEntries: the entries of the log file up to the first one that is not
\* complete.  The list of a log in memory went away with the SDR's old state.
WholeEntries == Max({n \in 0..Len(log) : \A i \in 1..n : log[i].whole})

ReloadedEntries ==
    IF config.reversible /\ config.logInFile THEN [i \in 1..WholeEntries |-> i] ELSE <<>>

NewState ==
    /\ locked' = FALSE /\ owner' = None /\ xnDepth' = 0 /\ xnCanceled' = FALSE
    /\ phase' = "open" /\ undone' = 0
    /\ logEntries' = ReloadedEntries
    /\ UNCHANGED <<config, log, view, committed>>

\* sdr_reload_profile, when the tasks have been stopped.  The file is
\* authoritative where there is one.
ReloadProfile ==
    /\ ~Running /\ locked
    /\ NewState
    /\ LET base == IF config.inFile THEN Reversed(file, ReloadedEntries) ELSE dram
       IN  /\ file' = IF config.inFile THEN base ELSE file
           /\ dram' = IF config.inDram THEN Reversed(base, ReloadedEntries) ELSE dram

\* The task that reloads is itself killed when it has reversed some of them.
ReloadInterrupted ==
    /\ ~Running /\ locked
    /\ \E n \in 1..(Len(ReloadedEntries) - 1) :
           LET some == SubSeq(ReloadedEntries, n + 1, Len(ReloadedEntries))
           IN  IF config.inFile
               THEN file' = Reversed(file, some) /\ dram' = dram
               ELSE dram' = Reversed(dram, some) /\ file' = file
    /\ UNCHANGED <<config, theLog, lock, phase, undone, view, committed>>

\* sdr_load_profile after a power cycle: memory is new.
Reboot ==
    /\ ~Running /\ locked /\ config \in Reboots
    /\ NewState
    /\ file' = IF config.inFile THEN Reversed(file, ReloadedEntries) ELSE file
    /\ dram' = Empty

\* Sdr_start_using by the tasks; the first one clears the log by the transaction
\* of ionAttach, which only reads.
Attach ==
    /\ ~Running /\ ~locked
    /\ view' = [t \in Tasks |-> NewView]
    /\ log' = <<>> /\ logEntries' = <<>>
    /\ UNCHANGED <<config, dataspace, lock, phase, undone, committed>>

Next ==
    \/ \E t \in Tasks :
          \/ BeginXn(t) \/ StartCall(t)
          \/ LogControl(t) \/ LogData(t) \/ WriteFile(t) \/ WriteDram(t)
          \/ EndXn(t) \/ CancelXn(t) \/ ExitXn(t) \/ CrashXn(t)
          \/ ReverseEntry(t) \/ ReverseEnds(t) \/ ClearTransaction(t) \/ UnlockSdr(t)
    \/ Kill \/ Attach \/ ReloadProfile \/ ReloadInterrupted \/ Reboot

Spec == Init /\ [][Next]_vars

(***************************************************************************)
(* Properties.                                                             *)
(***************************************************************************)
\* Whoever takes the lock finds the dataspace as the last transaction that ended
\* left it, in every copy: the canceled ones and those of killed tasks are undone.
UnlockedIsCommitted ==
    ~locked => /\ config.inFile => file = committed
               /\ config.inDram => dram = committed

\* At every instant, including in the middle of a reversal or of an interrupted
\* reload, the complete entries of the log lead from each copy of the dataspace
\* back to where the transaction began.
LogRestores ==
    config.reversible /\ config.logInFile =>
        /\ config.inFile => Reversed(file, ReloadedEntries) = committed
        /\ config.inDram => Reversed(dram, ReloadedEntries) = committed
=============================================================================
