---------------------------- MODULE LtpService ----------------------------
(***************************************************************************)
(* What LTP promises the clients at the two ends of a span (the notices of *)
(* ltpP.h and libltp.c), without segments, timers or links.                *)
(*                                                                         *)
(* Of each block the sending client learns one outcome.  The red part      *)
(* reaches the receiving client whole and at most once, never after the    *)
(* receiving client was told that the session is canceled, and before the  *)
(* sending client learns that the export is complete.                      *)
(***************************************************************************)
CONSTANTS
    Blocks,     \* the blocks that may be sent
    HasRedPart  \* HasRedPart[b]: whether anything of block b is reliable

VARIABLES
    outcome,    \* what the sending client knows of the block
    redPart     \* what the receiving client was told of its red part

serviceVars == <<outcome, redPart>>

ServiceInit ==
    /\ outcome = [b \in Blocks |-> "unsent"]
    /\ redPart = [b \in Blocks |-> "none"]

\* The block is handed to LTP.
Submit(b) ==
    /\ outcome[b] = "unsent"
    /\ outcome' = [outcome EXCEPT ![b] = "sent"]
    /\ UNCHANGED redPart

\* The receiving client gets the red part: LtpRecvRedPart.
Deliver(b) ==
    /\ HasRedPart[b]
    /\ outcome[b] \in {"sent", "canceled"}
    /\ redPart[b] = "none"
    /\ redPart' = [redPart EXCEPT ![b] = "delivered"]
    /\ UNCHANGED outcome

\* The receiving client is told that there will be no red part.
Abort(b) ==
    /\ outcome[b] # "unsent"
    /\ redPart[b] = "none"
    /\ redPart' = [redPart EXCEPT ![b] = "aborted"]
    /\ UNCHANGED outcome

\* LtpExportSessionComplete.
Complete(b) ==
    /\ outcome[b] = "sent"
    /\ HasRedPart[b] => redPart[b] = "delivered"
    /\ outcome' = [outcome EXCEPT ![b] = "complete"]
    /\ UNCHANGED redPart

\* LtpExportSessionCanceled, which says nothing about the red part.
CancelExport(b) ==
    /\ outcome[b] = "sent"
    /\ outcome' = [outcome EXCEPT ![b] = "canceled"]
    /\ UNCHANGED redPart

ServiceNext ==
    \E b \in Blocks :
        Submit(b) \/ Deliver(b) \/ Abort(b) \/ Complete(b) \/ CancelExport(b)

ServiceSpec == ServiceInit /\ [][ServiceNext]_serviceVars

=============================================================================
