-------------------------- MODULE MCLtpAggregation --------------------------
(***************************************************************************)
(* Three service data units and a window of one session: two red ones and  *)
(* a green one, of one or two clients.                                     *)
(***************************************************************************)
EXTENDS LtpAggregation

CONSTANTS r1, r2, g, c1, c2

MCSdus == {r1, r2, g}
MCLength == [s \in MCSdus |-> 1]
MCRedLength == [s \in MCSdus |-> IF s = g THEN 0 ELSE 1]
MCClientOf == [s \in MCSdus |-> IF s = r2 THEN c2 ELSE c1]
=============================================================================
