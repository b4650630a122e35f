---------------------------- MODULE MCLtpTimers -----------------------------
(* Signals of all kinds on one span; the cfg chooses among them.           *)
EXTENDS LtpTimers
KindDef == [s \in Signals |-> CASE s = "CP" -> "checkpoint"
                                [] s = "RS" -> "report"
                                [] s = "CS" -> "xmitCancel"
                                [] OTHER    -> "recvCancel"]
=============================================================================
