--------------------------- MODULE MCLtpSession ---------------------------
(***************************************************************************)
(* Small instances of LtpSession for TLC.                                  *)
(***************************************************************************)
EXTENDS LtpSession

OneSession  == {1}
TwoSessions == {1, 2}

\* Three red units: with SegLen = 2 and CkptLen = 1 a retransmission is cut
\* differently from the first transmission.
RedBlock == [s \in OneSession |-> [red |-> 3, total |-> 3]]

\* A block of three red units and a green one, and a block that is all green.
MixedThenGreen ==
    [s \in TwoSessions |-> IF s = 1 THEN [red |-> 3, total |-> 4]
                                    ELSE [red |-> 0, total |-> 1]]

=============================================================================
