----------------------------- MODULE MCZcoSpace -----------------------------
(* Three tasks under a limit of four units: a small request that does not  *)
(* wait, large ones that do or do not, and a small one that precedes them. *)
EXTENDS ZcoSpace
Request(need, coarse, waits) ==
    [need |-> need, coarse |-> coarse, fine |-> 0, waits |-> waits,
     serviced |-> FALSE]
RequestsDef == {Request(1, 0, FALSE), Request(3, 0, FALSE),
                Request(2, 0, TRUE), Request(1, 1, TRUE)}
Symmetric == Permutations(Tasks)
=============================================================================
