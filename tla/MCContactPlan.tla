--------------------------- MODULE MCContactPlan ----------------------------
(* Contacts between the local node and a neighbor, in both directions, and *)
(* ranges among three nodes, over a few instants.                          *)
EXTENDS ContactPlan
ContactPairsDef == {<<1, 2>>, <<2, 1>>}
RangePairsDef   == {<<1, 2>>, <<2, 1>>, <<3, 1>>}
=============================================================================
