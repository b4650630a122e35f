------------------------------- MODULE MCZco -------------------------------
(* A file of two bytes and heap objects of one byte.                       *)
EXTENDS Zco
MediumDef == [o \in Objects |-> IF o = 1 THEN "file" ELSE "heap"]
LengthDef == [o \in Objects |-> IF o = 1 THEN 2 ELSE 1]
RefSizeDef == [m \in Media |-> IF m = "file" THEN 500 ELSE 300]
Symmetric == Permutations(Accts)
DelimitsDef == {<<1, 1>>}
LimitDef == [a \in Accts |-> [m \in Media |-> IF m = "file" THEN 2 ELSE 9000]]
=============================================================================
