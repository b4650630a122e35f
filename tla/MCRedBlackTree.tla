--------------------------- MODULE MCRedBlackTree ---------------------------
(* Ten keys: enough for a tree of black height three, whose deletions     *)
(* need every repair.                                                      *)
EXTENDS RedBlackTree
KeysDef == 1..10
=============================================================================
