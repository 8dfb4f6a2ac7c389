------------------------------ MODULE MCSessions ------------------------------
(* Small instances of Sessions for TLC.  No property of these runs is a      *)
(* liveness property, so the slots may be taken for interchangeable.         *)
EXTENDS Sessions, TLC

Interchangeable == Permutations(Requests)
=============================================================================
