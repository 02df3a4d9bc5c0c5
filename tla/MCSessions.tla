------------------------------ MODULE MCSessions ------------------------------
(* Sessions with interchangeable requests. *)
EXTENDS Sessions, TLC

Interchangeable == Permutations(Requests)
=============================================================================
