---------------------------- MODULE MCSubmissions ----------------------------
(* Submissions with interchangeable requests. *)
EXTENDS Submissions, TLC

Interchangeable == Permutations(Requests)
=============================================================================
