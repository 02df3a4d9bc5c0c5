----------------------------- MODULE MCAiAdvice -----------------------------
(* AiAdvice for an analysis of a group: its users share one cache entry. *)
EXTENDS AiAdvice, TLC

CONSTANT Shared

OneKey == [u \in Users |-> Shared]

Interchangeable == Permutations(Requests) \cup Permutations(Users) \cup Permutations(Inputs)
=============================================================================
