------------------------------ MODULE MCSignup ------------------------------
(* SignupVerification with interchangeable requests. *)
EXTENDS SignupVerification, TLC

Interchangeable == Permutations(Requests)
=============================================================================
