----------------------------- MODULE MCChatEntry -----------------------------
(* ChatEntry with one socket of the teacher and the others of one student each. *)
EXTENDS ChatEntry, TLC

CONSTANTS Desk   \* the teacher's socket

\* The other sockets are named after their users.
Handshakes == [s \in Sockets |-> IF s = Desk THEN Teacher ELSE s]

\* Neither the specification nor the property singles out a handler or a group.
Interchangeable == Permutations(Tasks) \cup Permutations(Groups)
=============================================================================
