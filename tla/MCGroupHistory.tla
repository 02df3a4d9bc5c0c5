---------------------------- MODULE MCGroupHistory ----------------------------
(* GroupHistory and the queries on small instances: one teacher owns every class. *)
EXTENDS GroupHistory, GroupQueries, TLC

CONSTANT Teacher

OneTeacher == [c \in Classes |-> Teacher]

\* Neither Init, Next nor a property singles out a request, a nickname, a student or a class.
Interchangeable == Permutations(Requests) \cup Permutations(Names)
                   \cup Permutations(Students) \cup Permutations(Classes)
=============================================================================
