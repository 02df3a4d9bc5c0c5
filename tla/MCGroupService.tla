---------------------------- MODULE MCGroupService ----------------------------
(* GroupService on small instances: one teacher owns every class. *)
EXTENDS GroupService

CONSTANT Teacher

OneTeacher == [c \in Classes |-> Teacher]
=============================================================================
