----------------------------- MODULE MCClassroom -----------------------------
(* Classroom on small instances: one class with one notice exists already. *)
EXTENDS Classroom

CONSTANTS Old, OldTeacher, OldCode, OldText

OneClass  == {[cid |-> Old, teacher |-> OldTeacher, code |-> OldCode]}
OneNotice == {[nid |-> Old, cls |-> Old, body |-> [col \in Columns |-> OldText]]}
=============================================================================
