---------------------------- MODULE GroupHistory ----------------------------
(***************************************************************************)
(* GroupService with a history variable, for questions about whole         *)
(* requests that one state cannot answer.                                  *)
(***************************************************************************)
EXTENDS GroupService

VARIABLES
  shared,   \* the requests that were under way together with another one
  stranded  \* whom a request has taken out of a group, and who has been in no group since

hvars == <<vars, shared, stranded>>

Running == {r \in Requests : pc[r] \notin Ended \cup {"idle"}}

HInit == Init /\ shared = {} /\ stranded = {}

\* The participants that the release of this step takes out of their groups, each with its request.
Released ==
  {[part |-> m.part, by |-> r] :
     m \in members \ members', r \in {r \in Requests : pc[r] = "removeMoves" /\ pc'[r] # pc[r]}}

Record ==
  /\ shared' = IF \E q, r \in Running' : q # r THEN shared \cup Running' ELSE shared
  /\ stranded' = {x \in stranded \cup Released : \A m \in members' : m.part # x.part}

HNext == Next /\ Record

HSpec == HInit /\ [][HNext]_hvars
-----------------------------------------------------------------------------
\* Moving a student takes two transactions, and between them the student is in no group.  Whatever
\* other requests do in between, a request that is answered has left nobody there: everyone it
\* released has been in a group again since.  Only a request that fails, or has still to insert its
\* rows, may have a released student waiting.
NobodyStranded == \A x \in stranded : pc[x.by] # "done"

\* A create or update that no other request interfered with, and that succeeded, leaves exactly the
\* requested students in its group: what it moves, removes and adds in separate transactions adds up.
AloneIsExact ==
  [][\A r \in Requests :
       pc[r] \notin Ended /\ pc'[r] = "done" /\ r \notin shared /\ job[r].op # "delete" =>
         /\ {m.part : m \in {m \in members' : m.gid = job[r].gid}} = job[r].wanted
         /\ \E g \in groups' : g.gid = job[r].gid]_hvars
=============================================================================
