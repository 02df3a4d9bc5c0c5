------------------------------ MODULE ChatEntry ------------------------------
(***************************************************************************)
(* ChatDelivery with one more history variable: which clients were let     *)
(* into a chat too late.                                                   *)
(***************************************************************************)
EXTENDS ChatDelivery

VARIABLE outsiders  \* the sockets that were in no chat and entered one their user had left by then

evars == <<dvars, outsiders>>

\* The joins that enter the room in this step.
Entering == {t \in Tasks : pc[t] = "joinEnter" /\ pc'[t] = "readHistory"}

EInit == DInit /\ outsiders = {}

RecordEntry ==
  LET late == {t \in Entering : /\ current[task[t].sock] = None
                                /\ ~MayEnter(UserOf[task[t].sock], task[t].grp)}
  IN  outsiders' = (outsiders \ {task[t].sock : t \in Entering}) \cup {task[t].sock : t \in late}

ENext == DNext /\ RecordEntry

ESpec == EInit /\ [][ENext]_evars
-----------------------------------------------------------------------------
\* group.service.ts:295: only the chat of a group one belongs to can be entered.  So a client that
\* entered when its user no longer belonged to the group is shown no message from after that: only
\* messages in whose group the user has been since they were stored.
ShownToAudience == \A s \in outsiders : \A m \in shown[s] : UserOf[s] \in entitled[m]
=============================================================================
