---------------------------- MODULE ChatDelivery ----------------------------
(***************************************************************************)
(* ChatGateway with a history variable: who has belonged to the audience   *)
(* of a message's group at some time since the message was stored.         *)
(***************************************************************************)
EXTENDS ChatGateway

VARIABLE entitled

dvars == <<vars, entitled>>

\* The groups a message is in: by its row, or by the handler that is delivering it.
GroupsOf(m) == {g \in Groups : \/ \E i \in 1..Len(stored[g]) : stored[g][i] = m
                               \/ pc[m] \in {"readAudience", "deliver"} /\ task[m].grp = g}

DInit == Init /\ entitled = [m \in Tasks |-> {}]

Record == entitled' = [m \in Tasks |-> entitled[m] \cup UNION {Audience(g)' : g \in GroupsOf(m)'}]

DNext == Next /\ Record

DSpec == DInit /\ [][DNext]_dvars
-----------------------------------------------------------------------------
\* Whoever has left a group before a message was stored is not sent it live, however long the
\* socket has stayed in the room since: test chat.gateway.spec.ts:40, under any interleaving.
LiveToAudience ==
  [][\A t \in Tasks, s \in Sockets :
       pc[t] = "deliver" /\ pc'[t] = "done" /\ t \in shown'[s] \ shown[s] => UserOf[s] \in entitled[t]]_dvars
=============================================================================
