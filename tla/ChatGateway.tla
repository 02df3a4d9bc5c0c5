----------------------------- MODULE ChatGateway -----------------------------
(***************************************************************************)
(* The chat gateway of src/src/chat: sockets join the room of their group, *)
(* send messages to it, and are put out of it when the group's audience    *)
(* changes or the group is deleted, while the group service changes the    *)
(* membership rows underneath.                                             *)
(*                                                                         *)
(* A handler's database calls are the points where other handlers run.     *)
(* Each is two moments: the query, which sees the tables as they are then, *)
(* and the continuation, which runs later with what the query saw.  The    *)
(* awaited room operations of Socket.IO's in-memory adapter (join, leave,  *)
(* fetchSockets) complete in the same turn of the event loop, so they are  *)
(* part of the continuation they occur in.                                 *)
(*                                                                         *)
(* A message is named after the handler that stores it.  The rate limit of *)
(* chat.send only refuses, so it is a send that does not happen here; the  *)
(* limit itself is the subject of AiAdvice.                               *)
(***************************************************************************)
EXTENDS Integers, Sequences

CONSTANTS
  Tasks,         \* the gateway handlers that run; each runs once
  Sockets,
  Users,
  UserOf,        \* whose access token each socket presented at its handshake
  Teacher,       \* the teacher of the class, who may enter every group's chat
  Groups,
  HistoryLimit,  \* CHAT_HISTORY_LIMIT
  None           \* client.data.groupId is undefined

ASSUME ChatAssumption ==
  /\ UserOf \in [Sockets -> Users]
  /\ Teacher \in Users
  /\ HistoryLimit \in Nat \ {0}
  /\ None \notin Groups \cup Sockets \cup Tasks

VARIABLES
  groups,     \* the rows of groups
  members,    \* the users in the group_members of each group
  stored,     \* chat_messages of each group, in the order of sentAt
  connected,  \* the sockets the server holds
  room,       \* the adapter's rooms
  current,    \* client.data.groupId
  shown,      \* what each client has been shown since it last entered a room
  awaiting,   \* the join whose history each client is still waiting for
  pc,         \* the next step of each handler
  task        \* the local variables of each handler

tables  == <<groups, members, stored>>
sockets == <<connected, room, current, shown, awaiting>>
vars    == <<tables, sockets, pc, task>>

Students == Users \ {Teacher}
Ended    == {"done", "failed"}
\* The steps of the two handlers of client events, before a send shares its end with a sync.
ClientSteps == {"joinEnter", "readHistory", "showHistory", "sendRead", "storeMessage", "readAudience"}
Steps    == {"idle", "deliver", "closeRoom", "removeGroup"} \cup ClientSteps \cup Ended

(* sock is the client (None for the room handlers the group service calls), grp the group id of
   the handler, audience and history what its last query returned. *)
TaskRecords == [sock : Sockets \cup {None}, grp : Groups,
                audience : SUBSET Users, history : SUBSET Tasks]
NewTask(s, g) == [sock |-> s, grp |-> g, audience |-> {}, history |-> {}]
NoTask == NewTask(None, None)

Init ==
  /\ groups = {}
  /\ members = [g \in Groups |-> {}]
  /\ stored = [g \in Groups |-> <<>>]
  /\ connected = Sockets
  /\ room = [g \in Groups |-> {}]
  /\ current = [s \in Sockets |-> None]
  /\ shown = [s \in Sockets |-> {}]
  /\ awaiting = [s \in Sockets |-> None]
  /\ pc = [t \in Tasks |-> "idle"]
  /\ task = [t \in Tasks |-> NoTask]

Goto(t, step, j) ==
  /\ pc' = [pc EXCEPT ![t] = step]
  /\ task' = [task EXCEPT ![t] = IF step \in Ended THEN NoTask ELSE j]

\* getChatAudienceUserIds: the teacher of the class and the members.
Audience(g) == {Teacher} \cup members[g]

\* The part of getChatParticipantInfo that decides: it rejects whoever is not in the audience.
MayEnter(u, g) == g \in groups /\ u \in Audience(g)

\* Mutant: the history is taken in ascending order.
Earliest(g) == {stored[g][i] : i \in {i \in 1..Len(stored[g]) : i <= HistoryLimit}}

\* getRecentMessages: the last HistoryLimit messages of a group.
Recent(g) == LET n == Len(stored[g])
             IN  {stored[g][i] : i \in {i \in 1..n : i > n - HistoryLimit}}

\* fetchSockets finds the room's sockets that are still connected.
Fetch(g) == room[g] \cap connected
-----------------------------------------------------------------------------
(* chat.join *)

\* The query of getChatParticipantInfo; before it, handleJoin looks at nothing that changes.
JoinRead(t, s, g) ==
  /\ pc[t] = "idle"
  /\ s \in connected
  /\ Goto(t, IF MayEnter(UserOf[s], g) THEN "joinEnter" ELSE "failed",
          NewTask(s, g))
  /\ UNCHANGED <<tables, sockets>>

\* Mutant: the room joined before is not left.
JoinEnterWithoutLeaving(t) ==
  LET s == task[t].sock
      g == task[t].grp
  IN  /\ pc[t] = "joinEnter"
      /\ room' = [room EXCEPT ![g] = @ \cup {s}]
      /\ current' = [current EXCEPT ![s] = g]
      /\ shown' = [shown EXCEPT ![s] = {}]
      /\ awaiting' = [awaiting EXCEPT ![s] = t]
      /\ Goto(t, "readHistory", task[t])
      /\ UNCHANGED <<tables, connected>>

\* Leaves the room joined before and enters; the client starts an empty view on chat.joined.
JoinEnter(t) ==
  LET s == task[t].sock
      g == task[t].grp
  IN  /\ pc[t] = "joinEnter"
      /\ room' = [h \in Groups |-> IF h = g THEN room[h] \cup {s}
                                   ELSE IF h = current[s] THEN room[h] \ {s} ELSE room[h]]
      /\ current' = [current EXCEPT ![s] = g]
      /\ shown' = [shown EXCEPT ![s] = {}]
      /\ awaiting' = [awaiting EXCEPT ![s] = t]
      /\ Goto(t, "readHistory", task[t])
      /\ UNCHANGED <<tables, connected>>

ReadHistory(t) ==
  /\ pc[t] = "readHistory"
  /\ Goto(t, "showHistory", [task[t] EXCEPT !.history = Recent(task[t].grp)])
  /\ UNCHANGED <<tables, sockets>>

\* Emits chat.history, to whatever room the client is in by now.
ShowHistory(t) ==
  LET s == task[t].sock
  IN  /\ pc[t] = "showHistory"
      /\ IF s \in connected
         THEN /\ shown' = [shown EXCEPT ![s] = @ \cup task[t].history]
              /\ awaiting' = [awaiting EXCEPT ![s] = IF @ = t THEN None ELSE @]
         ELSE UNCHANGED <<shown, awaiting>>
      /\ Goto(t, "done", task[t])
      /\ UNCHANGED <<tables, connected, room, current>>
-----------------------------------------------------------------------------
(* chat.send *)

\* Mutant: a send before any join is not refused.
BeginSendUnjoined(t, s) ==
  /\ pc[t] = "idle"
  /\ s \in connected
  /\ Goto(t, "sendRead", NewTask(s, current[s]))
  /\ UNCHANGED <<tables, sockets>>

\* The group id is read when the event arrives, before any query.
BeginSend(t, s) ==
  /\ pc[t] = "idle"
  /\ s \in connected
  /\ current[s] # None
  /\ Goto(t, "sendRead", NewTask(s, current[s]))
  /\ UNCHANGED <<tables, sockets>>

SendRead(t) ==
  /\ pc[t] = "sendRead"
  /\ Goto(t, IF MayEnter(UserOf[task[t].sock], task[t].grp) THEN "storeMessage" ELSE "failed", task[t])
  /\ UNCHANGED <<tables, sockets>>

\* The foreign key refuses a message of a group that is gone.
StoreMessage(t) ==
  LET g == task[t].grp
  IN  /\ pc[t] = "storeMessage"
      /\ stored' = IF g \in groups THEN [stored EXCEPT ![g] = Append(@, t)] ELSE stored
      /\ Goto(t, IF g \in groups THEN "readAudience" ELSE "failed", task[t])
      /\ UNCHANGED <<groups, members, sockets>>
-----------------------------------------------------------------------------
(* syncGroupAudience, at the end of an update of group g or as the first half of delivering. *)

SyncRead(t, g) ==
  /\ pc[t] = "idle"
  /\ Goto(t, IF g \in groups THEN "deliver" ELSE "failed",
          [NewTask(None, g) EXCEPT !.audience = Audience(g)])
  /\ UNCHANGED <<tables, sockets>>

ReadAudience(t) ==
  LET g == task[t].grp
  IN  /\ pc[t] = "readAudience"
      /\ Goto(t, IF g \in groups THEN "deliver" ELSE "failed", [task[t] EXCEPT !.audience = Audience(g)])
      /\ UNCHANGED <<tables, sockets>>

\* Sockets put leaves the room of g, and forget the group if it is still theirs.
PutOut(g, put) ==
  /\ room' = [room EXCEPT ![g] = @ \ put]
  /\ current' = [s \in Sockets |-> IF s \in put /\ current[s] = g THEN None ELSE current[s]]

\* Mutant: everybody in the room gets the message.
DeliverToRoom(t) ==
  LET g     == task[t].grp
      stale == {s \in Fetch(g) : UserOf[s] \notin task[t].audience}
  IN  /\ pc[t] = "deliver"
      /\ PutOut(g, stale)
      /\ shown' = [s \in Sockets |-> IF task[t].sock # None /\ s \in Fetch(g)
                                     THEN shown[s] \cup {t} ELSE shown[s]]
      /\ Goto(t, "done", task[t])
      /\ UNCHANGED <<tables, connected, awaiting>>

\* Puts out whoever the query did not return; a message goes to the others.
Deliver(t) ==
  LET g     == task[t].grp
      stale == {s \in Fetch(g) : UserOf[s] \notin task[t].audience}
  IN  /\ pc[t] = "deliver"
      /\ PutOut(g, stale)
      /\ shown' = [s \in Sockets |-> IF task[t].sock # None /\ s \in Fetch(g) \ stale
                                     THEN shown[s] \cup {t} ELSE shown[s]]
      /\ Goto(t, "done", task[t])
      /\ UNCHANGED <<tables, connected, awaiting>>
-----------------------------------------------------------------------------
(* deleteGroup: the room is closed before the row is removed. *)

BeginClose(t, g) ==
  /\ pc[t] = "idle"
  /\ g \in groups
  /\ Goto(t, "closeRoom", NewTask(None, g))
  /\ UNCHANGED <<tables, sockets>>

CloseRoom(t) ==
  /\ pc[t] = "closeRoom"
  /\ PutOut(task[t].grp, Fetch(task[t].grp))
  /\ Goto(t, "removeGroup", task[t])
  /\ UNCHANGED <<tables, connected, shown, awaiting>>

\* ON DELETE CASCADE takes the members and the messages.
RemoveGroup(t) ==
  LET g == task[t].grp
  IN  /\ pc[t] = "removeGroup"
      /\ groups' = groups \ {g}
      /\ members' = [members EXCEPT ![g] = {}]
      /\ stored' = [stored EXCEPT ![g] = <<>>]
      /\ Goto(t, "done", task[t])
      /\ UNCHANGED sockets
-----------------------------------------------------------------------------
(* The group service at work on the tables, and the network. *)

\* createGroup, or an update that inserts again the row a concurrent request deleted.
InsertGroup(g) ==
  /\ g \notin groups
  /\ groups' = groups \cup {g}
  /\ UNCHANGED <<members, stored, sockets, pc, task>>

\* A student may be in groups of several classes, so one more is no reason to leave another.
AddMember(u, g) ==
  /\ g \in groups
  /\ u \notin members[g]
  /\ members' = [members EXCEPT ![g] = @ \cup {u}]
  /\ UNCHANGED <<groups, stored, sockets, pc, task>>

RemoveMember(u, g) ==
  /\ u \in members[g]
  /\ members' = [members EXCEPT ![g] = @ \ {u}]
  /\ UNCHANGED <<groups, stored, sockets, pc, task>>

\* The adapter forgets the socket; its data object lives on in the handlers that hold it.
Disconnect(s) ==
  /\ s \in connected
  /\ connected' = connected \ {s}
  /\ room' = [g \in Groups |-> room[g] \ {s}]
  /\ UNCHANGED <<tables, current, shown, awaiting, pc, task>>

\* A query that fails ends the handler with chat.error (or the request, for a sync or a close).
Abort(t) ==
  /\ pc[t] \notin Ended \cup {"idle"}
  /\ Goto(t, "failed", NoTask)
  /\ UNCHANGED <<tables, sockets>>
-----------------------------------------------------------------------------
Step(t) ==
  \/ JoinEnter(t) \/ ReadHistory(t) \/ ShowHistory(t)
  \/ SendRead(t) \/ StoreMessage(t) \/ ReadAudience(t) \/ Deliver(t)
  \/ CloseRoom(t) \/ RemoveGroup(t)

Begin(t) ==
  \/ \E s \in Sockets, g \in Groups : JoinRead(t, s, g)
  \/ \E s \in Sockets : BeginSend(t, s)
  \/ \E g \in Groups : SyncRead(t, g) \/ BeginClose(t, g)

Environment ==
  \/ \E g \in Groups : InsertGroup(g) \/ \E u \in Students : AddMember(u, g) \/ RemoveMember(u, g)
  \/ \E s \in Sockets : Disconnect(s)

Next == Environment \/ \E t \in Tasks : Begin(t) \/ Step(t) \/ Abort(t)

Spec == Init /\ [][Next]_vars
-----------------------------------------------------------------------------
(* Properties *)

\* Every variable holds well-formed values, and a handler under way has well-formed locals.
TypeOK ==
  /\ groups \subseteq Groups
  /\ members \in [Groups -> SUBSET Students]
  /\ stored \in [Groups -> Seq(Tasks)]
  /\ connected \subseteq Sockets
  /\ room \in [Groups -> SUBSET Sockets]
  /\ current \in [Sockets -> Groups \cup {None}]
  /\ shown \in [Sockets -> SUBSET Tasks]
  /\ awaiting \in [Sockets -> Tasks \cup {None}]
  /\ pc \in [Tasks -> Steps]
  /\ task \in [Tasks -> TaskRecords \cup {NoTask}]
  /\ \A t \in Tasks : /\ pc[t] \notin Ended \cup {"idle"} => task[t] \in TaskRecords
                      /\ pc[t] \in ClientSteps => task[t].sock \in Sockets

\* A socket is in the room of its current group only: however its joins, evictions, closings and
\* its disconnection interleave, it never listens to a room that handleJoin forgot to leave.
RoomIsCurrent == \A s \in Sockets, g \in Groups : s \in room[g] => current[s] = g

\* Nobody in a room misses a message: a client that has got the history of the join by which it
\* entered, and is still in the room, has been shown every delivered message among the last
\* HistoryLimit.  History and live messages overlap rather than leave a gap between them.
NoGap ==
  \A g \in Groups : \A s \in Fetch(g) : awaiting[s] = None =>
    \A i \in 1..Len(stored[g]) :
      i > Len(stored[g]) - HistoryLimit /\ pc[stored[g][i]] = "done" => stored[g][i] \in shown[s]
=============================================================================
