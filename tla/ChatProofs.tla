----------------------------- MODULE ChatProofs -----------------------------
(***************************************************************************)
(* Machine-checked proofs about ChatGateway and ChatDelivery, for any      *)
(* number of handlers, sockets, users and groups.                          *)
(***************************************************************************)
EXTENDS ChatDelivery, TLAPS

-----------------------------------------------------------------------------
(* Type correctness *)

ControlType ==
  /\ pc \in [Tasks -> Steps]
  /\ task \in [Tasks -> TaskRecords \cup {NoTask}]
  /\ \A t \in Tasks : /\ pc[t] \notin Ended \cup {"idle"} => task[t] \in TaskRecords
                      /\ pc[t] \in ClientSteps => task[t].sock \in Sockets

TablesType ==
  /\ groups \subseteq Groups
  /\ members \in [Groups -> SUBSET Students]
  /\ stored \in [Groups -> Seq(Tasks)]

SocketsType ==
  /\ connected \subseteq Sockets
  /\ room \in [Groups -> SUBSET Sockets]
  /\ current \in [Sockets -> Groups \cup {None}]
  /\ shown \in [Sockets -> SUBSET Tasks]
  /\ awaiting \in [Sockets -> Tasks \cup {None}]

\* The type invariant in three parts: the tables, the sockets and the handlers.
LEMMA TypeParts == TypeOK <=> TablesType /\ SocketsType /\ ControlType
  BY DEF TypeOK, TablesType, SocketsType, ControlType

\* Goto moves one handler and leaves every other as it was.
LEMMA GotoMovesOne ==
  ASSUME ControlType, NEW t \in Tasks, NEW step, NEW j, Goto(t, step, j)
  PROVE  /\ pc'[t] = step
         /\ task'[t] = IF step \in Ended THEN NoTask ELSE j
         /\ \A u \in Tasks : u # t => pc'[u] = pc[u] /\ task'[u] = task[u]
  BY DEF Goto, ControlType

\* A step to well-formed locals keeps the handlers well-formed.
LEMMA GotoType ==
  ASSUME ControlType, NEW t \in Tasks, NEW step \in Steps, NEW j, Goto(t, step, j),
         step \in Ended \/ j \in TaskRecords, step \in ClientSteps => j.sock \in Sockets
  PROVE  ControlType'
  BY DEF Goto, ControlType, ClientSteps, Ended

\* The users and messages a query returns fit into the locals of a handler.
LEMMA QueriesType ==
  ASSUME TablesType, NEW g \in Groups
  PROVE  Audience(g) \subseteq Users /\ Recent(g) \subseteq Tasks
  <1>1. Audience(g) \subseteq Users
    BY ChatAssumption DEF Audience, TablesType, Students
  <1>2. Recent(g) \subseteq Tasks
    <2>1. stored[g] \in Seq(Tasks)
      BY DEF TablesType
    <2> QED
      BY <2>1 DEF Recent
  <1> QED
    BY <1>1, <1>2

\* The initial state is well-formed.
LEMMA InitType == Init => TypeOK
  BY ChatAssumption DEF Init, TypeOK, Steps, ClientSteps, Ended, NewTask

\* What stays unchanged stays well-formed.
LEMMA UnchangedType ==
  /\ TablesType /\ UNCHANGED tables => TablesType'
  /\ SocketsType /\ UNCHANGED sockets => SocketsType'
  /\ ControlType /\ UNCHANGED <<pc, task>> => ControlType'
  BY DEF TablesType, SocketsType, ControlType, tables, sockets

\* Every step keeps tables, sockets and handlers well-formed.
LEMMA StepType == TypeOK /\ [Next]_vars => TypeOK'
  <1> SUFFICES ASSUME TablesType, SocketsType, ControlType, [Next]_vars
               PROVE  TablesType' /\ SocketsType' /\ ControlType'
    BY TypeParts DEF TypeOK, TablesType, SocketsType, ControlType
  <1> DEFINE Goal == TablesType' /\ SocketsType' /\ ControlType'
  <1> USE UnchangedType
  <1>1. ASSUME NEW t \in Tasks, NEW s \in Sockets, NEW g \in Groups, JoinRead(t, s, g) PROVE Goal
    <2>1. NewTask(s, g) \in TaskRecords
      BY DEF TaskRecords, NewTask
    <2>2. ControlType'
      BY <1>1, <2>1, GotoType DEF JoinRead, Steps, ClientSteps, Ended, NewTask
    <2> QED
      BY <1>1, <2>2 DEF JoinRead
  <1>2. ASSUME NEW t \in Tasks, NEW s \in Sockets, BeginSend(t, s) PROVE Goal
    <2>1. current[s] \in Groups
      BY <1>2 DEF BeginSend, SocketsType
    <2>2. NewTask(s, current[s]) \in TaskRecords
      BY <2>1 DEF TaskRecords, NewTask
    <2>3. ControlType'
      BY <1>2, <2>2, GotoType DEF BeginSend, Steps, ClientSteps, Ended, NewTask
    <2> QED
      BY <1>2, <2>3 DEF BeginSend
  <1>3. ASSUME NEW t \in Tasks, NEW g \in Groups, SyncRead(t, g) PROVE Goal
    <2>1. [NewTask(None, g) EXCEPT !.audience = Audience(g)] \in TaskRecords
      BY QueriesType DEF TaskRecords, NewTask
    <2>2. ControlType'
      BY <1>3, <2>1, GotoType DEF SyncRead, Steps, ClientSteps, Ended, NewTask
    <2> QED
      BY <1>3, <2>2 DEF SyncRead
  <1>4. ASSUME NEW t \in Tasks, NEW g \in Groups, BeginClose(t, g) PROVE Goal
    <2>1. NewTask(None, g) \in TaskRecords
      BY DEF TaskRecords, NewTask
    <2>2. ControlType'
      BY <1>4, <2>1, GotoType DEF BeginClose, Steps, ClientSteps, Ended, NewTask
    <2> QED
      BY <1>4, <2>2 DEF BeginClose
  <1>5. ASSUME NEW t \in Tasks, JoinEnter(t) PROVE Goal
    <2>1. task[t] \in TaskRecords /\ task[t].sock \in Sockets /\ task[t].grp \in Groups
      BY <1>5 DEF JoinEnter, ControlType, Ended, ClientSteps, TaskRecords
    <2>2. ControlType'
      BY <1>5, <2>1, GotoType DEF JoinEnter, Steps, ClientSteps, Ended, NewTask
    <2>3. SocketsType'
      BY <1>5, <2>1 DEF JoinEnter, SocketsType
    <2> QED
      BY <1>5, <2>2, <2>3 DEF JoinEnter
  <1>6. ASSUME NEW t \in Tasks, ReadHistory(t) PROVE Goal
    <2>1. task[t] \in TaskRecords /\ task[t].sock \in Sockets
      BY <1>6 DEF ReadHistory, ControlType, Ended, ClientSteps
    <2>2. Recent(task[t].grp) \subseteq Tasks
      BY <2>1, QueriesType DEF TaskRecords
    <2> DEFINE j == [task[t] EXCEPT !.history = Recent(task[t].grp)]
    <2>3. j \in TaskRecords /\ j.sock \in Sockets
      BY <2>1, <2>2 DEF TaskRecords
    <2>4. Goto(t, "showHistory", j)
      BY <1>6 DEF ReadHistory
    <2> HIDE DEF j
    <2>5. ControlType'
      BY <2>3, <2>4, GotoType DEF Steps, ClientSteps, Ended, NewTask
    <2> QED
      BY <1>6, <2>5 DEF ReadHistory
  <1>7. ASSUME NEW t \in Tasks, ShowHistory(t) PROVE Goal
    <2>1. task[t] \in TaskRecords /\ task[t].sock \in Sockets /\ task[t].history \subseteq Tasks
      BY <1>7 DEF ShowHistory, ControlType, Ended, ClientSteps, TaskRecords
    <2>2. ControlType'
      BY <1>7, <2>1, GotoType DEF ShowHistory, Steps, ClientSteps, Ended
    <2>3. SocketsType'
      BY <1>7, <2>1 DEF ShowHistory, SocketsType
    <2> QED
      BY <1>7, <2>2, <2>3 DEF ShowHistory
  <1>8. ASSUME NEW t \in Tasks, SendRead(t) PROVE Goal
    <2>1. task[t] \in TaskRecords /\ task[t].sock \in Sockets
      BY <1>8 DEF SendRead, ControlType, Ended, ClientSteps
    <2>2. ControlType'
      BY <1>8, <2>1, GotoType DEF SendRead, Steps, ClientSteps, Ended
    <2> QED
      BY <1>8, <2>2 DEF SendRead
  <1>9. ASSUME NEW t \in Tasks, StoreMessage(t) PROVE Goal
    <2>1. task[t] \in TaskRecords /\ task[t].sock \in Sockets /\ task[t].grp \in Groups
      BY <1>9 DEF StoreMessage, ControlType, Ended, ClientSteps, TaskRecords
    <2>2. ControlType'
      BY <1>9, <2>1, GotoType DEF StoreMessage, Steps, ClientSteps, Ended
    <2>3. \A seq \in Seq(Tasks) : Append(seq, t) \in Seq(Tasks)
      OBVIOUS
    <2>4. TablesType'
      BY <1>9, <2>1, <2>3 DEF StoreMessage, TablesType
    <2> QED
      BY <1>9, <2>2, <2>4 DEF StoreMessage
  <1>10. ASSUME NEW t \in Tasks, ReadAudience(t) PROVE Goal
    <2>1. task[t] \in TaskRecords /\ task[t].grp \in Groups
      BY <1>10 DEF ReadAudience, ControlType, Ended, ClientSteps, TaskRecords
    <2>2. Audience(task[t].grp) \subseteq Users
      BY <2>1, QueriesType
    <2> DEFINE j == [task[t] EXCEPT !.audience = Audience(task[t].grp)]
    <2>3. j \in TaskRecords
      BY <2>1, <2>2 DEF TaskRecords
    <2>4. Goto(t, IF task[t].grp \in groups THEN "deliver" ELSE "failed", j)
      BY <1>10 DEF ReadAudience
    <2> HIDE DEF j
    <2>5. ControlType'
      BY <2>3, <2>4, GotoType DEF Steps, ClientSteps, Ended
    <2> QED
      BY <1>10, <2>5 DEF ReadAudience
  <1>11. ASSUME NEW t \in Tasks, Deliver(t) PROVE Goal
    <2>1. task[t] \in TaskRecords /\ task[t].grp \in Groups
      BY <1>11 DEF Deliver, ControlType, Ended, TaskRecords
    <2>2. ControlType'
      BY <1>11, GotoType DEF Deliver, Steps, ClientSteps, Ended
    <2>3. SocketsType'
      BY <1>11, <2>1 DEF Deliver, PutOut, Fetch, SocketsType
    <2> QED
      BY <1>11, <2>2, <2>3 DEF Deliver
  <1>12. ASSUME NEW t \in Tasks, CloseRoom(t) PROVE Goal
    <2>1. task[t] \in TaskRecords /\ task[t].grp \in Groups
      BY <1>12 DEF CloseRoom, ControlType, Ended, TaskRecords
    <2>2. ControlType'
      BY <1>12, <2>1, GotoType DEF CloseRoom, Steps, ClientSteps, Ended
    <2>3. SocketsType'
      BY <1>12, <2>1 DEF CloseRoom, PutOut, Fetch, SocketsType
    <2> QED
      BY <1>12, <2>2, <2>3 DEF CloseRoom
  <1>13. ASSUME NEW t \in Tasks, RemoveGroup(t) PROVE Goal
    <2>1. ControlType'
      BY <1>13, GotoType DEF RemoveGroup, Steps, ClientSteps, Ended
    <2>2. TablesType'
      <3>1. <<>> \in Seq(Tasks)
        OBVIOUS
      <3> QED
        BY <1>13, <3>1 DEF RemoveGroup, TablesType
    <2> QED
      BY <1>13, <2>1, <2>2 DEF RemoveGroup
  <1>14. ASSUME NEW t \in Tasks, Abort(t) PROVE Goal
    <2>1. ControlType'
      BY <1>14, GotoType DEF Abort, Steps, ClientSteps, Ended
    <2> QED
      BY <1>14, <2>1 DEF Abort
  <1>15. ASSUME NEW g \in Groups, InsertGroup(g) PROVE Goal
    BY <1>15 DEF InsertGroup, TablesType
  <1>16. ASSUME NEW g \in Groups, NEW u \in Students, AddMember(u, g) \/ RemoveMember(u, g)
         PROVE  Goal
    BY <1>16 DEF AddMember, RemoveMember, TablesType
  <1>17. ASSUME NEW s \in Sockets, Disconnect(s) PROVE Goal
    BY <1>17 DEF Disconnect, SocketsType
  <1>18. ASSUME Environment PROVE Goal
    BY <1>15, <1>16, <1>17, <1>18 DEF Environment
  <1>19. ASSUME NEW t \in Tasks, Begin(t) PROVE Goal
    BY <1>1, <1>2, <1>3, <1>4, <1>19 DEF Begin
  <1>20. ASSUME NEW t \in Tasks, Step(t) PROVE Goal
    BY <1>5, <1>6, <1>7, <1>8, <1>9, <1>10, <1>11, <1>12, <1>13, <1>20 DEF Step
  <1>21. CASE UNCHANGED vars
    BY <1>21 DEF vars
  <1> QED
    BY <1>14, <1>18, <1>19, <1>20, <1>21 DEF Next

\* Every reachable state of the chat gateway is well-formed.
THEOREM ChatTypeCorrect == Spec => []TypeOK
  <1> QED
    BY InitType, StepType, PTL DEF Spec
-----------------------------------------------------------------------------
(* Rooms *)

\* Every step that changes rooms keeps each socket within the room of its current group.
LEMMA RoomStep == TypeOK /\ RoomIsCurrent /\ [Next]_vars => RoomIsCurrent'
  <1> SUFFICES ASSUME TypeOK, RoomIsCurrent, [Next]_vars
               PROVE  RoomIsCurrent'
    OBVIOUS
  <1>1. CASE UNCHANGED <<room, current>>
    BY <1>1 DEF RoomIsCurrent
  <1>2. ASSUME NEW t \in Tasks, JoinEnter(t) PROVE RoomIsCurrent'
    BY <1>2 DEF JoinEnter, RoomIsCurrent, TypeOK
  <1>3. ASSUME NEW g \in Groups, NEW put, PutOut(g, put) PROVE RoomIsCurrent'
    BY <1>3 DEF PutOut, RoomIsCurrent, TypeOK
  <1>4. ASSUME NEW t \in Tasks, Deliver(t) \/ CloseRoom(t) PROVE RoomIsCurrent'
    <2>1. task[t].grp \in Groups
      BY <1>4 DEF Deliver, CloseRoom, TypeOK, Ended, TaskRecords
    <2> QED
      BY <1>3, <1>4, <2>1 DEF Deliver, CloseRoom
  <1>5. ASSUME NEW s \in Sockets, Disconnect(s) PROVE RoomIsCurrent'
    BY <1>5 DEF Disconnect, RoomIsCurrent
  <1>6. ASSUME Environment PROVE RoomIsCurrent'
    BY <1>1, <1>5, <1>6 DEF Environment, InsertGroup, AddMember, RemoveMember, sockets
  <1>7. ASSUME NEW t \in Tasks, Begin(t) PROVE RoomIsCurrent'
    BY <1>1, <1>7 DEF Begin, JoinRead, BeginSend, SyncRead, BeginClose, sockets
  <1>8. ASSUME NEW t \in Tasks, Step(t) PROVE RoomIsCurrent'
    BY <1>1, <1>2, <1>4, <1>8
       DEF Step, ReadHistory, ShowHistory, SendRead, StoreMessage, ReadAudience, RemoveGroup, sockets
  <1>9. ASSUME NEW t \in Tasks, Abort(t) PROVE RoomIsCurrent'
    BY <1>1, <1>9 DEF Abort, sockets
  <1>10. CASE UNCHANGED vars
    BY <1>1, <1>10 DEF vars, sockets
  <1> QED
    BY <1>6, <1>7, <1>8, <1>9, <1>10 DEF Next

\* A socket listens to the room of its current group and to no other.
THEOREM OneRoom == Spec => []RoomIsCurrent
  <1>1. Init => RoomIsCurrent
    BY DEF Init, RoomIsCurrent
  <1> QED
    BY <1>1, ChatTypeCorrect, RoomStep, PTL DEF Spec
-----------------------------------------------------------------------------
(* No gap *)

\* The steps of a handler whose message is stored.
SentSteps == {"readAudience", "deliver"} \cup Ended

\* A message is stored by a send that has got past it, in the group it is sent to.
StoredBySends ==
  \A g \in Groups : \A i \in 1..Len(stored[g]) :
    LET m == stored[g][i]
    IN  /\ pc[m] \in SentSteps
        /\ pc[m] \notin Ended => task[m].grp = g /\ task[m].sock # None

\* A client that waits for a history is in no room but that of the join it waits for.
WaitsForItsJoin ==
  \A s \in Sockets : awaiting[s] # None =>
    LET t == awaiting[s]
    IN  /\ pc[t] \in {"readHistory", "showHistory"} \cup Ended
        /\ pc[t] = "done" => s \notin connected
        /\ pc[t] \notin Ended => task[t].sock = s /\ \A g \in Groups : s \in room[g] => task[t].grp = g

\* The messages a client in the room must know of.
Delivered(g) == {m \in Recent(g) : pc[m] = "done"}

\* What the client has been shown, or is about to be with the history that was read for it.
Covered(s) ==
  shown[s] \cup (IF awaiting[s] # None /\ pc[awaiting[s]] = "showHistory"
                 THEN task[awaiting[s]].history ELSE {})

\* A client that waits for its join to read the history, or whose join has failed, knows nothing yet.
Uninformed(s) == awaiting[s] # None /\ pc[awaiting[s]] # "showHistory"

CoveredInv == \A g \in Groups : \A s \in Fetch(g) : Uninformed(s) \/ Delivered(g) \subseteq Covered(s)

GapInv == StoredBySends /\ WaitsForItsJoin /\ CoveredInv

\* A step of a handler whose message may be stored, or of any other one.
LEMMA SentMoves ==
  ASSUME TypeOK, StoredBySends, NEW t \in Tasks, NEW step, NEW j, Goto(t, step, j), pc[t] \notin Ended,
         \A g \in Groups : stored'[g] = stored[g] \/ stored'[g] = <<>>,
         pc[t] \in SentSteps => /\ step \in SentSteps
                                /\ step \notin Ended => j.grp = task[t].grp /\ j.sock = task[t].sock
  PROVE  StoredBySends'
  <1> USE DEF SentSteps, Ended
  <1>1. ASSUME NEW g \in Groups, NEW i \in 1..Len(stored'[g])
        PROVE  LET m == stored'[g][i]
               IN  /\ pc'[m] \in SentSteps
                   /\ pc'[m] \notin Ended => task'[m].grp = g /\ task'[m].sock # None
    <2>1. stored'[g] = stored[g] /\ i \in 1..Len(stored[g])
      <3>1. stored'[g] # <<>>
        BY <1>1
      <3> QED
        BY <1>1, <3>1
    <2> DEFINE m == stored[g][i]
    <2>2. m \in Tasks
      BY <2>1 DEF TypeOK
    <2>3. pc[m] \in SentSteps /\ (pc[m] \notin Ended => task[m].grp = g /\ task[m].sock # None)
      BY <2>1 DEF StoredBySends
    <2> HIDE DEF m
    <2>4. pc'[m] \in SentSteps /\ (pc'[m] \notin Ended => task'[m].grp = g /\ task'[m].sock # None)
      <3>1. CASE m = t
        BY <2>2, <2>3, <3>1, GotoMovesOne, TypeParts
      <3>2. CASE m # t
        BY <2>2, <2>3, <3>2, GotoMovesOne, TypeParts
      <3> QED
        BY <3>1, <3>2
    <2> QED
      BY <2>1, <2>4 DEF m
  <1> QED
    BY <1>1 DEF StoredBySends

\* Messages are stored by sends only, in their group.
LEMMA StoredStep == TypeOK /\ StoredBySends /\ [Next]_vars => StoredBySends'
  <1> SUFFICES ASSUME TypeOK, StoredBySends, [Next]_vars PROVE StoredBySends'
    OBVIOUS
  <1> USE DEF SentSteps, Ended
  <1>1. CASE UNCHANGED <<stored, pc, task>>
    BY <1>1 DEF StoredBySends
  <1>2. CASE Environment
    BY <1>1, <1>2 DEF Environment, InsertGroup, AddMember, RemoveMember, Disconnect, tables
  <1>3. ASSUME NEW t \in Tasks, Begin(t) PROVE StoredBySends'
    <2>1. /\ UNCHANGED stored /\ pc[t] = "idle"
          /\ \E step, j : Goto(t, step, j)
      BY <1>3 DEF Begin, JoinRead, BeginSend, SyncRead, BeginClose, tables
    <2> QED
      BY <2>1, SentMoves
  <1>4. ASSUME NEW t \in Tasks, JoinEnter(t) \/ ReadHistory(t) \/ ShowHistory(t) \/ SendRead(t)
                                \/ CloseRoom(t)
        PROVE  StoredBySends'
    <2>1. /\ UNCHANGED stored /\ pc[t] \notin SentSteps
          /\ \E step, j : Goto(t, step, j)
      BY <1>4 DEF JoinEnter, ReadHistory, ShowHistory, SendRead, CloseRoom, tables
    <2> QED
      BY <2>1, SentMoves
  <1>5. ASSUME NEW t \in Tasks, RemoveGroup(t) PROVE StoredBySends'
    <2>1. \A g \in Groups : stored'[g] = stored[g] \/ stored'[g] = <<>>
      BY <1>5 DEF RemoveGroup, TypeOK
    <2> QED
      BY <1>5, <2>1, SentMoves DEF RemoveGroup
  <1>6. ASSUME NEW t \in Tasks, ReadAudience(t) PROVE StoredBySends'
    <2>1. task[t] \in TaskRecords
      BY <1>6 DEF ReadAudience, TypeOK
    <2>2. \A x : /\ [task[t] EXCEPT !.audience = x].grp = task[t].grp
                 /\ [task[t] EXCEPT !.audience = x].sock = task[t].sock
      BY <2>1 DEF TaskRecords
    <2> QED
      BY <1>6, <2>2, SentMoves DEF ReadAudience, tables
  <1>7. ASSUME NEW t \in Tasks, Deliver(t) \/ Abort(t) PROVE StoredBySends'
    <2>1. UNCHANGED stored /\ pc[t] \notin Ended /\ \E step \in Ended : \E j : Goto(t, step, j)
      BY <1>7 DEF Deliver, Abort, tables
    <2> QED
      BY <2>1, SentMoves
  <1>8. ASSUME NEW t \in Tasks, StoreMessage(t) PROVE StoredBySends'
    <2> DEFINE h == task[t].grp
    <2>1. h \in Groups /\ task[t].sock \in Sockets /\ task[t].sock # None
      BY <1>8, ChatAssumption DEF StoreMessage, TypeOK, TaskRecords, ClientSteps
    <2>2. CASE h \notin groups
      BY <1>8, <2>2, SentMoves DEF StoreMessage
    <2>3. CASE h \in groups
      <3>1. /\ stored' = [stored EXCEPT ![h] = Append(@, t)]
            /\ Goto(t, "readAudience", task[t])
            /\ pc[t] = "storeMessage"
        BY <1>8, <2>3 DEF StoreMessage
      <3>2. /\ pc'[t] = "readAudience" /\ task'[t] = task[t]
            /\ \A u \in Tasks : u # t => pc'[u] = pc[u] /\ task'[u] = task[u]
        BY <3>1, GotoMovesOne, TypeParts
      <3>3. ASSUME NEW g \in Groups, NEW i \in 1..Len(stored'[g])
            PROVE  LET m == stored'[g][i]
                   IN  /\ pc'[m] \in SentSteps
                       /\ pc'[m] \notin Ended => task'[m].grp = g /\ task'[m].sock # None
        <4>1. stored[g] \in Seq(Tasks)
          BY DEF TypeOK
        <4>2. CASE g = h /\ i = Len(stored[g]) + 1
          <5>1. stored'[g] = Append(stored[g], t)
            BY <2>1, <3>1, <4>2 DEF TypeOK
          <5>2. stored'[g][i] = t
            BY <4>1, <4>2, <5>1
          <5> QED
            BY <2>1, <3>2, <4>2, <5>2
        <4>3. CASE ~(g = h /\ i = Len(stored[g]) + 1)
          <5>1. i \in 1..Len(stored[g]) /\ stored'[g][i] = stored[g][i] /\ stored[g][i] \in Tasks
            <6>1. CASE g = h
              <7>1. stored'[g] = Append(stored[g], t)
                BY <2>1, <3>1, <6>1 DEF TypeOK
              <7> QED
                BY <3>3, <4>1, <4>3, <6>1, <7>1
            <6>2. CASE g # h
              <7>1. stored'[g] = stored[g]
                BY <3>1, <6>2 DEF TypeOK
              <7> QED
                BY <3>3, <4>1, <7>1
            <6> QED
              BY <6>1, <6>2
          <5>2. /\ pc[stored[g][i]] \in SentSteps
                /\ pc[stored[g][i]] \notin Ended => task[stored[g][i]].grp = g /\ task[stored[g][i]].sock # None
            BY <5>1 DEF StoredBySends
          <5>3. stored[g][i] # t
            BY <3>1, <5>2
          <5> QED
            BY <3>2, <5>1, <5>2, <5>3
        <4> QED
          BY <4>2, <4>3
      <3> QED
        BY <3>3 DEF StoredBySends
    <2> QED
      BY <2>2, <2>3
  <1>9. CASE UNCHANGED vars
    BY <1>1, <1>9 DEF vars, tables
  <1> QED
    BY <1>2, <1>3, <1>4, <1>5, <1>6, <1>7, <1>8, <1>9 DEF Next, Step

\* A step of a handler, when rooms are left but none is entered and nobody begins to wait.
LEMMA WaiterMoves ==
  ASSUME TypeOK, WaitsForItsJoin, NEW t \in Tasks, NEW step, NEW j, Goto(t, step, j), pc[t] \notin Ended,
         \A s \in Sockets : awaiting'[s] \in {awaiting[s], None},
         connected' \subseteq connected, \A g \in Groups : room'[g] \subseteq room[g],
         pc[t] \in {"readHistory", "showHistory"} =>
           /\ step \in {"readHistory", "showHistory"} \cup Ended
           /\ step \notin Ended => j.sock = task[t].sock /\ j.grp = task[t].grp
           /\ step = "done" => \A s \in Sockets : awaiting[s] = t => awaiting'[s] = None \/ s \notin connected'
  PROVE  WaitsForItsJoin'
  <1>1. ASSUME NEW s \in Sockets, awaiting'[s] # None
        PROVE  LET u == awaiting'[s]
               IN  /\ pc'[u] \in {"readHistory", "showHistory"} \cup Ended
                   /\ pc'[u] = "done" => s \notin connected'
                   /\ pc'[u] \notin Ended =>
                        task'[u].sock = s /\ \A g \in Groups : s \in room'[g] => task'[u].grp = g
    <2> DEFINE u == awaiting[s]
    <2>1. awaiting'[s] = u /\ u # None /\ u \in Tasks
      BY <1>1 DEF TypeOK
    <2>2. /\ pc[u] \in {"readHistory", "showHistory"} \cup Ended
          /\ pc[u] = "done" => s \notin connected
          /\ pc[u] \notin Ended => task[u].sock = s /\ \A g \in Groups : s \in room[g] => task[u].grp = g
      BY <2>1 DEF WaitsForItsJoin
    <2> HIDE DEF u
    <2>3. CASE u = t
      <3>1. pc'[t] = step /\ task'[t] = IF step \in Ended THEN NoTask ELSE j
        BY GotoMovesOne, TypeParts
      <3>2. step = "done" => s \notin connected'
        BY <1>1, <2>1, <2>2, <2>3 DEF u
      <3> QED
        BY <2>1, <2>2, <2>3, <3>1, <3>2
    <2>4. CASE u # t
      <3>1. pc'[u] = pc[u] /\ task'[u] = task[u]
        BY <2>1, <2>4, GotoMovesOne, TypeParts
      <3> QED
        BY <2>1, <2>2, <3>1
    <2> QED
      BY <2>3, <2>4
  <1> QED
    BY <1>1 DEF WaitsForItsJoin

\* Whoever waits waits for the join by which the room was entered.
LEMMA WaitsStep == TypeOK /\ RoomIsCurrent /\ WaitsForItsJoin /\ [Next]_vars => WaitsForItsJoin'
  <1> SUFFICES ASSUME TypeOK, RoomIsCurrent, WaitsForItsJoin, [Next]_vars PROVE WaitsForItsJoin'
    OBVIOUS
  <1>1. CASE UNCHANGED <<awaiting, pc, task, room>> /\ connected' \subseteq connected
    BY <1>1 DEF WaitsForItsJoin
  <1>2. CASE Environment
    <2>1. ASSUME NEW s \in Sockets, Disconnect(s) PROVE WaitsForItsJoin'
      BY <2>1 DEF Disconnect, WaitsForItsJoin
    <2> QED
      BY <1>1, <1>2, <2>1 DEF Environment, InsertGroup, AddMember, RemoveMember, sockets
  <1>3. ASSUME NEW t \in Tasks, Begin(t) PROVE WaitsForItsJoin'
    <2>1. /\ UNCHANGED sockets /\ pc[t] = "idle"
          /\ \E step, j : Goto(t, step, j)
      BY <1>3 DEF Begin, JoinRead, BeginSend, SyncRead, BeginClose
    <2> QED
      BY <2>1, WaiterMoves DEF sockets, Ended
  <1>4. ASSUME NEW t \in Tasks, SendRead(t) \/ StoreMessage(t) \/ ReadAudience(t) \/ RemoveGroup(t) \/ Abort(t)
        PROVE  WaitsForItsJoin'
    <2>1. /\ UNCHANGED sockets /\ pc[t] \notin Ended
          /\ \E step, j : Goto(t, step, j) /\ (pc[t] \in {"readHistory", "showHistory"} => step = "failed")
      BY <1>4 DEF SendRead, StoreMessage, ReadAudience, RemoveGroup, Abort, Ended
    <2> QED
      BY <2>1, WaiterMoves DEF sockets, Ended
  <1>5. ASSUME NEW t \in Tasks, Deliver(t) \/ CloseRoom(t) PROVE WaitsForItsJoin'
    <2>1. /\ UNCHANGED <<awaiting, connected>> /\ pc[t] \in {"deliver", "closeRoom"}
          /\ \E step, j : Goto(t, step, j)
      BY <1>5 DEF Deliver, CloseRoom
    <2>2. \A g \in Groups : room'[g] \subseteq room[g]
      BY <1>5 DEF Deliver, CloseRoom, PutOut, TypeOK
    <2> QED
      BY <2>1, <2>2, WaiterMoves DEF Ended
  <1>6. ASSUME NEW t \in Tasks, ReadHistory(t) PROVE WaitsForItsJoin'
    <2>1. task[t] \in TaskRecords
      BY <1>6 DEF ReadHistory, TypeOK, Ended
    <2>2. \A x : /\ [task[t] EXCEPT !.history = x].grp = task[t].grp
                 /\ [task[t] EXCEPT !.history = x].sock = task[t].sock
      BY <2>1 DEF TaskRecords
    <2> QED
      BY <1>6, <2>2, WaiterMoves DEF ReadHistory, sockets, Ended
  <1>7. ASSUME NEW t \in Tasks, ShowHistory(t) PROVE WaitsForItsJoin'
    <2>1. \A s \in Sockets : awaiting'[s] \in {awaiting[s], None}
      BY <1>7 DEF ShowHistory, TypeOK
    <2>2. ASSUME NEW s \in Sockets, awaiting[s] = t PROVE awaiting'[s] = None \/ s \notin connected'
      <3>1. t # None
        BY ChatAssumption
      <3>2. task[t].sock = s
        BY <1>7, <2>2, <3>1 DEF ShowHistory, WaitsForItsJoin, Ended
      <3> QED
        BY <1>7, <2>2, <3>2 DEF ShowHistory, TypeOK
    <2> QED
      BY <1>7, <2>1, <2>2, WaiterMoves DEF ShowHistory, Ended
  <1>8. ASSUME NEW t \in Tasks, JoinEnter(t) PROVE WaitsForItsJoin'
    <2> DEFINE s == task[t].sock
               g == task[t].grp
    <2>1. s \in Sockets /\ g \in Groups
      BY <1>8 DEF JoinEnter, TypeOK, Ended, TaskRecords, ClientSteps
    <2>2. /\ pc'[t] = "readHistory" /\ task'[t] = task[t]
          /\ \A u \in Tasks : u # t => pc'[u] = pc[u] /\ task'[u] = task[u]
      BY <1>8, GotoMovesOne, TypeParts DEF JoinEnter, Ended
    <2>3. awaiting'[s] = t /\ \A x \in Sockets : x # s => awaiting'[x] = awaiting[x]
      BY <1>8, <2>1 DEF JoinEnter, TypeOK
    <2>4. \A h \in Groups : room'[h] = IF h = g THEN room[h] \cup {s}
                                       ELSE IF h = current[s] THEN room[h] \ {s} ELSE room[h]
      BY <1>8 DEF JoinEnter
    <2>5. \A h \in Groups : s \in room'[h] => h = g
      BY <2>1, <2>4 DEF RoomIsCurrent
    <2>6. \A x \in Sockets, h \in Groups : x # s /\ x \in room'[h] => x \in room[h]
      BY <2>4
    <2>7. \A x \in Sockets : awaiting[x] # t
      <3>1. t # None /\ pc[t] = "joinEnter"
        BY <1>8, ChatAssumption DEF JoinEnter
      <3> QED
        BY <3>1 DEF WaitsForItsJoin, Ended
    <2>8. connected' = connected
      BY <1>8 DEF JoinEnter
    <2> HIDE DEF s, g
    <2>9. ASSUME NEW x \in Sockets, awaiting'[x] # None
          PROVE  LET u == awaiting'[x]
                 IN  /\ pc'[u] \in {"readHistory", "showHistory"} \cup Ended
                     /\ pc'[u] = "done" => x \notin connected'
                     /\ pc'[u] \notin Ended =>
                          task'[u].sock = x /\ \A h \in Groups : x \in room'[h] => task'[u].grp = h
      <3>1. CASE x = s
        BY <2>2, <2>3, <2>5, <3>1 DEF s, g
      <3>2. CASE x # s
        <4>1. awaiting'[x] = awaiting[x] /\ awaiting[x] \in Tasks /\ awaiting[x] # t
          BY <2>3, <2>7, <2>9, <3>2 DEF TypeOK
        <4>2. pc'[awaiting[x]] = pc[awaiting[x]] /\ task'[awaiting[x]] = task[awaiting[x]]
          BY <2>2, <4>1
        <4> QED
          BY <2>6, <2>8, <2>9, <3>2, <4>1, <4>2 DEF WaitsForItsJoin
      <3> QED
        BY <3>1, <3>2
    <2> QED
      BY <2>9 DEF WaitsForItsJoin
  <1>9. CASE UNCHANGED vars
    BY <1>1, <1>9 DEF vars, sockets
  <1> QED
    BY <1>2, <1>3, <1>4, <1>5, <1>6, <1>7, <1>8, <1>9 DEF Next, Step

\* A client that stays in a room knows what it has to, if it loses nothing and is shown what is new.
LEMMA StillCovered ==
  ASSUME TypeOK, CoveredInv, NEW g \in Groups, NEW s \in Fetch(g), NEW new,
         Delivered(g)' \subseteq Delivered(g) \cup new, new \subseteq shown'[s],
         shown[s] \subseteq shown'[s], awaiting'[s] = awaiting[s],
         awaiting[s] # None => /\ pc'[awaiting[s]] = pc[awaiting[s]]
                               /\ task'[awaiting[s]] = task[awaiting[s]]
  PROVE  Uninformed(s)' \/ Delivered(g)' \subseteq Covered(s)'
  BY DEF CoveredInv, Uninformed, Covered

\* The messages of a group that clients have to know of are those of before, and one delivered now.
LEMMA DeliveredMoves ==
  ASSUME TypeOK, StoredBySends, NEW g \in Groups, NEW t \in Tasks, NEW step, NEW j, Goto(t, step, j),
         stored'[g] = stored[g] \/ stored'[g] = <<>>
  PROVE  /\ Delivered(g)' \subseteq Delivered(g) \cup {t}
         /\ step # "done" \/ pc[t] \notin SentSteps => Delivered(g)' \subseteq Delivered(g)
         /\ t \in Delivered(g)' \ Delivered(g) /\ pc[t] \notin Ended => task[t].grp = g /\ task[t].sock # None
  <1>1. Recent(g)' \subseteq Recent(g)
    <2>1. CASE stored'[g] = stored[g]
      BY <2>1 DEF Recent
    <2>2. CASE stored'[g] = <<>>
      BY <2>2 DEF Recent
    <2> QED
      BY <2>1, <2>2
  <1>2. \A m \in Recent(g) :
          m \in Tasks /\ pc[m] \in SentSteps /\ (pc[m] \notin Ended => task[m].grp = g /\ task[m].sock # None)
    BY DEF Recent, StoredBySends, TypeOK
  <1>3. pc'[t] = step /\ \A m \in Tasks : m # t => pc'[m] = pc[m]
    BY GotoMovesOne, TypeParts
  <1> QED
    BY <1>1, <1>2, <1>3 DEF Delivered

\* A step of a handler that shows nothing and lets no client in.
LEMMA QuietStep ==
  ASSUME TypeOK, StoredBySends, WaitsForItsJoin, CoveredInv, NEW t \in Tasks, NEW step, NEW j,
         Goto(t, step, j), pc[t] \notin Ended, pc[t] \notin {"readHistory", "showHistory"} \/ step = "failed",
         step # "done" \/ pc[t] \notin SentSteps,
         \A g \in Groups : stored'[g] = stored[g] \/ stored'[g] = <<>>,
         \A g \in Groups : Fetch(g)' \subseteq Fetch(g), UNCHANGED <<shown, awaiting>>
  PROVE  CoveredInv'
  <1>1. ASSUME NEW g \in Groups, NEW s \in Fetch(g)' PROVE Uninformed(s)' \/ Delivered(g)' \subseteq Covered(s)'
    <2>1. s \in Fetch(g) /\ s \in Sockets
      BY <1>1 DEF Fetch, TypeOK
    <2>2. Delivered(g)' \subseteq Delivered(g)
      BY DeliveredMoves
    <2>3. pc'[t] = step /\ \A u \in Tasks : u # t => pc'[u] = pc[u] /\ task'[u] = task[u]
      BY GotoMovesOne, TypeParts
    <2>4. CASE awaiting[s] = t
      <3>1. awaiting[s] # None
        BY <2>4, ChatAssumption
      <3>2. pc[t] \in {"readHistory", "showHistory"}
        BY <2>1, <2>4, <3>1 DEF WaitsForItsJoin
      <3> QED
        BY <2>3, <2>4, <3>1, <3>2 DEF Uninformed
    <2>5. CASE awaiting[s] # t
      <3>1. awaiting[s] # None => pc'[awaiting[s]] = pc[awaiting[s]] /\ task'[awaiting[s]] = task[awaiting[s]]
        BY <2>1, <2>3, <2>5 DEF TypeOK
      <3> QED
        BY <2>1, <2>2, <3>1, StillCovered
    <2> QED
      BY <2>4, <2>5
  <1> QED
    BY <1>1 DEF CoveredInv

\* Whoever is in a room knows the messages that have been delivered to it.
LEMMA CoveredStep ==
  TypeOK /\ RoomIsCurrent /\ StoredBySends /\ WaitsForItsJoin /\ CoveredInv /\ [Next]_vars => CoveredInv'
  <1> SUFFICES ASSUME TypeOK, RoomIsCurrent, StoredBySends, WaitsForItsJoin, CoveredInv, [Next]_vars
               PROVE  CoveredInv'
    OBVIOUS
  <1>1. CASE /\ UNCHANGED <<stored, shown, awaiting, pc, task>>
             /\ \A g \in Groups : Fetch(g)' \subseteq Fetch(g)
    BY <1>1 DEF CoveredInv, Delivered, Recent, Covered, Uninformed
  <1>2. CASE Environment
    <2>1. ASSUME NEW s \in Sockets, Disconnect(s) PROVE CoveredInv'
      <3>1. \A g \in Groups : Fetch(g)' \subseteq Fetch(g)
        BY <2>1 DEF Disconnect, Fetch
      <3> QED
        BY <1>1, <2>1, <3>1 DEF Disconnect, tables
    <2>2. ASSUME NEW g \in Groups, InsertGroup(g) \/ \E u \in Students : AddMember(u, g) \/ RemoveMember(u, g)
          PROVE  CoveredInv'
      BY <1>1, <2>2 DEF InsertGroup, AddMember, RemoveMember, sockets, Fetch
    <2> QED
      BY <1>2, <2>1, <2>2 DEF Environment
  <1>3. ASSUME NEW t \in Tasks, Begin(t) PROVE CoveredInv'
    <2>1. /\ UNCHANGED <<tables, sockets>> /\ pc[t] = "idle"
          /\ \E step, j : Goto(t, step, j)
      BY <1>3 DEF Begin, JoinRead, BeginSend, SyncRead, BeginClose
    <2> QED
      BY <2>1, QuietStep DEF tables, sockets, Fetch, Ended, SentSteps
  <1>4. ASSUME NEW t \in Tasks, SendRead(t) \/ ReadAudience(t) \/ Abort(t)
        PROVE  CoveredInv'
    <2>1. /\ UNCHANGED <<tables, sockets>> /\ pc[t] \notin Ended
          /\ \E step, j : /\ Goto(t, step, j) /\ step # "done"
                          /\ pc[t] \in {"readHistory", "showHistory"} => step = "failed"
      BY <1>4 DEF SendRead, ReadAudience, Abort, Ended
    <2> QED
      BY <2>1, QuietStep DEF tables, sockets, Fetch
  <1>5. ASSUME NEW t \in Tasks, RemoveGroup(t) PROVE CoveredInv'
    <2>1. \A g \in Groups : stored'[g] = stored[g] \/ stored'[g] = <<>>
      BY <1>5 DEF RemoveGroup, TypeOK
    <2> QED
      BY <1>5, <2>1, QuietStep DEF RemoveGroup, sockets, Fetch, Ended, SentSteps
  <1>6. ASSUME NEW t \in Tasks, CloseRoom(t) PROVE CoveredInv'
    <2>1. \A g \in Groups : Fetch(g)' \subseteq Fetch(g)
      BY <1>6 DEF CloseRoom, PutOut, Fetch, TypeOK
    <2> QED
      BY <1>6, <2>1, QuietStep DEF CloseRoom, tables, Ended, SentSteps
  <1>7. ASSUME NEW t \in Tasks, StoreMessage(t) PROVE CoveredInv'
    <2> DEFINE h == task[t].grp
    <2>1. h \in Groups /\ UNCHANGED sockets
      BY <1>7 DEF StoreMessage, TypeOK, TaskRecords, Ended
    <2>2. CASE h \notin groups
      BY <1>7, <2>1, <2>2, QuietStep DEF StoreMessage, sockets, Fetch, Ended, SentSteps
    <2>3. CASE h \in groups
      <3>1. stored' = [stored EXCEPT ![h] = Append(@, t)] /\ Goto(t, "readAudience", task[t])
        BY <1>7, <2>3 DEF StoreMessage
      <3>2. /\ pc'[t] = "readAudience" /\ pc[t] = "storeMessage"
            /\ \A u \in Tasks : u # t => pc'[u] = pc[u] /\ task'[u] = task[u]
        BY <1>7, <3>1, GotoMovesOne, TypeParts DEF StoreMessage
      <3>3. ASSUME NEW g \in Groups PROVE Recent(g)' \subseteq Recent(g) \cup {t}
        <4>1. stored[g] \in Seq(Tasks) /\ HistoryLimit \in Nat
          BY ChatAssumption DEF TypeOK
        <4>2. CASE g = h
          <5>1. stored'[g] = Append(stored[g], t)
            BY <2>1, <3>1, <4>2 DEF TypeOK
          <5>2. ASSUME NEW i \in 1..Len(stored'[g]), i > Len(stored'[g]) - HistoryLimit
                PROVE  stored'[g][i] = t \/ (i \in 1..Len(stored[g]) /\ i > Len(stored[g]) - HistoryLimit
                                             /\ stored'[g][i] = stored[g][i])
            BY <4>1, <5>1, <5>2
          <5> QED
            BY <5>2 DEF Recent
        <4>3. CASE g # h
          BY <3>1, <4>3 DEF Recent, TypeOK
        <4> QED
          BY <4>2, <4>3
      <3>4. ASSUME NEW g \in Groups PROVE Delivered(g)' \subseteq Delivered(g)
        <4>1. Recent(g)' \subseteq Tasks /\ Recent(g) \subseteq Tasks
          BY <3>3, QueriesType, TypeParts
        <4> QED
          BY <3>2, <3>3, <4>1 DEF Delivered
      <3>5. ASSUME NEW g \in Groups, NEW s \in Fetch(g)'
            PROVE  Uninformed(s)' \/ Delivered(g)' \subseteq Covered(s)'
        <4>1. s \in Fetch(g) /\ s \in Sockets
          BY <2>1, <3>5 DEF Fetch, sockets, TypeOK
        <4>2. awaiting[s] # None => awaiting[s] \in Tasks /\ awaiting[s] # t
          BY <3>2, <4>1 DEF WaitsForItsJoin, TypeOK, Ended
        <4> QED
          BY <2>1, <3>2, <3>4, <4>1, <4>2, StillCovered DEF sockets
      <3> QED
        BY <3>5 DEF CoveredInv
    <2> QED
      BY <2>2, <2>3
  <1>8. ASSUME NEW t \in Tasks, Deliver(t) PROVE CoveredInv'
    <2> DEFINE h == task[t].grp
               stale == {s \in Fetch(h) : UserOf[s] \notin task[t].audience}
    <2>1. h \in Groups /\ pc[t] = "deliver" /\ stored' = stored
      BY <1>8 DEF Deliver, TypeOK, TaskRecords, Ended, tables
    <2>2. /\ Goto(t, "done", task[t]) /\ UNCHANGED <<connected, awaiting>>
          /\ room' = [room EXCEPT ![h] = @ \ stale]
          /\ \A s \in Sockets : shown'[s] = IF task[t].sock # None /\ s \in Fetch(h) \ stale
                                            THEN shown[s] \cup {t} ELSE shown[s]
      BY <1>8 DEF Deliver, PutOut
    <2> HIDE DEF h, stale
    <2>3. \A u \in Tasks : u # t => pc'[u] = pc[u] /\ task'[u] = task[u]
      BY <2>2, GotoMovesOne, TypeParts
    <2>4. ASSUME NEW g \in Groups, NEW s \in Fetch(g)'
          PROVE  Uninformed(s)' \/ Delivered(g)' \subseteq Covered(s)'
      <3>1. s \in Fetch(g) /\ s \in Sockets /\ (g = h => s \notin stale)
        BY <2>1, <2>2, <2>4 DEF Fetch, TypeOK
      <3>2. awaiting[s] # None => awaiting[s] \in Tasks /\ awaiting[s] # t
        BY <2>1, <3>1 DEF WaitsForItsJoin, TypeOK, Ended
      <3>3. Delivered(g)' \subseteq Delivered(g) \cup (Delivered(g)' \ Delivered(g))
        OBVIOUS
      <3>4. Delivered(g)' \ Delivered(g) \subseteq shown'[s]
        <4>1. /\ Delivered(g)' \subseteq Delivered(g) \cup {t}
              /\ t \in Delivered(g)' \ Delivered(g) => task[t].grp = g /\ task[t].sock # None
          BY <2>1, <2>2, DeliveredMoves DEF Ended
        <4> QED
          BY <2>2, <3>1, <4>1 DEF h
      <3>5. shown[s] \subseteq shown'[s]
        BY <2>2, <3>1
      <3> QED
        BY <2>2, <2>3, <3>1, <3>2, <3>3, <3>4, <3>5, StillCovered
    <2> QED
      BY <2>4 DEF CoveredInv
  <1>9. ASSUME NEW t \in Tasks, JoinEnter(t) PROVE CoveredInv'
    <2> DEFINE x == task[t].sock
               h == task[t].grp
    <2>1. x \in Sockets /\ h \in Groups
      BY <1>9 DEF JoinEnter, TypeOK, Ended, TaskRecords, ClientSteps
    <2>2. /\ Goto(t, "readHistory", task[t]) /\ pc[t] = "joinEnter" /\ UNCHANGED <<stored, connected>>
          /\ awaiting' = [awaiting EXCEPT ![x] = t] /\ shown' = [shown EXCEPT ![x] = {}]
          /\ \A g \in Groups, s \in Sockets : s # x /\ s \in room'[g] => s \in room[g]
      BY <1>9 DEF JoinEnter, tables
    <2>3. pc'[t] = "readHistory" /\ \A u \in Tasks : u # t => pc'[u] = pc[u] /\ task'[u] = task[u]
      BY <2>2, GotoMovesOne, TypeParts DEF Ended
    <2> HIDE DEF x, h
    <2>4. ASSUME NEW g \in Groups, NEW s \in Fetch(g)'
          PROVE  Uninformed(s)' \/ Delivered(g)' \subseteq Covered(s)'
      <3>1. s \in Sockets
        BY <2>2, <2>4 DEF Fetch, TypeOK
      <3>2. CASE s = x
        <4>1. awaiting'[s] = t /\ t # None
          BY <2>2, <3>1, <3>2, ChatAssumption DEF TypeOK
        <4> QED
          BY <2>3, <4>1 DEF Uninformed
      <3>3. CASE s # x
        <4>1. s \in Fetch(g) /\ awaiting'[s] = awaiting[s] /\ shown'[s] = shown[s]
          BY <2>2, <2>4, <3>1, <3>3 DEF Fetch, TypeOK
        <4>2. awaiting[s] # None => awaiting[s] \in Tasks /\ awaiting[s] # t
          <5>1. awaiting[s] # None => awaiting[s] \in Tasks
            BY <3>1 DEF TypeOK
          <5>2. awaiting[s] # None => pc[awaiting[s]] # "joinEnter"
            BY <3>1 DEF WaitsForItsJoin, Ended
          <5> QED
            BY <2>2, <5>1, <5>2
        <4>3. Delivered(g)' \subseteq Delivered(g)
          BY <2>2, DeliveredMoves
        <4> QED
          BY <2>3, <4>1, <4>2, <4>3, StillCovered
      <3> QED
        BY <3>2, <3>3
    <2> QED
      BY <2>4 DEF CoveredInv
  <1>10. ASSUME NEW t \in Tasks, ReadHistory(t) PROVE CoveredInv'
    <2> DEFINE j == [task[t] EXCEPT !.history = Recent(task[t].grp)]
    <2>1. Goto(t, "showHistory", j) /\ pc[t] = "readHistory" /\ UNCHANGED <<tables, sockets>>
      BY <1>10 DEF ReadHistory
    <2>2. task[t] \in TaskRecords
      BY <2>1 DEF TypeOK, Ended
    <2>3. /\ pc'[t] = "showHistory" /\ task'[t].history = Recent(task[t].grp)
          /\ \A u \in Tasks : u # t => pc'[u] = pc[u] /\ task'[u] = task[u]
      BY <2>1, <2>2, GotoMovesOne, TypeParts DEF Ended, TaskRecords
    <2>4. ASSUME NEW g \in Groups, NEW s \in Fetch(g)'
          PROVE  Uninformed(s)' \/ Delivered(g)' \subseteq Covered(s)'
      <3>1. s \in Fetch(g) /\ s \in Sockets /\ s \in room[g]
        BY <2>1, <2>4 DEF Fetch, sockets, TypeOK
      <3>2. CASE awaiting[s] = t
        <4>1. awaiting[s] # None
          BY <3>2, ChatAssumption
        <4>2. task[t].grp = g
          BY <2>1, <3>1, <3>2, <4>1 DEF WaitsForItsJoin, Ended
        <4>3. Delivered(g)' \subseteq Recent(g)
          BY <2>1 DEF Delivered, Recent, tables
        <4>4. awaiting'[s] = t /\ t # None
          BY <2>1, <3>2, <4>1 DEF sockets
        <4> QED
          BY <2>3, <4>2, <4>3, <4>4 DEF Covered
      <3>3. CASE awaiting[s] # t
        <4>1. awaiting[s] # None => awaiting[s] \in Tasks
          BY <3>1 DEF TypeOK
        <4>2. Delivered(g)' \subseteq Delivered(g)
          BY <2>1, DeliveredMoves DEF tables
        <4> QED
          BY <2>1, <2>3, <3>1, <3>3, <4>1, <4>2, StillCovered DEF sockets
      <3> QED
        BY <3>2, <3>3
    <2> QED
      BY <2>4 DEF CoveredInv
  <1>11. ASSUME NEW t \in Tasks, ShowHistory(t) PROVE CoveredInv'
    <2> DEFINE x == task[t].sock
    <2>1. /\ Goto(t, "done", task[t]) /\ pc[t] = "showHistory" /\ UNCHANGED <<tables, connected, room>>
          /\ x \in Sockets
      BY <1>11 DEF ShowHistory, TypeOK, ClientSteps
    <2>2. \A u \in Tasks : u # t => pc'[u] = pc[u] /\ task'[u] = task[u]
      BY <2>1, GotoMovesOne, TypeParts
    <2>3. x \in connected => /\ shown' = [shown EXCEPT ![x] = @ \cup task[t].history]
                             /\ awaiting' = [awaiting EXCEPT ![x] = IF @ = t THEN None ELSE @]
      BY <1>11 DEF ShowHistory
    <2>4. x \notin connected => UNCHANGED <<shown, awaiting>>
      BY <1>11 DEF ShowHistory
    <2>5. ASSUME NEW g \in Groups, NEW s \in Fetch(g)'
          PROVE  Uninformed(s)' \/ Delivered(g)' \subseteq Covered(s)'
      <3>1. s \in Fetch(g) /\ s \in Sockets /\ s \in connected
        BY <2>1, <2>5 DEF Fetch, TypeOK
      <3>2. Delivered(g)' \subseteq Delivered(g)
        BY <2>1, DeliveredMoves DEF tables, SentSteps, Ended
      <3>3. CASE awaiting[s] = t
        <4>1. t # None
          BY ChatAssumption
        <4>2. x = s
          BY <2>1, <3>1, <3>3, <4>1 DEF WaitsForItsJoin, Ended
        <4>3. awaiting'[s] = None /\ shown'[s] = shown[s] \cup task[t].history
          BY <2>3, <3>1, <3>3, <4>2 DEF TypeOK
        <4>4. ~Uninformed(s) /\ Covered(s) = shown[s] \cup task[t].history
          BY <2>1, <3>3, <4>1 DEF Uninformed, Covered
        <4>5. Covered(s)' = shown'[s]
          BY <4>3 DEF Covered
        <4> QED
          BY <3>1, <3>2, <4>3, <4>4, <4>5 DEF CoveredInv
      <3>4. CASE awaiting[s] # t
        <4> HIDE DEF x
        <4>1. awaiting'[s] = awaiting[s] /\ shown[s] \subseteq shown'[s]
          BY <2>1, <2>3, <2>4, <3>1, <3>4 DEF TypeOK
        <4>2. awaiting[s] # None => awaiting[s] \in Tasks
          BY <3>1 DEF TypeOK
        <4> QED
          BY <2>2, <3>1, <3>2, <3>4, <4>1, <4>2, StillCovered
      <3> QED
        BY <3>3, <3>4
    <2> QED
      BY <2>5 DEF CoveredInv
  <1>12. CASE UNCHANGED vars
    BY <1>1, <1>12 DEF vars, tables, sockets, Fetch
  <1> QED
    BY <1>2, <1>3, <1>4, <1>5, <1>6, <1>7, <1>8, <1>9, <1>10, <1>11, <1>12 DEF Next, Step

\* handleJoin and deliver: once a client has got the history of the join by which it entered the room,
\* it has seen whatever has been delivered there, whatever was stored, sent or read in between.
THEOREM NoMessageMissed == Spec => []NoGap
  <1>1. Init => GapInv
    <2> SUFFICES ASSUME Init PROVE GapInv
      OBVIOUS
    <2>1. \A g \in Groups : stored[g] = <<>>
      BY DEF Init
    <2> QED
      BY <2>1 DEF Init, GapInv, StoredBySends, WaitsForItsJoin, CoveredInv, Fetch
  <1>2. TypeOK /\ RoomIsCurrent /\ GapInv /\ [Next]_vars => GapInv'
    BY StoredStep, WaitsStep, CoveredStep DEF GapInv
  <1>3. GapInv => NoGap
    <2> SUFFICES ASSUME GapInv, NEW g \in Groups, NEW s \in Fetch(g), awaiting[s] = None,
                        NEW i \in 1..Len(stored[g]), i > Len(stored[g]) - HistoryLimit,
                        pc[stored[g][i]] = "done"
                 PROVE  stored[g][i] \in shown[s]
      BY DEF NoGap
    <2>1. stored[g][i] \in Delivered(g)
      BY DEF Delivered, Recent
    <2> QED
      BY <2>1 DEF GapInv, CoveredInv, Uninformed, Covered
  <1> QED
    BY <1>1, <1>2, <1>3, ChatTypeCorrect, OneRoom, PTL DEF Spec
-----------------------------------------------------------------------------
(* Live messages *)

\* What a delivering send has read as the audience has belonged to it since the message was stored.
AudienceEntitled ==
  \A t \in Tasks : pc[t] = "deliver" /\ task[t].sock # None => task[t].audience \subseteq entitled[t]

\* A handler comes to deliver by reading the audience, and stays there until it delivers or fails.
LEMMA ToDeliver ==
  ASSUME TypeOK, [Next]_vars, NEW t \in Tasks, pc'[t] = "deliver"
  PROVE  \/ pc[t] = "deliver" /\ task'[t] = task[t]
         \/ task'[t].sock = None
         \/ ReadAudience(t) /\ task[t].grp \in groups
  <1> USE TypeParts DEF Ended
  <1>1. ASSUME NEW u \in Tasks, NEW step, NEW j, Goto(u, step, j), u # t \/ step # "deliver"
        PROVE  pc[t] = "deliver" /\ task'[t] = task[t]
    BY <1>1, GotoMovesOne
  <1>2. ASSUME NEW u \in Tasks, NEW g \in Groups, SyncRead(u, g)
        PROVE  \/ pc[t] = "deliver" /\ task'[t] = task[t]
               \/ task'[t].sock = None
    <2>1. CASE u # t
      BY <1>1, <1>2, <2>1 DEF SyncRead
    <2>2. CASE u = t
      BY <1>2, <2>2, GotoMovesOne DEF SyncRead, NewTask
    <2> QED
      BY <2>1, <2>2
  <1>3. ASSUME NEW u \in Tasks, ReadAudience(u)
        PROVE  \/ pc[t] = "deliver" /\ task'[t] = task[t]
               \/ ReadAudience(t) /\ task[t].grp \in groups
    <2>1. CASE u # t
      BY <1>1, <1>3, <2>1 DEF ReadAudience
    <2>2. CASE u = t
      BY <1>3, <2>2, GotoMovesOne DEF ReadAudience
    <2> QED
      BY <2>1, <2>2
  <1>4. ASSUME NEW u \in Tasks, Begin(u)
        PROVE  \/ pc[t] = "deliver" /\ task'[t] = task[t]
               \/ task'[t].sock = None
    BY <1>1, <1>2, <1>4 DEF Begin, JoinRead, BeginSend, BeginClose
  <1>5. ASSUME NEW u \in Tasks, Step(u)
        PROVE  \/ pc[t] = "deliver" /\ task'[t] = task[t]
               \/ ReadAudience(t) /\ task[t].grp \in groups
    BY <1>1, <1>3, <1>5
       DEF Step, JoinEnter, ReadHistory, ShowHistory, SendRead, StoreMessage, Deliver, CloseRoom, RemoveGroup
  <1>6. ASSUME NEW u \in Tasks, Abort(u) PROVE pc[t] = "deliver" /\ task'[t] = task[t]
    BY <1>1, <1>6 DEF Abort
  <1>7. CASE Environment
    BY <1>7 DEF Environment, InsertGroup, AddMember, RemoveMember, Disconnect
  <1>8. CASE UNCHANGED vars
    BY <1>8 DEF vars
  <1> QED
    BY <1>4, <1>5, <1>6, <1>7, <1>8 DEF Next

\* Reading the audience makes those it returns entitled.
LEMMA EntitledStep ==
  ASSUME TypeOK, TypeOK', AudienceEntitled, [DNext]_dvars
  PROVE  AudienceEntitled'
  <1>1. CASE UNCHANGED dvars
    BY <1>1 DEF AudienceEntitled, dvars, vars
  <1>2. CASE DNext
    <2> SUFFICES ASSUME NEW t \in Tasks, pc'[t] = "deliver", task'[t].sock # None
                 PROVE  task'[t].audience \subseteq entitled'[t]
      BY DEF AudienceEntitled
    <2>1. entitled'[t] = entitled[t] \cup UNION {Audience(g)' : g \in GroupsOf(t)'}
      BY <1>2 DEF DNext, Record
    <2>2. CASE pc[t] = "deliver" /\ task'[t] = task[t]
      BY <2>1, <2>2 DEF AudienceEntitled
    <2>3. CASE ReadAudience(t) /\ task[t].grp \in groups
      <3>1. /\ task'[t] = [task[t] EXCEPT !.audience = Audience(task[t].grp)]
            /\ members' = members
        BY <2>3, TypeParts, GotoMovesOne DEF ReadAudience, tables, Ended
      <3>2. task[t] \in TaskRecords /\ task[t].grp \in Groups
        BY <2>3 DEF ReadAudience, TypeOK, Ended, ClientSteps, TaskRecords
      <3>3. task'[t].grp = task[t].grp /\ task'[t].audience = Audience(task[t].grp)
        BY <3>1, <3>2 DEF TaskRecords
      <3>4. task[t].grp \in GroupsOf(t)'
        BY <3>2, <3>3 DEF GroupsOf
      <3>5. Audience(task[t].grp)' = Audience(task[t].grp)
        BY <2>3, <3>1, <3>3 DEF Audience
      <3> QED
        BY <2>1, <3>3, <3>4, <3>5
    <2> QED
      BY <1>2, <2>2, <2>3, ToDeliver DEF DNext
  <1> QED
    BY <1>1, <1>2

\* Only a delivery takes a handler from deliver to done, and it shows its message to its audience.
LEMMA DeliveryShows ==
  ASSUME TypeOK, [Next]_vars, NEW t \in Tasks, NEW s \in Sockets,
         pc[t] = "deliver", pc'[t] = "done", t \in shown'[s] \ shown[s]
  PROVE  task[t].sock # None /\ UserOf[s] \in task[t].audience
  <1> USE TypeParts
  <1>1. CASE Deliver(t)
    BY <1>1 DEF Deliver, Fetch
  <1>2. ASSUME NEW u \in Tasks, NEW step, NEW j, Goto(u, step, j), u # t PROVE FALSE
    BY <1>2, GotoMovesOne
  <1>3. ASSUME NEW u \in Tasks, Begin(u) PROVE FALSE
    BY <1>2, <1>3 DEF Begin, JoinRead, BeginSend, SyncRead, BeginClose
  <1>4. ASSUME NEW u \in Tasks, Step(u), ~Deliver(t) PROVE FALSE
    BY <1>2, <1>4 DEF Step, JoinEnter, ReadHistory, ShowHistory, SendRead, StoreMessage, ReadAudience,
                      Deliver, CloseRoom, RemoveGroup
  <1>5. ASSUME NEW u \in Tasks, Abort(u) PROVE FALSE
    <2>1. Goto(u, "failed", NoTask)
      BY <1>5 DEF Abort
    <2> QED
      BY <2>1, GotoMovesOne
  <1>6. CASE Environment
    BY <1>6 DEF Environment, InsertGroup, AddMember, RemoveMember, Disconnect
  <1>7. CASE UNCHANGED vars
    BY <1>7 DEF vars
  <1> QED
    BY <1>1, <1>3, <1>4, <1>5, <1>6, <1>7 DEF Next

\* A live message reaches only users who have been in the group's audience since it was stored.
THEOREM LiveMessages == DSpec => LiveToAudience
  <1>1. DInit => TypeOK /\ AudienceEntitled
    BY InitType DEF DInit, Init, AudienceEntitled
  <1>2. TypeOK /\ AudienceEntitled /\ [DNext]_dvars => (TypeOK /\ AudienceEntitled)'
    BY StepType, EntitledStep DEF DNext, dvars
  <1>3. TypeOK /\ AudienceEntitled /\ [DNext]_dvars =>
          [\A t \in Tasks, s \in Sockets :
             pc[t] = "deliver" /\ pc'[t] = "done" /\ t \in shown'[s] \ shown[s] =>
               UserOf[s] \in entitled[t]]_dvars
    BY DeliveryShows DEF DNext, dvars, AudienceEntitled
  <1> QED
    BY <1>1, <1>2, <1>3, PTL DEF DSpec, LiveToAudience
=============================================================================
