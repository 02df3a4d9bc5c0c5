------------------------ MODULE GroupMembershipProofs ------------------------
(***************************************************************************)
(* Proofs about who is in which group: a group of the participant's own     *)
(* class, left only by a request that asks for it, and for another one when *)
(* that request is answered.                                                *)
(***************************************************************************)
EXTENDS GroupServiceProofs, GroupQueries, GroupHistory, FiniteSetTheorems

-----------------------------------------------------------------------------
(* Which steps change the membership rows *)

\* Rows are removed by three steps and added by one.
LEMMA MembersShrink ==
  ASSUME [Next]_vars
  PROVE  \/ members' = members
         \/ \E r \in Requests :
              RemoveMoves(r) \/ RemoveLeavers(r) \/ RemoveGroup(r) \/
              (AddMembers(r) /\ members \subseteq members')
  <1>1. ASSUME NEW r \in Requests, Begin(r) PROVE members' = members
    BY <1>1 DEF Begin, CreateGroup, UpdateGroup, DeleteGroup, tables
  <1>2. ASSUME NEW r \in Requests, Step(r)
        PROVE  \/ members' = members
               \/ RemoveMoves(r) \/ RemoveLeavers(r) \/ RemoveGroup(r)
               \/ AddMembers(r) /\ members \subseteq members'
    BY <1>2 DEF Step, FindParticipants, FindMembers, FindNicknames, DrawNickname, RefuseNickname,
       SaveNicknames, InsertGroup, FindMoves, AddMembers, SaveGroup, ReinsertGroup, tables
  <1>3. ASSUME NEW r \in Requests, Abort(r) PROVE members' = members
    BY <1>3 DEF Abort, tables
  <1> QED
    BY <1>1, <1>2, <1>3 DEF Next, JoinClass, vars, tables

\* Participants stay, and a group disappears only when a request removes it.
LEMMA ParticipantsAndGroupsStay ==
  ASSUME [Next]_vars
  PROVE  /\ participants \subseteq participants'
         /\ groups \subseteq groups' \/ \E r \in Requests : RemoveGroup(r)
  <1>1. ASSUME NEW r \in Requests, Begin(r) PROVE UNCHANGED tables
    BY <1>1 DEF Begin, CreateGroup, UpdateGroup, DeleteGroup
  <1>2. ASSUME NEW r \in Requests, Step(r)
        PROVE  /\ participants' = participants
               /\ groups \subseteq groups' \/ RemoveGroup(r)
    BY <1>2 DEF Step, FindParticipants, FindMembers, FindNicknames, DrawNickname, RefuseNickname,
       SaveNicknames, InsertGroup, FindMoves, RemoveMoves, RemoveLeavers, AddMembers, SaveGroup,
       ReinsertGroup, RemoveGroup, tables
  <1>3. ASSUME NEW r \in Requests, Abort(r) PROVE UNCHANGED tables
    BY <1>3 DEF Abort
  <1>4. ASSUME NEW c \in Classes, NEW s \in Students, JoinClass(c, s)
        PROVE  participants \subseteq participants' /\ groups' = groups
    BY <1>4 DEF JoinClass
  <1> QED
    BY <1>1, <1>2, <1>3, <1>4 DEF Next, vars, tables

-----------------------------------------------------------------------------
(* One group each *)

\* No two rows name the same participant: the unique key of the table, which the views rely on.
OneGroupEach == \A m, n \in members : m.part = n.part => m = n

\* However many requests move a participant, the rows never name one twice.
LEMMA OneGroup == Spec => []OneGroupEach
  <1>1. Init => OneGroupEach
    BY DEF Init, OneGroupEach
  <1>2. OneGroupEach /\ [Next]_vars => OneGroupEach'
    <2> SUFFICES ASSUME OneGroupEach, [Next]_vars PROVE OneGroupEach'
      OBVIOUS
    <2>1. ASSUME members' \subseteq members PROVE OneGroupEach'
      BY <2>1 DEF OneGroupEach
    <2>2. ASSUME NEW r \in Requests, AddMembers(r) PROVE OneGroupEach'
      <3> DEFINE rows == {[gid |-> job[r].gid, part |-> p, by |-> r] : p \in job[r].add}
      <3>1. \/ members' = members
            \/ members' = members \cup rows /\ \A m \in members : m.part \notin job[r].add
        BY <2>2 DEF AddMembers
      <3>2. \A m \in rows : m.part \in job[r].add
        OBVIOUS
      <3>3. \A m, n \in rows : m.part = n.part => m = n
        OBVIOUS
      <3> HIDE DEF rows
      <3> QED
        BY <3>1, <3>2, <3>3 DEF OneGroupEach
    <2>3. \/ members' \subseteq members
          \/ \E r \in Requests : AddMembers(r)
      BY MembersShrink DEF RemoveMoves, RemoveLeavers, RemoveGroup
    <2> QED
      BY <2>1, <2>2, <2>3
  <1> QED
    BY <1>1, <1>2, PTL DEF Spec

-----------------------------------------------------------------------------
(* What a request believes about the participants and rows it works on *)

\* Its participants are of its class; the rows to remove from its group are of its group and name
\* nobody it wants there; the rows to move are of other groups and name participants it wants.
RequestLists(step, j) ==
  /\ j.add \subseteq j.wanted
  /\ j.wanted \subseteq participants
  /\ \A p \in j.wanted : p.cls = j.cls
  /\ \A m \in j.leave : m.gid = j.gid /\ m.part \notin j.wanted
  /\ \A m \in j.move : m.gid # j.gid /\ m.part \in j.wanted
  /\ step = "findParticipants" => j.add = {} /\ j.leave = {} /\ j.move = {}

ListsInv == \A r \in Requests : RequestLists(pc[r], job[r])

\* A step of one request keeps every request's lists if it keeps its own.
LEMMA ListsMove ==
  ASSUME ControlType, ListsInv, NEW r \in Requests, NEW step, NEW j, Goto(r, step, j),
         participants' = participants, step \in Ended \/ RequestLists(step, j)
  PROVE  ListsInv'
  <1>1. ASSUME NEW q \in Requests, q # r PROVE RequestLists(pc[q], job[q])'
    BY <1>1, GotoMovesOne DEF ListsInv, RequestLists
  <1>2. RequestLists(pc[r], job[r])'
    BY GotoMovesOne DEF RequestLists, NoJob, NewJob, Ended
  <1> QED
    BY <1>1, <1>2 DEF ListsInv

\* The lists survive when each only shrinks and the request does not change its mind.
LEMMA ListsShrink ==
  ASSUME NEW old, NEW j, NEW before, NEW step, RequestLists(before, old),
         step # "findParticipants",
         j.gid = old.gid, j.cls = old.cls, j.wanted = old.wanted,
         j.add \subseteq old.add, j.leave \subseteq old.leave, j.move \subseteq old.move
  PROVE  RequestLists(step, j)
  BY DEF RequestLists

\* No step but the beginning of an update leads to its first read.
LEMMA NotFirstRead ==
  ASSUME NEW j
  PROVE  /\ AddStep(j) # "findParticipants"
         /\ LeaveStep(j) # "findParticipants"
         /\ MoveStep(j) # "findParticipants"
         /\ NamedStep(j) # "findParticipants"
         /\ NicknameStep(j) # "findParticipants"
  BY DEF AddStep, LeaveStep, MoveStep, NamedStep, NicknameStep

AfterInsert == {"findMoves", "removeMoves", "removeLeavers", "addMembers"}

\* The insert belongs to creates; the steps around an existing group belong to the other requests.
StepFits(step, op) ==
  /\ step = "insertGroup" => op = "create"
  /\ step \in {"findParticipants", "findMembers", "saveGroup", "reinsertGroup", "removeGroup"} =>
       op # "create"

\* Control flow respects StepFits, and a create that has inserted its group goes on from there.
LEMMA FitsNext ==
  ASSUME NEW j
  PROVE  /\ StepFits(AddStep(j), j.op)
         /\ StepFits(LeaveStep(j), j.op)
         /\ StepFits(MoveStep(j), j.op)
         /\ StepFits(NamedStep(j), j.op)
         /\ StepFits(NicknameStep(j), j.op)
         /\ j.op = "create" => {AddStep(j), LeaveStep(j), MoveStep(j)} \subseteq AfterInsert \cup Ended
  BY DEF StepFits, AddStep, LeaveStep, MoveStep, NamedStep, NicknameStep, AfterInsert, Ended

\* No step leads back to the beginning.
LEMMA NextNotIdle ==
  ASSUME NEW j
  PROVE  "idle" \notin {AddStep(j), LeaveStep(j), MoveStep(j), NamedStep(j), NicknameStep(j)}
  BY DEF AddStep, LeaveStep, MoveStep, NamedStep, NicknameStep

\* Where a step may lead a request that goes on with locals j.
Fits(r, step, j) ==
  /\ StepFits(step, j.op)
  /\ step # "idle"
  /\ j.op = "create" /\ pc[r] \in AfterInsert => step \in AfterInsert \cup Ended

\* The steps after the group and its members have been read keep what the request was asked for.
LaterSteps(r) ==
  \/ FindNicknames(r)
  \/ \E p \in Participants, n \in Names : DrawNickname(r, p, n)
  \/ RefuseNickname(r) \/ SaveNicknames(r) \/ InsertGroup(r) \/ RemoveMoves(r)
  \/ RemoveLeavers(r) \/ AddMembers(r) \/ SaveGroup(r) \/ ReinsertGroup(r) \/ RemoveGroup(r)

\* After its reads a request only shortens its lists, and keeps its group, class and wish.
LEMMA LaterStepsShrink ==
  ASSUME TypeOK, NEW r \in Requests, LaterSteps(r)
  PROVE  \E step, j : /\ Goto(r, step, j)
                      /\ step # "findParticipants"
                      /\ j.op = job[r].op /\ j.gid = job[r].gid /\ j.cls = job[r].cls
                      /\ j.wanted = job[r].wanted /\ j.add \subseteq job[r].add
                      /\ j.leave \subseteq job[r].leave /\ j.move \subseteq job[r].move
                      /\ StepFits(pc[r], job[r].op) => Fits(r, step, j)
  <1> DEFINE old == job[r]
             Same(j) == /\ j.op = old.op /\ j.gid = old.gid /\ j.cls = old.cls
                        /\ j.wanted = old.wanted /\ j.add \subseteq old.add
                        /\ j.leave \subseteq old.leave /\ j.move \subseteq old.move
             Ok(step, j) == StepFits(pc[r], old.op) => Fits(r, step, j)
             Goal == \E step, j : /\ Goto(r, step, j) /\ step # "findParticipants"
                                  /\ Same(j) /\ Ok(step, j)
  <1>a. old \in Jobs
    BY DEF LaterSteps, TypeOK, Ended, FindNicknames, DrawNickname, RefuseNickname, SaveNicknames,
           InsertGroup, RemoveMoves, RemoveLeavers, AddMembers, SaveGroup, ReinsertGroup, RemoveGroup
  <1>b. ASSUME NEW step, NEW j, Goto(r, step, j), step # "findParticipants", Same(j), Ok(step, j)
        PROVE  Goal
    BY <1>b
  <1> HIDE DEF Goal
  <1>1. ASSUME FindNicknames(r) PROVE Goal
    <2> DEFINE todo == old.add \ {n.part : n \in {n \in nicknames : n.cls = old.cls}}
               j == [old EXCEPT !.todo = todo, !.drawn = {}, !.tries = 0]
               step == IF j.todo = {} THEN NamedStep(j) ELSE "drawNickname"
    <2>1. Goto(r, step, j) /\ pc[r] = "findNicknames"
      BY <1>1 DEF FindNicknames
    <2>2. Same(j)
      <3> HIDE DEF todo
      <3> QED
        BY <1>a DEF Jobs
    <2> HIDE DEF j
    <2>3. step # "findParticipants" /\ Ok(step, j)
      BY <2>1, NotFirstRead, NextNotIdle, FitsNext DEF Fits, StepFits, AfterInsert
    <2> QED
      BY <2>1, <2>2, <2>3, <1>b
  <1>2. ASSUME NEW p \in Participants, NEW n \in Names, DrawNickname(r, p, n) PROVE Goal
    <2> DEFINE todo == old.todo \ {p}
               batch == old.drawn \cup {[part |-> p, name |-> n]}
               j == [old EXCEPT !.todo = todo, !.tries = 0, !.drawn = batch]
               step == IF j.todo = {} THEN "saveNicknames" ELSE "drawNickname"
    <2>1. Goto(r, step, j) /\ pc[r] = "drawNickname"
      BY <1>2 DEF DrawNickname
    <2>2. Same(j)
      <3> HIDE DEF todo, batch
      <3> QED
        BY <1>a DEF Jobs
    <2> HIDE DEF j
    <2>3. step # "findParticipants" /\ Ok(step, j)
      BY <2>1 DEF Fits, StepFits, AfterInsert
    <2> QED
      BY <2>1, <2>2, <2>3, <1>b
  <1>3. ASSUME RefuseNickname(r) PROVE Goal
    <2> DEFINE j == [old EXCEPT !.tries = @ + 1]
               step == IF j.tries = MaxAttempts THEN "failed" ELSE "drawNickname"
    <2>1. Goto(r, step, j) /\ pc[r] = "drawNickname"
      BY <1>3 DEF RefuseNickname
    <2>2. Same(j)
      BY <1>a DEF Jobs
    <2> HIDE DEF j
    <2>3. step # "findParticipants" /\ Ok(step, j)
      BY <2>1 DEF Fits, StepFits, AfterInsert
    <2> QED
      BY <2>1, <2>2, <2>3, <1>b
  <1>4. ASSUME SaveNicknames(r) PROVE Goal
    <2> DEFINE j == [old EXCEPT !.drawn = {}]
    <2>1. (Goto(r, "failed", j) \/ Goto(r, NamedStep(j), j)) /\ pc[r] = "saveNicknames"
      BY <1>4 DEF SaveNicknames
    <2>2. Same(j)
      BY <1>a DEF Jobs
    <2> HIDE DEF j
    <2>3. NamedStep(j) # "findParticipants" /\ Ok("failed", j) /\ Ok(NamedStep(j), j)
      BY <2>1, NotFirstRead, NextNotIdle, FitsNext DEF Fits, StepFits, AfterInsert
    <2> QED
      BY <2>1, <2>2, <2>3, <1>b
  <1>5. ASSUME InsertGroup(r) PROVE Goal
    <2>1. Goto(r, MoveStep(old), old) /\ Ok(MoveStep(old), old)
      BY <1>5, NextNotIdle, FitsNext DEF InsertGroup, Fits
    <2> QED
      BY <2>1, <1>b, NotFirstRead
  <1>6. ASSUME RemoveMoves(r) PROVE Goal
    <2> DEFINE j == [old EXCEPT !.move = {}]
    <2>1. Same(j) /\ j.leave = old.leave /\ j.add = old.add
      BY <1>a DEF Jobs
    <2>2. Goto(r, LeaveStep(old), j) /\ LeaveStep(old) = LeaveStep(j)
      BY <1>6, <2>1 DEF RemoveMoves, LeaveStep, AddStep
    <2> HIDE DEF j
    <2>3. Ok(LeaveStep(j), j)
      BY NextNotIdle, FitsNext DEF Fits
    <2> QED
      BY <2>1, <2>2, <2>3, <1>b, NotFirstRead
  <1>7. ASSUME RemoveLeavers(r) PROVE Goal
    <2> DEFINE j == [old EXCEPT !.leave = {}]
    <2>1. Same(j) /\ j.add = old.add
      BY <1>a DEF Jobs
    <2>2. Goto(r, AddStep(old), j) /\ AddStep(old) = AddStep(j)
      BY <1>7, <2>1 DEF RemoveLeavers, AddStep
    <2> HIDE DEF j
    <2>3. Ok(AddStep(j), j)
      BY NextNotIdle, FitsNext DEF Fits
    <2> QED
      BY <2>1, <2>2, <2>3, <1>b, NotFirstRead
  <1>8. ASSUME AddMembers(r) PROVE Goal
    <2> DEFINE j == [old EXCEPT !.add = {}]
    <2>1. \E step \in {"failed", "done", "saveGroup"} :
            Goto(r, step, j) /\ (step = "saveGroup" => old.op # "create")
      BY <1>8 DEF AddMembers
    <2>2. Same(j)
      BY <1>a DEF Jobs
    <2> HIDE DEF j
    <2>3. \A step \in {"failed", "done", "saveGroup"} :
            (step = "saveGroup" => old.op # "create") => Ok(step, j)
      BY <2>2 DEF Fits, StepFits, Ended
    <2> QED
      BY <2>1, <2>2, <2>3, <1>b
  <1>9. ASSUME SaveGroup(r) \/ ReinsertGroup(r) \/ RemoveGroup(r) PROVE Goal
    <2>1. PICK step \in {"done", "failed", "reinsertGroup"} :
            Goto(r, step, old) /\ (step = "reinsertGroup" => pc[r] = "saveGroup")
      BY <1>9 DEF SaveGroup, ReinsertGroup, RemoveGroup
    <2>2. Ok(step, old)
      BY <2>1 DEF Fits, StepFits, Ended, AfterInsert
    <2> QED
      BY <2>1, <2>2, <1>b
  <1> QED
    BY <1>1, <1>2, <1>3, <1>4, <1>5, <1>6, <1>7, <1>8, <1>9 DEF LaterSteps, Goal

\* Every step keeps each request's lists within what the request asked for.
LEMMA ListsStep == TypeOK /\ ListsInv /\ [Next]_vars => ListsInv'
  <1> SUFFICES ASSUME TypeOK, ListsInv, [Next]_vars PROVE ListsInv'
    OBVIOUS
  <1>a. ControlType
    BY DEF TypeOK, ControlType
  <1>1. ASSUME NEW c \in Classes, NEW s \in Students, JoinClass(c, s) PROVE ListsInv'
    BY <1>1 DEF JoinClass, ListsInv, RequestLists
  <1>2. ASSUME NEW r \in Requests, Begin(r) PROVE ListsInv'
    <2> PICK u \in Users : \/ \E c \in Classes, S \in SUBSET Students : CreateGroup(r, u, c, S)
                           \/ \E g \in groups : UpdateGroup(r, u, g) \/ DeleteGroup(r, u, g)
      BY <1>2 DEF Begin
    <2>1. ASSUME NEW op, NEW gid, NEW cls, NEW found, NEW step,
                 found \subseteq participants, \A p \in found : p.cls = cls,
                 step # "findParticipants" \/ found = {}
          PROVE  RequestLists(step, NewJob(op, gid, cls, found))
      BY <2>1 DEF RequestLists, NewJob
    <2>2. ASSUME NEW c \in Classes, NEW S \in SUBSET Students, CreateGroup(r, u, c, S)
          PROVE  ListsInv'
      <3> DEFINE found == ParticipantsOf(c, S)
                 j == NewJob("create", r, c, found)
      <3>1. found \subseteq participants /\ \A p \in found : p.cls = c
        BY DEF ParticipantsOf
      <3>2. \E step \in {NicknameStep(j), "failed"} : Goto(r, step, j)
        BY <2>2 DEF CreateGroup
      <3>3. \A step \in {NicknameStep(j), "failed"} : RequestLists(step, j)
        BY <2>1, <3>1, NotFirstRead
      <3> HIDE DEF j
      <3> QED
        BY <2>2, <3>2, <3>3, <1>a, ListsMove DEF CreateGroup, tables
    <2>3. ASSUME NEW g \in groups, UpdateGroup(r, u, g) \/ DeleteGroup(r, u, g)
          PROVE  ListsInv'
      <3>1. \E op, step : Goto(r, step, NewJob(op, g.gid, g.cls, {}))
        BY <2>3 DEF UpdateGroup, DeleteGroup
      <3>2. participants' = participants
        BY <2>3 DEF UpdateGroup, DeleteGroup, tables
      <3> QED
        BY <2>1, <3>1, <3>2, <1>a, ListsMove
    <2> QED
      BY <2>2, <2>3
  <1>3. ASSUME NEW r \in Requests, NEW S \in SUBSET Students, FindParticipants(r, S)
        PROVE  ListsInv'
    <2> DEFINE found == ParticipantsOf(job[r].cls, S)
               j == [job[r] EXCEPT !.wanted = found]
    <2>1. found \subseteq participants /\ \A p \in found : p.cls = job[r].cls
      BY DEF ParticipantsOf
    <2>2. RequestLists("findParticipants", job[r]) /\ job[r] \in Jobs
      BY <1>3 DEF FindParticipants, ListsInv, TypeOK, Ended
    <2>3. Goto(r, "findMembers", j) \/ Goto(r, "failed", j)
      BY <1>3 DEF FindParticipants
    <2>4. RequestLists("findMembers", j)
      <3> HIDE DEF found
      <3> QED
        BY <2>1, <2>2 DEF RequestLists, Jobs
    <2> HIDE DEF j
    <2> QED
      BY <1>3, <2>3, <2>4, <1>a, ListsMove DEF FindParticipants, tables, Ended
  <1>4. ASSUME NEW r \in Requests, FindMembers(r) PROVE ListsInv'
    <2> DEFINE old == job[r]
               current == {m \in members : m.gid = old.gid}
               add == old.wanted \ {m.part : m \in current}
               leave == {m \in current : m.part \notin old.wanted}
               j == [old EXCEPT !.add = add, !.leave = leave]
    <2>1. RequestLists(pc[r], old) /\ old \in Jobs
      BY <1>4 DEF FindMembers, ListsInv, TypeOK, Ended
    <2>2. Goto(r, NicknameStep(j), j)
      BY <1>4 DEF FindMembers
    <2>3. add \subseteq old.wanted /\ \A m \in leave : m.gid = old.gid /\ m.part \notin old.wanted
      OBVIOUS
    <2>4. \A step : step # "findParticipants" => RequestLists(step, j)
      <3> HIDE DEF add, leave
      <3> QED
        BY <2>1, <2>3 DEF RequestLists, Jobs
    <2> HIDE DEF j
    <2> QED
      BY <1>4, <2>2, <2>4, <1>a, ListsMove, NotFirstRead DEF FindMembers, tables
  <1>5. ASSUME NEW r \in Requests, FindMoves(r) PROVE ListsInv'
    <2> DEFINE old == job[r]
               move == {m \in members : m.part \in old.add /\ m.gid # old.gid}
               j == [old EXCEPT !.move = move]
    <2>1. RequestLists(pc[r], old) /\ old \in Jobs
      BY <1>5 DEF FindMoves, ListsInv, TypeOK, Ended
    <2>2. Goto(r, "removeMoves", j) \/ Goto(r, LeaveStep(j), j)
      BY <1>5 DEF FindMoves
    <2>3. \A m \in move : m.gid # old.gid /\ m.part \in old.add
      OBVIOUS
    <2>4. \A step : step # "findParticipants" => RequestLists(step, j)
      <3> HIDE DEF move
      <3> QED
        BY <2>1, <2>3 DEF RequestLists, Jobs
    <2> HIDE DEF j
    <2> QED
      BY <1>5, <2>2, <2>4, <1>a, ListsMove, NotFirstRead DEF FindMoves, tables
  <1>6. ASSUME NEW r \in Requests, LaterSteps(r) PROVE ListsInv'
    <2>1. participants' = participants
      BY <1>6 DEF LaterSteps, FindNicknames, DrawNickname, RefuseNickname, SaveNicknames,
         InsertGroup, RemoveMoves, RemoveLeavers, AddMembers, SaveGroup, ReinsertGroup, RemoveGroup,
         tables
    <2>2. RequestLists(pc[r], job[r])
      BY DEF ListsInv
    <2> QED
      BY <1>6, <2>1, <2>2, <1>a, LaterStepsShrink, ListsShrink, ListsMove
  <1>7. ASSUME NEW r \in Requests, Abort(r) PROVE ListsInv'
    BY <1>7, <1>a, ListsMove DEF Abort, tables, Ended
  <1>8. CASE UNCHANGED vars
    BY <1>8 DEF vars, tables, ListsInv, RequestLists
  <1> QED
    BY <1>1, <1>2, <1>3, <1>4, <1>5, <1>6, <1>7, <1>8 DEF Next, Step, LaterSteps

\* A request that has not begun has empty lists.
LEMMA ListsInit == Init => ListsInv
  <1>1. /\ NoJob.add = {} /\ NoJob.wanted = {} /\ NoJob.leave = {} /\ NoJob.move = {}
    BY DEF NoJob, NewJob
  <1> QED
    BY <1>1 DEF Init, ListsInv, RequestLists

-----------------------------------------------------------------------------
(* Nobody leaves a group unasked *)

\* Rows disappear in three steps only, and each removes what its request's lists allow.
THEOREM RemovalsOnlyAsked == Spec => RemovalsAsked
  <1> DEFINE Asked(m) ==
        \E r \in Requests :
          \/ pc[r] = "removeGroup" /\ job[r].gid = m.gid
          \/ pc[r] = "removeLeavers" /\ job[r].gid = m.gid /\ m.part \notin job[r].wanted
          \/ pc[r] = "removeMoves" /\ job[r].gid # m.gid /\ m.part \in job[r].wanted
  <1>1. TypeOK /\ ListsInv /\ [Next]_vars => [\A m \in members : m \notin members' => Asked(m)]_vars
    <2> SUFFICES ASSUME ListsInv, Next, NEW m \in members, m \notin members' PROVE Asked(m)
      BY DEF vars, tables
    <2>1. ASSUME NEW r \in Requests, RemoveMoves(r) PROVE Asked(m)
      BY <2>1 DEF RemoveMoves, ListsInv, RequestLists
    <2>2. ASSUME NEW r \in Requests, RemoveLeavers(r) PROVE Asked(m)
      BY <2>2 DEF RemoveLeavers, ListsInv, RequestLists
    <2>3. ASSUME NEW r \in Requests, RemoveGroup(r) PROVE Asked(m)
      BY <2>3 DEF RemoveGroup
    <2> HIDE DEF Asked
    <2> QED
      BY <2>1, <2>2, <2>3, MembersShrink
  <1> QED
    BY <1>1, TypeCorrect, ListsInit, ListsStep, PTL DEF Spec, RemovalsAsked
-----------------------------------------------------------------------------
(* Members belong to the class of their group *)

Underway(r) == pc[r] \notin Ended \cup {"idle"}

\* The group that request x creates exists, or has existed.
Born(x) == pc[x] \in Ended \/ (job[x].op = "create" /\ pc[x] \in AfterInsert)

\* A group never changes class: whoever works on it, or inserts it again after it was deleted,
\* has it in the same class as everybody else.
ClassInv ==
  /\ \A g \in groups : Born(g.gid)
  /\ \A r \in Requests : Underway(r) =>
       /\ IF job[r].op = "create" THEN job[r].gid = r ELSE Born(job[r].gid)
       /\ StepFits(pc[r], job[r].op)
       /\ \A g \in groups : g.gid = job[r].gid => g.cls = job[r].cls
       /\ \A q \in Requests : Underway(q) /\ job[q].gid = job[r].gid => job[q].cls = job[r].cls
  /\ \A g, h \in groups : g.gid = h.gid => g = h

\* A step of a running request that keeps its group, and adds no group, keeps the invariant.
LEMMA ClassMove ==
  ASSUME ControlType, ClassInv, NEW r \in Requests, NEW step, NEW j, Goto(r, step, j), Underway(r),
         groups \subseteq GroupRows, groups' \subseteq groups,
         \/ step \in Ended
         \/ /\ j.op = job[r].op /\ j.gid = job[r].gid /\ j.cls = job[r].cls
            /\ StepFits(step, j.op) /\ step # "idle"
            /\ j.op = "create" /\ pc[r] \in AfterInsert => step \in AfterInsert
  PROVE  ClassInv'
  <1>1. /\ pc'[r] = step
        /\ job'[r] = IF step \in Ended THEN NoJob ELSE j
        /\ \A q \in Requests : q # r => pc'[q] = pc[q] /\ job'[q] = job[q]
    BY GotoMovesOne
  <1>2. ASSUME NEW x \in Requests, Born(x) PROVE Born(x)'
    BY <1>1, <1>2 DEF Born, Underway
  <1>3. \A q \in Requests : Underway(q)' =>
          /\ Underway(q)
          /\ job'[q].op = job[q].op /\ job'[q].gid = job[q].gid /\ job'[q].cls = job[q].cls
          /\ StepFits(pc'[q], job[q].op)
    BY <1>1 DEF Underway, ClassInv
  <1>4. \A q \in Requests : Underway(q) => job[q].gid \in Requests
    BY DEF Underway, ControlType, Jobs
  <1>6. \A g \in groups' : Born(g.gid)'
    BY <1>2 DEF ClassInv, GroupRows
  <1>7. ASSUME NEW q \in Requests, Underway(q)'
        PROVE  /\ IF job'[q].op = "create" THEN job'[q].gid = q ELSE Born(job[q].gid)'
               /\ StepFits(pc'[q], job'[q].op)
               /\ \A g \in groups' : g.gid = job'[q].gid => g.cls = job'[q].cls
               /\ \A s \in Requests : Underway(s)' /\ job'[s].gid = job'[q].gid =>
                    job'[s].cls = job'[q].cls
    <2>1. job'[q].op = "create" => job'[q].gid = q
      BY <1>3, <1>7 DEF ClassInv
    <2>2. job'[q].op # "create" => Born(job[q].gid)'
      <3>1. job'[q].op # "create" => Born(job[q].gid) /\ job[q].gid \in Requests
        BY <1>3, <1>4, <1>7 DEF ClassInv
      <3>2. \A x \in Requests : Born(x) => Born(x)'
        BY <1>2
      <3>3. job'[q].gid = job[q].gid
        BY <1>3, <1>7
      <3> QED
        BY <3>1, <3>2, <3>3 DEF Born
    <2>3. StepFits(pc'[q], job'[q].op)
      BY <1>3, <1>7
    <2>4. \A g \in groups' : g.gid = job'[q].gid => g.cls = job'[q].cls
      BY <1>3, <1>7 DEF ClassInv
    <2>5. ASSUME NEW s \in Requests, Underway(s)', job'[s].gid = job'[q].gid
          PROVE  job'[s].cls = job'[q].cls
      BY <1>3, <1>7, <2>5 DEF ClassInv
    <2> QED
      BY <2>1, <2>2, <2>3, <2>4, <2>5
  <1>8. \A g, h \in groups' : g.gid = h.gid => g = h
    BY DEF ClassInv
  <1> QED
    BY <1>6, <1>7, <1>8 DEF ClassInv

\* No request runs and no group exists at first.
LEMMA ClassInit == Init => ClassInv
  BY DEF Init, ClassInv, Underway

\* Every step keeps rows, groups and running requests of one class together.
LEMMA ClassStep == TypeOK /\ ClassInv /\ [Next]_vars => ClassInv'
  <1> SUFFICES ASSUME TypeOK, ClassInv, [Next]_vars PROVE ClassInv'
    OBVIOUS
  <1>a. ControlType /\ groups \subseteq GroupRows
    BY DEF TypeOK, ControlType
  <1>1. ASSUME UNCHANGED <<groups, pc, job>> PROVE ClassInv'
    BY <1>1 DEF ClassInv, Underway, Born
  <1>2. ASSUME NEW r \in Requests, Begin(r) PROVE ClassInv'
    <2> PICK u \in Users : \/ \E c \in Classes, S \in SUBSET Students : CreateGroup(r, u, c, S)
                           \/ \E g \in groups : UpdateGroup(r, u, g) \/ DeleteGroup(r, u, g)
      BY <1>2 DEF Begin
    <2>1. pc[r] = "idle" /\ groups' = groups /\ ~Born(r)
      BY <1>2 DEF Begin, CreateGroup, UpdateGroup, DeleteGroup, tables, Born, Ended, AfterInsert
    <2>2. \A op, gid, cls, found : /\ NewJob(op, gid, cls, found).op = op
                                   /\ NewJob(op, gid, cls, found).gid = gid
                                   /\ NewJob(op, gid, cls, found).cls = cls
      BY DEF NewJob
    <2>3. PICK step, op, gid, cls, found :
            /\ Goto(r, step, NewJob(op, gid, cls, found))
            /\ step # "idle"
            /\ step \in Ended \/ StepFits(step, op)
            /\ \/ op = "create" /\ gid = r
               \/ op # "create" /\ [gid |-> gid, cls |-> cls] \in groups
      <3>1. ASSUME NEW c \in Classes, NEW S \in SUBSET Students, CreateGroup(r, u, c, S)
            PROVE  \E step : /\ Goto(r, step, NewJob("create", r, c, ParticipantsOf(c, S)))
                             /\ step # "idle"
                             /\ step \in Ended \/ StepFits(step, "create")
        <4> DEFINE j == NewJob("create", r, c, ParticipantsOf(c, S))
        <4>1. Goto(r, NicknameStep(j), j) \/ Goto(r, "failed", j)
          BY <3>1 DEF CreateGroup
        <4>2. StepFits(NicknameStep(j), "create") /\ NicknameStep(j) # "idle"
          BY <2>2, FitsNext, NextNotIdle
        <4> QED
          BY <4>1, <4>2 DEF Ended
      <3>2. ASSUME NEW g \in groups, UpdateGroup(r, u, g) \/ DeleteGroup(r, u, g)
            PROVE  \E step, op : /\ Goto(r, step, NewJob(op, g.gid, g.cls, {}))
                                 /\ step # "idle" /\ op # "create"
                                 /\ step \in Ended \/ StepFits(step, op)
        BY <3>2 DEF UpdateGroup, DeleteGroup, StepFits, Ended
      <3>3. \A g \in groups : [gid |-> g.gid, cls |-> g.cls] = g
        BY <1>a DEF GroupRows
      <3> QED
        BY <3>1, <3>2, <3>3
    <2> DEFINE j == NewJob(op, gid, cls, found)
    <2>4. /\ pc'[r] = step
          /\ job'[r] = IF step \in Ended THEN NoJob ELSE j
          /\ \A q \in Requests : q # r => pc'[q] = pc[q] /\ job'[q] = job[q]
      BY <2>3, <1>a, GotoMovesOne
    <2>5. ASSUME NEW x \in Requests, Born(x) PROVE Born(x)'
      BY <2>1, <2>4, <2>5 DEF Born
    <2>6. ASSUME Underway(r)' PROVE job'[r].op = op /\ job'[r].gid = gid /\ job'[r].cls = cls
                                   /\ StepFits(pc'[r], op)
      BY <2>2, <2>3, <2>4, <2>6 DEF Underway
    <2>7. ASSUME NEW q \in Requests, q # r, Underway(q) PROVE job[q].gid # r /\ job[q].gid \in Requests
      BY <2>1, <2>7, <1>a DEF ClassInv, Underway, ControlType, Jobs
    <2>8. op = "create" => \A g \in groups : g.gid # r
      BY <2>1 DEF ClassInv
    <2>9. op # "create" => gid \in Requests /\ Born(gid)
      BY <2>3, <1>a DEF ClassInv, GroupRows
    <2>10. \A g \in groups : g.gid = gid => g.cls = cls
      BY <2>3, <2>8 DEF ClassInv
    <2>11. ASSUME NEW q \in Requests, q # r, Underway(q), job[q].gid = gid PROVE job[q].cls = cls
      BY <2>3, <2>7, <2>11 DEF ClassInv
    <2>12. \A q \in Requests : q # r => (Underway(q)' <=> Underway(q))
      BY <2>4 DEF Underway
    <2> HIDE DEF j
    <2>13. \A g \in groups' : Born(g.gid)'
      BY <2>1, <2>5, <1>a DEF ClassInv, GroupRows
    <2>14. ASSUME NEW q \in Requests, Underway(q)'
           PROVE  /\ job'[q].op = "create" => job'[q].gid = q
                  /\ job'[q].op # "create" => job'[q].gid \in Requests /\ Born(job'[q].gid)
                  /\ StepFits(pc'[q], job'[q].op)
                  /\ \A g \in groups' : g.gid = job'[q].gid => g.cls = job'[q].cls
      BY <2>1, <2>3, <2>4, <2>6, <2>7, <2>9, <2>10, <2>12, <2>14 DEF ClassInv
    <2>15. ASSUME NEW q \in Requests, NEW s \in Requests, Underway(q)', Underway(s)',
                  job'[s].gid = job'[q].gid
           PROVE  job'[s].cls = job'[q].cls
      BY <2>4, <2>6, <2>11, <2>12, <2>15 DEF ClassInv
    <2>16. \A q \in Requests : Underway(q)' /\ job'[q].op # "create" => Born(job[q].gid)'
      BY <2>5, <2>14 DEF Born
    <2> QED
      BY <2>1, <2>13, <2>14, <2>15, <2>16 DEF ClassInv
  <1>3. ASSUME NEW r \in Requests, NEW S \in SUBSET Students, FindParticipants(r, S)
        PROVE  ClassInv'
    <2> DEFINE found == ParticipantsOf(job[r].cls, S)
               j == [job[r] EXCEPT !.wanted = found]
    <2>1. /\ job[r] \in Jobs /\ Underway(r) /\ groups' = groups
          /\ pc[r] = "findParticipants" /\ job[r].op # "create"
          /\ Goto(r, "findMembers", j) \/ Goto(r, "failed", j)
      BY <1>3 DEF FindParticipants, TypeOK, Ended, Underway, tables, ClassInv, StepFits
    <2>2. j.op = job[r].op /\ j.gid = job[r].gid /\ j.cls = job[r].cls
      <3> HIDE DEF found
      <3> QED
        BY <2>1 DEF Jobs
    <2>3. StepFits("findMembers", j.op)
      BY <2>1, <2>2 DEF StepFits
    <2> HIDE DEF j
    <2> QED
      BY <2>1, <2>2, <2>3, <1>a, ClassMove DEF Ended
  <1>4. ASSUME NEW r \in Requests, FindMembers(r) PROVE ClassInv'
    <2> DEFINE old == job[r]
               current == {m \in members : m.gid = old.gid}
               add == old.wanted \ {m.part : m \in current}
               leave == {m \in current : m.part \notin old.wanted}
               j == [old EXCEPT !.add = add, !.leave = leave]
    <2>1. /\ old \in Jobs /\ Underway(r) /\ groups' = groups
          /\ pc[r] = "findMembers" /\ old.op # "create"
          /\ Goto(r, NicknameStep(j), j)
      BY <1>4 DEF FindMembers, TypeOK, Ended, Underway, tables, ClassInv, StepFits
    <2>2. j.op = old.op /\ j.gid = old.gid /\ j.cls = old.cls
      <3> HIDE DEF add, leave
      <3> QED
        BY <2>1 DEF Jobs
    <2> HIDE DEF j
    <2>3. StepFits(NicknameStep(j), j.op) /\ NicknameStep(j) # "idle"
      BY FitsNext, NextNotIdle
    <2> QED
      BY <2>1, <2>2, <2>3, <1>a, ClassMove
  <1>5. ASSUME NEW r \in Requests, FindMoves(r) PROVE ClassInv'
    <2> DEFINE old == job[r]
               move == {m \in members : m.part \in old.add /\ m.gid # old.gid}
               j == [old EXCEPT !.move = move]
    <2>1. /\ old \in Jobs /\ Underway(r) /\ groups' = groups
          /\ Goto(r, "removeMoves", j) \/ Goto(r, LeaveStep(j), j)
      BY <1>5 DEF FindMoves, TypeOK, Ended, Underway, tables
    <2>2. j.op = old.op /\ j.gid = old.gid /\ j.cls = old.cls
      <3> HIDE DEF move
      <3> QED
        BY <2>1 DEF Jobs
    <2> HIDE DEF j
    <2>3. /\ StepFits("removeMoves", j.op) /\ StepFits(LeaveStep(j), j.op)
          /\ LeaveStep(j) # "idle"
          /\ j.op = "create" => LeaveStep(j) \in AfterInsert \cup Ended
          /\ "removeMoves" \in AfterInsert
      BY FitsNext, NextNotIdle DEF StepFits, AfterInsert
    <2> QED
      BY <2>1, <2>2, <2>3, <1>a, ClassMove
  <1>6. ASSUME NEW r \in Requests, LaterSteps(r), groups' \subseteq groups PROVE ClassInv'
    <2>1. Underway(r)
      BY <1>6 DEF LaterSteps, FindNicknames, DrawNickname, RefuseNickname, SaveNicknames,
         InsertGroup, RemoveMoves, RemoveLeavers, AddMembers, SaveGroup, ReinsertGroup, RemoveGroup,
         Underway, Ended
    <2>2. StepFits(pc[r], job[r].op)
      BY <2>1 DEF ClassInv
    <2>3. PICK step, j : /\ Goto(r, step, j)
                         /\ j.op = job[r].op /\ j.gid = job[r].gid /\ j.cls = job[r].cls
                         /\ Fits(r, step, j)
      BY <1>6, <2>2, LaterStepsShrink
    <2> QED
      BY <1>6, <2>1, <2>3, <1>a, ClassMove DEF Fits
  <1>7. ASSUME NEW r \in Requests, InsertGroup(r) PROVE ClassInv'
    <2> DEFINE old == job[r]
               new == [gid |-> r, cls |-> old.cls]
    <2>1. /\ pc[r] = "insertGroup" /\ groups' = groups \cup {new}
          /\ Goto(r, MoveStep(old), old) /\ Underway(r) /\ ~Born(r)
      BY <1>7 DEF InsertGroup, Underway, Born, Ended, AfterInsert
    <2>2. old.op = "create" /\ old.gid = r
      BY <2>1 DEF ClassInv, StepFits
    <2>3. MoveStep(old) \in AfterInsert \cup Ended /\ StepFits(MoveStep(old), old.op)
      BY <2>2, FitsNext
    <2>4. /\ pc'[r] = MoveStep(old)
          /\ job'[r] = IF MoveStep(old) \in Ended THEN NoJob ELSE old
          /\ \A q \in Requests : q # r => pc'[q] = pc[q] /\ job'[q] = job[q]
      BY <2>1, <1>a, GotoMovesOne
    <2>5. \A x \in Requests : Born(x) => Born(x)'
      BY <2>1, <2>4 DEF Born
    <2>6. Born(r)'
      BY <2>2, <2>3, <2>4 DEF Born
    <2>7. \A q \in Requests : Underway(q)' =>
            /\ Underway(q)
            /\ job'[q].op = job[q].op /\ job'[q].gid = job[q].gid /\ job'[q].cls = job[q].cls
            /\ StepFits(pc'[q], job[q].op)
      BY <2>1, <2>3, <2>4 DEF Underway, ClassInv
    <2>8. ASSUME NEW q \in Requests, q # r, Underway(q) PROVE job[q].gid # r /\ job[q].gid \in Requests
      BY <2>1, <2>8, <1>a DEF ClassInv, Underway, ControlType, Jobs
    <2>9. \A g \in groups : g.gid # r
      BY <2>1 DEF ClassInv
    <2> HIDE DEF old
    <2>10. \A g \in groups' : Born(g.gid)'
      BY <2>1, <2>5, <2>6, <1>a DEF ClassInv, GroupRows
    <2>11. \A g, h \in groups' : g.gid = h.gid => g = h
      BY <2>1, <2>9 DEF ClassInv
    <2>12. ASSUME NEW q \in Requests, Underway(q)'
           PROVE  /\ job'[q].op = "create" => job'[q].gid = q
                  /\ job'[q].op # "create" => job'[q].gid \in Requests /\ Born(job'[q].gid)
                  /\ StepFits(pc'[q], job'[q].op)
                  /\ \A s \in Requests : Underway(s)' /\ job'[s].gid = job'[q].gid =>
                       job'[s].cls = job'[q].cls
      BY <2>2, <2>7, <2>8, <2>12 DEF ClassInv, old
    <2>13. ASSUME NEW q \in Requests, Underway(q)', NEW g \in groups', g.gid = job'[q].gid
           PROVE  g.cls = job'[q].cls
      BY <2>1, <2>2, <2>7, <2>8, <2>13 DEF ClassInv, old
    <2>14. \A q \in Requests : Underway(q)' /\ job'[q].op # "create" => Born(job[q].gid)'
      BY <2>5, <2>12 DEF Born
    <2> QED
      BY <2>10, <2>11, <2>12, <2>13, <2>14 DEF ClassInv
  <1>8. ASSUME NEW r \in Requests, ReinsertGroup(r) PROVE ClassInv'
    <2> DEFINE old == job[r]
               new == [gid |-> old.gid, cls |-> old.cls]
    <2>1. /\ pc[r] = "reinsertGroup" /\ Underway(r) /\ old \in Jobs
          /\ Goto(r, "done", old) \/ Goto(r, "failed", old)
          /\ \/ groups' = groups
             \/ groups' = groups \cup {new} /\ \A g \in groups : g.gid # old.gid
      BY <1>8 DEF ReinsertGroup, Underway, Ended, TypeOK
    <2>2. Born(old.gid) /\ old.gid \in Requests
      BY <2>1 DEF ClassInv, StepFits, Jobs
    <2>3. /\ pc'[r] \in Ended
          /\ \A q \in Requests : q # r => pc'[q] = pc[q] /\ job'[q] = job[q]
      BY <2>1, <1>a, GotoMovesOne DEF Ended
    <2>4. \A x \in Requests : Born(x) => Born(x)'
      BY <2>3 DEF Born
    <2>5. \A q \in Requests : Underway(q)' => Underway(q) /\ q # r /\ job'[q] = job[q] /\ pc'[q] = pc[q]
      BY <2>3 DEF Underway
    <2>6. \A q \in Requests : Underway(q) /\ job[q].gid = old.gid => job[q].cls = old.cls
      BY <2>1 DEF ClassInv
    <2>7. \A q \in Requests : Underway(q) => job[q].gid \in Requests
      BY <1>a DEF ControlType, Underway, Jobs
    <2> HIDE DEF old
    <2>8. \A g \in groups' : Born(g.gid)'
      BY <2>1, <2>2, <2>4, <1>a DEF ClassInv, GroupRows
    <2>9. \A g, h \in groups' : g.gid = h.gid => g = h
      BY <2>1 DEF ClassInv
    <2>10. ASSUME NEW q \in Requests, Underway(q)'
           PROVE  /\ job'[q].op = "create" => job'[q].gid = q
                  /\ job'[q].op # "create" => job'[q].gid \in Requests /\ Born(job'[q].gid)
                  /\ StepFits(pc'[q], job'[q].op)
                  /\ \A s \in Requests : Underway(s)' /\ job'[s].gid = job'[q].gid =>
                       job'[s].cls = job'[q].cls
      BY <2>5, <2>7, <2>10 DEF ClassInv
    <2>11. ASSUME NEW q \in Requests, Underway(q)', NEW g \in groups', g.gid = job'[q].gid
           PROVE  g.cls = job'[q].cls
      BY <2>1, <2>5, <2>6, <2>11 DEF ClassInv
    <2>12. \A q \in Requests : Underway(q)' /\ job'[q].op # "create" => Born(job[q].gid)'
      BY <2>4, <2>10 DEF Born
    <2> QED
      BY <2>8, <2>9, <2>10, <2>11, <2>12 DEF ClassInv
  <1>9. ASSUME NEW r \in Requests, Abort(r) PROVE ClassInv'
    BY <1>9, <1>a, ClassMove DEF Abort, Underway, tables, Ended
  <1>10. ASSUME NEW r \in Requests, LaterSteps(r), ~InsertGroup(r), ~ReinsertGroup(r)
         PROVE  groups' \subseteq groups
    BY <1>10 DEF LaterSteps, FindNicknames, DrawNickname, RefuseNickname, SaveNicknames,
       RemoveMoves, RemoveLeavers, AddMembers, SaveGroup, RemoveGroup, tables
  <1>11. \A c \in Classes, s \in Students : JoinClass(c, s) => UNCHANGED <<groups, pc, job>>
    BY DEF JoinClass
  <1>12. UNCHANGED vars => UNCHANGED <<groups, pc, job>>
    BY DEF vars, tables
  <1> QED
    BY <1>1, <1>2, <1>3, <1>4, <1>5, <1>6, <1>7, <1>8, <1>9, <1>10, <1>11, <1>12
       DEF Next, Step, LaterSteps

\* Every step keeps the members in the class of their group, which exists.
LEMMA MembersOfClassStep ==
  TypeOK /\ ClassInv /\ ListsInv /\ MembersOfClass /\ [Next]_vars => MembersOfClass'
  <1> SUFFICES ASSUME TypeOK, ClassInv, ListsInv, MembersOfClass, [Next]_vars
               PROVE  MembersOfClass'
    OBVIOUS
  <1>1. participants \subseteq participants'
    BY ParticipantsAndGroupsStay
  <1>2. ASSUME NEW r \in Requests, RemoveGroup(r) PROVE MembersOfClass'
    BY <1>1, <1>2 DEF RemoveGroup, MembersOfClass
  <1>3. ASSUME NEW r \in Requests, AddMembers(r) PROVE MembersOfClass'
    <2> DEFINE old == job[r]
               rows == {[gid |-> old.gid, part |-> p, by |-> r] : p \in old.add}
    <2>1. /\ groups' = groups /\ Underway(r)
          /\ \/ members' = members
             \/ members' = members \cup rows /\ \E g \in groups : g.gid = old.gid
      BY <1>3 DEF AddMembers, Underway, Ended
    <2>2. \A p \in old.add : p \in participants /\ p.cls = old.cls
      BY DEF ListsInv, RequestLists
    <2>3. (\E g \in groups : g.gid = old.gid) => [gid |-> old.gid, cls |-> old.cls] \in groups
      <3>1. \A g \in groups : g = [gid |-> g.gid, cls |-> g.cls]
        BY DEF TypeOK, GroupRows
      <3> QED
        BY <2>1, <3>1 DEF ClassInv
    <2>4. \A m \in rows : m.gid = old.gid /\ m.part \in old.add
      OBVIOUS
    <2> HIDE DEF rows, old
    <2> QED
      BY <1>1, <2>1, <2>2, <2>3, <2>4 DEF MembersOfClass
  <1>4. ASSUME ~\E r \in Requests : RemoveGroup(r) \/ AddMembers(r) PROVE MembersOfClass'
    <2>1. groups \subseteq groups'
      BY <1>4, ParticipantsAndGroupsStay
    <2>2. members' \subseteq members
      BY <1>4, MembersShrink DEF RemoveMoves, RemoveLeavers
    <2> QED
      BY <1>1, <2>1, <2>2 DEF MembersOfClass
  <1> QED
    BY <1>2, <1>3, <1>4

\* A group that has members exists, and they all participate in its class.
THEOREM OwnClass == Spec => []MembersOfClass
  <1>1. Init => MembersOfClass
    BY DEF Init, MembersOfClass
  <1> QED
    BY <1>1, TypeCorrect, ClassInit, ClassStep, ListsInit, ListsStep, MembersOfClassStep, PTL DEF Spec
-----------------------------------------------------------------------------
(* What users are shown *)

ViewsBase == TypeOK /\ ClassInv /\ MembersNicknamed /\ MembersOfClass /\ OneGroupEach /\ UniqueNicknames

\* A named participant is displayed under a nickname nobody else has.
LEMMA NicknameShown ==
  ASSUME UniqueNicknames, NEW p \in Named, NEW other
  PROVE  /\ NicknameOr(p, other).as = "nickname"
         /\ \A o : NicknameOr(p, o) = NicknameOr(p, other)
         /\ \A q \in Named : \A o : NicknameOr(q, o) = NicknameOr(p, other) => q = p
  <1> DEFINE row(q) == CHOOSE n \in nicknames : n.part = q
  <1>1. \A q \in Named : row(q) \in nicknames /\ row(q).part = q
    BY DEF Named
  <1>2. \A q \in Named : \A o : NicknameOr(q, o) = [as |-> "nickname", who |-> row(q).name]
    BY DEF NicknameOr, Nickname
  <1> HIDE DEF row
  <1>3. NicknameOr(p, other) = [as |-> "nickname", who |-> row(p).name]
    BY <1>2
  <1>4. ASSUME NEW q \in Named, NEW o, NicknameOr(q, o) = NicknameOr(p, other) PROVE q = p
    <2>1. row(q).name = row(p).name
      BY <1>2, <1>3, <1>4
    <2> QED
      BY <1>1, <2>1 DEF UniqueNicknames
  <1> QED
    BY <1>2, <1>3, <1>4

\* A group has at most one member of each student.
LEMMA OneEntryEach ==
  ASSUME ViewsBase, NEW g \in groups, NEW m \in MembersIn(g), NEW n \in MembersIn(g),
         m.part.student = n.part.student
  PROVE  m = n
  <1>1. /\ m \in members /\ n \in members /\ m.gid = g.gid /\ n.gid = g.gid
        /\ m.part \in Participants /\ n.part \in Participants
    BY DEF MembersIn, ViewsBase, TypeOK, MemberRows
  <1>2. m.part.cls = n.part.cls
    <2> DEFINE row(x) == [gid |-> x.gid, cls |-> x.part.cls]
    <2>1. row(m) \in groups /\ row(n) \in groups
      BY <1>1 DEF ViewsBase, MembersOfClass
    <2>2. row(m).gid = row(n).gid
      BY <1>1
    <2>3. row(m) = row(n)
      BY <2>1, <2>2 DEF ViewsBase, ClassInv
    <2> QED
      BY <2>3
  <1>3. m.part = n.part
    BY <1>1, <1>2 DEF Participants
  <1> QED
    BY <1>1, <1>3 DEF ViewsBase, OneGroupEach

\* Who is in a group is a participant of its class, and has a nickname.
LEMMA MemberFacts ==
  ASSUME ViewsBase, NEW m \in members
  PROVE  /\ m.part \in participants /\ m.part \in Named
         /\ m.part.cls \in Classes /\ m.part.student \in Students
         /\ [gid |-> m.gid, cls |-> m.part.cls] \in groups
  BY DEF ViewsBase, TypeOK, MemberRows, Participants, MembersNicknamed, MembersOfClass

LEMMA StudentsShown == ViewsBase => StudentsSeeNicknames
  <1> SUFFICES ASSUME ViewsBase, NEW g \in groups, NEW s \in Students, MayOpen(s, g)
               PROVE  LET detail == GroupDetail(s, g) IN
                      /\ \A e \in detail : e.display.as = "nickname"
                      /\ \A d, e \in detail : d.display = e.display => d = e
                      /\ \A e \in detail : e.isMe => ChatName(s, g) = e.display
                      /\ Roster(g) = {e.display : e \in detail}
    BY DEF StudentsSeeNicknames
  <1>1. UniqueNicknames
    BY DEF ViewsBase
  <1> DEFINE Entry(m) == [member |-> m.by, part |-> m.part, display |-> NicknameOr(m.part, Nameless),
                          isMe |-> m.part.student = s]
  <1>2. GroupDetail(s, g) = {Entry(m) : m \in MembersIn(g)}
    BY DEF GroupDetail
  <1>3. \A m \in MembersIn(g) : m \in members /\ m.part \in Named
    BY MemberFacts DEF MembersIn
  <1>4. ASSUME NEW m \in MembersIn(g)
        PROVE  /\ Entry(m).display.as = "nickname"
               /\ \A o : NicknameOr(m.part, o) = Entry(m).display
               /\ Entry(m).isMe <=> m.part.student = s
    BY <1>1, <1>3, NicknameShown
  <1>5. ASSUME NEW m \in MembersIn(g), NEW n \in MembersIn(g), Entry(m).display = Entry(n).display
        PROVE  m = n
    <2>1. m.part = n.part
      BY <1>1, <1>3, <1>5, NicknameShown
    <2> QED
      BY <1>3, <2>1 DEF ViewsBase, OneGroupEach
  <1>6. ASSUME NEW m \in MembersIn(g), Entry(m).isMe PROVE ChatName(s, g) = Entry(m).display
    <2> DEFINE mine == CHOOSE n \in MembersIn(g) : n.part.student = s
    <2>1. mine \in MembersIn(g) /\ mine.part.student = s
      BY <1>4, <1>6
    <2>2. mine = m
      BY <1>4, <1>6, <2>1, OneEntryEach
    <2>3. ChatName(s, g) = NicknameOr(mine.part, RealName(s))
      BY DEF ChatName
    <2> QED
      BY <1>4, <2>2, <2>3
  <1>7. Roster(g) = {Entry(m).display : m \in MembersIn(g)}
    BY <1>4 DEF Roster
  <1> HIDE DEF Entry
  <1> QED
    BY <1>2, <1>4, <1>5, <1>6, <1>7

\* Whatever interleaves, what students are shown of a group are nicknames, one for each member.
THEOREM NicknamesShown == Spec => []StudentsSeeNicknames
  BY TypeCorrect, Anonymity, NicknamesUnique, OneGroup, OwnClass, ClassInit, ClassStep, StudentsShown,
     PTL DEF Spec, ViewsBase

LEMMA ViewsTell == ViewsBase => ViewsAgree
  <1> SUFFICES ASSUME ViewsBase PROVE ViewsAgree
    OBVIOUS
  <1>1. ASSUME NEW s \in Students, NEW view \in StudentClasses(s), NEW gid \in view.myGroup
        PROVE  \E g \in groups :
                 /\ g = [gid |-> gid, cls |-> view.cls]
                 /\ view.myGroup = {gid}
                 /\ \E me \in GroupDetail(s, g) : \A e \in GroupDetail(s, g) : e.isMe <=> e = me
    <2>1. PICK p \in participants : p.student = s /\ view = [cls |-> p.cls, myGroup |-> MyGroup(p)]
      BY DEF StudentClasses
    <2>2. PICK m \in members : m.part = p /\ m.gid = gid
      BY <2>1 DEF MyGroup, EntriesOf
    <2>3. view.myGroup = {gid}
      BY <2>1, <2>2 DEF MyGroup, EntriesOf, ViewsBase, OneGroupEach
    <2> DEFINE g == [gid |-> gid, cls |-> p.cls]
    <2>4. g \in groups /\ g.gid = gid /\ m \in MembersIn(g) /\ m.part.student = s
      BY <2>1, <2>2, MemberFacts DEF MembersIn
    <2> DEFINE Entry(n) == [member |-> n.by, part |-> n.part, display |-> NicknameOr(n.part, Nameless),
                            isMe |-> n.part.student = s]
    <2>5. GroupDetail(s, g) = {Entry(n) : n \in MembersIn(g)}
      BY DEF GroupDetail
    <2>6. \A n \in MembersIn(g) : Entry(n).isMe <=> n.part.student = s
      OBVIOUS
    <2>7. \A n \in MembersIn(g) : n.part.student = s => n = m
      BY <2>4, OneEntryEach
    <2>8. Entry(m).isMe
      BY <2>4
    <2> HIDE DEF Entry, g
    <2>9. \E me \in GroupDetail(s, g) : \A e \in GroupDetail(s, g) : e.isMe <=> e = me
      BY <2>4, <2>5, <2>6, <2>7, <2>8
    <2> QED
      BY <2>1, <2>3, <2>4, <2>9 DEF g
  <1>2. ASSUME NEW u \in Users, NEW own \in TeacherClasses(u)
        PROVE  /\ MayManage(u, own.cls)
               /\ own.students = {view.part : view \in ClassParticipants(own.cls)}
    <2> DEFINE View(p) == [part |-> p, display |-> RealName(p.student),
                           nickname |-> NicknameOr(p, Nameless),
                           group |-> {m.gid : m \in EntriesOf(p)}]
    <2>1. PICK c \in Classes : /\ Owner[c] = u /\ own.cls = c
                               /\ own.students = {p \in participants : p.cls = c}
      BY DEF TeacherClasses
    <2>2. ClassParticipants(c) = {View(p) : p \in {p \in participants : p.cls = c}}
      BY DEF ClassParticipants
    <2>3. \A p : View(p).part = p
      OBVIOUS
    <2> HIDE DEF View
    <2> QED
      BY <2>1, <2>2, <2>3 DEF MayManage
  <1>3. ASSUME NEW c \in Classes, NEW view \in ClassParticipants(c)
        PROVE  /\ view.group = {g.gid : g \in {g \in ClassGroups(c) : \E e \in g.list : e.part = view.part}}
               /\ [cls |-> c, myGroup |-> view.group] \in StudentClasses(view.part.student)
    <2>1. PICK p \in participants : p.cls = c /\ view.part = p
                                    /\ view.group = {m.gid : m \in EntriesOf(p)}
      BY DEF ClassParticipants
    <2> DEFINE Item(m) == [part |-> m.part, display |-> RealName(m.part.student),
                           nickname |-> NicknameOr(m.part, Nameless)]
               Row(g) == [gid |-> g.gid, list |-> {Item(m) : m \in MembersIn(g)}]
               mine == {g \in ClassGroups(c) : \E e \in g.list : e.part = p}
    <2>2. ClassGroups(c) = {Row(g) : g \in {g \in groups : g.cls = c}}
      BY DEF ClassGroups
    <2>3. \A m : Item(m).part = m.part
      OBVIOUS
    <2>4. \A g : Row(g).gid = g.gid /\ Row(g).list = {Item(m) : m \in MembersIn(g)}
      OBVIOUS
    <2> HIDE DEF Item, Row
    <2>5. ASSUME NEW m \in EntriesOf(p) PROVE \E g \in mine : g.gid = m.gid
      <3>1. m \in members /\ m.part = p
        BY DEF EntriesOf
      <3> DEFINE g == [gid |-> m.gid, cls |-> c]
      <3>2. g \in groups /\ g.cls = c /\ g.gid = m.gid /\ m \in MembersIn(g)
        BY <2>1, <3>1, MemberFacts DEF MembersIn
      <3> HIDE DEF g
      <3>3. Row(g) \in ClassGroups(c) /\ Item(m) \in Row(g).list /\ Item(m).part = p
        BY <2>2, <2>3, <2>4, <3>1, <3>2
      <3> QED
        BY <2>4, <3>2, <3>3
    <2>6. ASSUME NEW shown \in mine PROVE \E m \in EntriesOf(p) : m.gid = shown.gid
      <3>1. PICK g \in groups : shown = Row(g)
        BY <2>2
      <3>2. PICK m \in MembersIn(g) : Item(m).part = p
        BY <2>4, <3>1
      <3> QED
        BY <2>3, <2>4, <3>1, <3>2 DEF EntriesOf, MembersIn
    <2> HIDE DEF mine
    <2>7. view.group = {g.gid : g \in mine}
      BY <2>1, <2>5, <2>6
    <2>8. [cls |-> c, myGroup |-> view.group] \in StudentClasses(p.student)
      BY <2>1 DEF StudentClasses, MyGroup
    <2> QED
      BY <2>1, <2>7, <2>8 DEF mine
  <1>4. ASSUME NEW c \in Classes, NEW g \in ClassGroups(c), NEW e \in g.list
        PROVE  \E view \in ClassParticipants(c) : view.part = e.part /\ view.nickname = e.nickname
    <2> DEFINE Item(m) == [part |-> m.part, display |-> RealName(m.part.student),
                           nickname |-> NicknameOr(m.part, Nameless)]
               View(p) == [part |-> p, display |-> RealName(p.student),
                           nickname |-> NicknameOr(p, Nameless),
                           group |-> {m.gid : m \in EntriesOf(p)}]
    <2>1. PICK row \in groups : row.cls = c /\ g.list = {Item(m) : m \in MembersIn(row)}
      BY DEF ClassGroups
    <2>2. PICK m \in MembersIn(row) : e = Item(m)
      BY <2>1
    <2>3. e.part = m.part /\ e.nickname = NicknameOr(m.part, Nameless)
      BY <2>2
    <2>4. m \in members /\ m.gid = row.gid
      BY DEF MembersIn
    <2>5. m.part \in participants /\ m.part.cls = c
      <3> DEFINE own == [gid |-> m.gid, cls |-> m.part.cls]
      <3>1. own \in groups /\ own.gid = row.gid /\ m.part \in participants
        BY <2>4, MemberFacts
      <3>2. own = row
        BY <3>1 DEF ViewsBase, ClassInv
      <3> QED
        BY <2>1, <3>1, <3>2
    <2>6. View(m.part) \in ClassParticipants(c)
      BY <2>5 DEF ClassParticipants
    <2>7. View(m.part).part = m.part /\ View(m.part).nickname = NicknameOr(m.part, Nameless)
      OBVIOUS
    <2> HIDE DEF View, Item
    <2> QED
      BY <2>3, <2>6, <2>7
  <1> QED
    BY <1>1, <1>2, <1>3, <1>4 DEF ViewsAgree

\* The student's list of classes, the group and the teacher's lists always tell the same.
THEOREM ViewsConsistent == Spec => []ViewsAgree
  BY TypeCorrect, Anonymity, NicknamesUnique, OneGroup, OwnClass, ClassInit, ClassStep, ViewsTell,
     PTL DEF Spec, ViewsBase
-----------------------------------------------------------------------------
(* A request that shares its time with no other *)

Exists(gid, grps) == \E g \in grps : g.gid = gid

\* What a request still has to add and remove makes up the difference between its group and its wish.
Difference(j, mems) ==
  /\ \A p \in j.wanted : p \in j.add \/ \E m \in mems : m.gid = j.gid /\ m.part = p
  /\ \A m \in mems : m.gid = j.gid => m.part \in j.wanted \/ m \in j.leave

\* What a create or update that is alone finds at a step: its group, once it is there, and the
\* difference, of which nothing is left at the end.
Exact(step, j, mems, grps) ==
  /\ step \notin {"findParticipants", "findMembers"} => Difference(j, mems)
  /\ step \in {"addMembers", "saveGroup", "done"} => j.leave = {}
  /\ step \in {"saveGroup", "done"} => j.add = {}
  /\ j.op = "update" \/ step \in AfterInsert \cup {"done"} => Exists(j.gid, grps)
  /\ step \notin {"reinsertGroup", "removeGroup"}

\* The steps the code skips are those with nothing to do.
LEMMA ExactNext ==
  ASSUME NEW j, NEW mems, NEW grps, j.op \in {"create", "update"}, Difference(j, mems)
  PROVE  /\ Exists(j.gid, grps) =>
              /\ j.leave = {} => Exact(AddStep(j), j, mems, grps)
              /\ Exact(LeaveStep(j), j, mems, grps)
              /\ Exact(MoveStep(j), j, mems, grps)
         /\ (j.op = "update" => Exists(j.gid, grps)) =>
              /\ Exact(NamedStep(j), j, mems, grps)
              /\ Exact(NicknameStep(j), j, mems, grps)
  BY DEF Exact, AddStep, LeaveStep, MoveStep, NamedStep, NicknameStep, AfterInsert

\* A group that is still to be inserted has no members.
LEMMA UnbornIsEmpty ==
  ASSUME ClassInv, MembersOfClass, NEW r \in Requests, ~Born(r)
  PROVE  \A m \in members : m.gid # r
  BY DEF ClassInv, MembersOfClass

\* A request that begins has all of its wish still to add, or is still to read its group.
LEMMA ExactBegins ==
  ASSUME TypeOK, ClassInv, MembersOfClass, NEW r \in Requests, Begin(r), Underway(r)',
         job'[r].op # "delete"
  PROVE  Exact(pc[r], job[r], members, groups)'
  <1>a. ControlType
    BY DEF TypeOK, ControlType
  <1>1. PICK u \in Users : \/ \E c \in Classes, S \in SUBSET Students : CreateGroup(r, u, c, S)
                           \/ \E g \in groups : UpdateGroup(r, u, g) \/ DeleteGroup(r, u, g)
    BY DEF Begin
  <1>2. ASSUME NEW c \in Classes, NEW S \in SUBSET Students, CreateGroup(r, u, c, S)
        PROVE  Exact(pc[r], job[r], members, groups)'
    <2> DEFINE found == ParticipantsOf(c, S)
               j == NewJob("create", r, c, found)
    <2>1. \A m \in members : m.gid # r
      BY <1>2, UnbornIsEmpty DEF CreateGroup, Born, Ended, AfterInsert
    <2>2. j.op = "create" /\ j.gid = r /\ j.wanted = j.add
      BY DEF NewJob
    <2>3. Difference(j, members)
      BY <2>1, <2>2 DEF Difference
    <2>4. /\ Goto(r, pc'[r], j) /\ pc'[r] = NicknameStep(j)
          /\ UNCHANGED <<members, groups>>
      <3>1. \E step \in {"failed", NicknameStep(j)} : Goto(r, step, j)
        BY <1>2 DEF CreateGroup
      <3> HIDE DEF j
      <3> QED
        BY <1>2, <3>1, <1>a, GotoMovesOne DEF CreateGroup, tables, Underway, Ended
    <2> HIDE DEF j
    <2>5. job'[r] = j
      BY <2>4, <1>a, GotoMovesOne DEF Underway
    <2> QED
      BY <2>2, <2>3, <2>4, <2>5, ExactNext
  <1>3. ASSUME NEW g \in groups, UpdateGroup(r, u, g) \/ DeleteGroup(r, u, g)
        PROVE  Exact(pc[r], job[r], members, groups)'
    <2>1. /\ pc'[r] = "findParticipants"
          /\ job'[r] = NewJob("update", g.gid, g.cls, {})
      BY <1>3, <1>a, GotoMovesOne DEF UpdateGroup, DeleteGroup, Underway, Ended, NewJob
    <2>2. UNCHANGED <<members, groups>>
      BY <1>3 DEF UpdateGroup, DeleteGroup, tables
    <2> QED
      BY <2>1, <2>2 DEF Exact, NewJob, AfterInsert, Exists
  <1> QED
    BY <1>1, <1>2, <1>3

\* What an exact request keeps when it goes on to step with locals j.
GoesOn(r, step, j, mems, grps) ==
  /\ Goto(r, step, j)
  /\ Exact(step, j, mems, grps)
  /\ j.op = job[r].op /\ j.gid = job[r].gid
  /\ step = "done" => j.wanted = job[r].wanted

\* Every step of a create or update brings its group nearer to its wish, or fails.
LEMMA ExactStep ==
  ASSUME TypeOK, ClassInv, ListsInv, MembersOfClass, NEW r \in Requests, Underway(r), Step(r),
         job[r].op # "delete", Exact(pc[r], job[r], members, groups), pc'[r] # "failed"
  PROVE  \E j : GoesOn(r, pc'[r], j, members', groups')
  <1> DEFINE old == job[r]
  <1>a. ControlType
    BY DEF TypeOK, ControlType
  <1>b. /\ old \in Jobs /\ old.op \in {"create", "update"}
        /\ StepFits(pc[r], old.op) /\ RequestLists(pc[r], old)
        /\ old.op = "create" => old.gid = r
    BY <1>a DEF ControlType, Jobs, Underway, ClassInv, ListsInv
  <1>c. pc[r] \notin {"idle", "reinsertGroup", "removeGroup"}
    BY DEF Underway, Exact
  \* Moving on with a difference that is still right.
  <1>d. ASSUME NEW step, NEW j, Goto(r, step, j), Exact(step, j, members', groups'),
               j.op = old.op, j.gid = old.gid, j.wanted = old.wanted
        PROVE  \E k : GoesOn(r, pc'[r], k, members', groups')
    <2>1. pc'[r] = step
      BY <1>d, <1>a, GotoMovesOne
    <2> HIDE DEF old
    <2> QED
      BY <1>d, <2>1 DEF GoesOn, old
  <1>e. (pc[r] \in AfterInsert \/ old.op = "update") => Exists(old.gid, groups)
    BY DEF Exact
  <1>1. ASSUME NEW S \in SUBSET Students, FindParticipants(r, S)
        PROVE  \E j : GoesOn(r, pc'[r], j, members', groups')
    <2> DEFINE found == ParticipantsOf(old.cls, S)
               j == [old EXCEPT !.wanted = found]
    <2>1. j.op = old.op /\ j.gid = old.gid
      BY <1>b DEF Jobs
    <2>2. Goto(r, "findMembers", j) /\ UNCHANGED tables /\ pc'[r] = "findMembers"
      BY <1>1, <1>a, GotoMovesOne DEF FindParticipants
    <2> HIDE DEF j
    <2>3. Exact("findMembers", j, members, groups)
      BY <1>e, <2>1 DEF Exact, AfterInsert
    <2> QED
      BY <2>1, <2>2, <2>3 DEF GoesOn, tables
  <1>2. ASSUME FindMembers(r)
        PROVE  \E j : GoesOn(r, pc'[r], j, members', groups')
    <2> DEFINE current == {m \in members : m.gid = old.gid}
               add == old.wanted \ {m.part : m \in current}
               leave == {m \in current : m.part \notin old.wanted}
               j == [old EXCEPT !.add = add, !.leave = leave]
    <2>1. j.op = old.op /\ j.gid = old.gid /\ j.wanted = old.wanted /\ j.add = add /\ j.leave = leave
      <3> HIDE DEF add, leave
      <3> QED
        BY <1>b DEF Jobs
    <2>2. Goto(r, NicknameStep(j), j) /\ UNCHANGED tables
      BY <1>2 DEF FindMembers
    <2> HIDE DEF j
    <2>3. Difference(j, members)
      BY <2>1 DEF Difference
    <2>4. Exact(NicknameStep(j), j, members, groups)
      BY <1>b, <1>e, <2>1, <2>3, ExactNext
    <2> QED
      BY <2>1, <2>2, <2>4, <1>d DEF tables
  <1>f. ASSUME pc[r] \notin {"findParticipants", "findMembers"}
        PROVE  Difference(old, members)
    BY <1>f DEF Exact
  \* The steps about nicknames leave the difference alone.
  <1>g. ASSUME NEW j, NEW step, step \in {NamedStep(j), "drawNickname", "saveNicknames"},
               Goto(r, step, j), UNCHANGED <<members, groups>>,
               pc[r] \in {"findNicknames", "drawNickname", "saveNicknames"},
               j.op = old.op, j.gid = old.gid, j.wanted = old.wanted, j.add = old.add,
               j.leave = old.leave
        PROVE  \E k : GoesOn(r, pc'[r], k, members', groups')
    <2> HIDE DEF old
    <2>1. Difference(j, members)
      BY <1>f, <1>g DEF Difference
    <2>2. Exact(step, j, members, groups)
      <3>1. Exact(NamedStep(j), j, members, groups)
        BY <1>b, <1>e, <1>g, <2>1, ExactNext
      <3>2. step \in {"drawNickname", "saveNicknames"} => Exact(step, j, members, groups)
        BY <1>e, <1>g, <2>1 DEF Exact, AfterInsert
      <3> QED
        BY <1>g, <3>1, <3>2
    <2> QED
      BY <1>d, <1>g, <2>2
  <1>3. ASSUME FindNicknames(r)
        PROVE  \E j : GoesOn(r, pc'[r], j, members', groups')
    <2> DEFINE todo == old.add \ {n.part : n \in {n \in nicknames : n.cls = old.cls}}
               j == [old EXCEPT !.todo = todo, !.drawn = {}, !.tries = 0]
    <2>1. /\ j.op = old.op /\ j.gid = old.gid /\ j.wanted = old.wanted /\ j.add = old.add
          /\ j.leave = old.leave
      <3> HIDE DEF todo
      <3> QED
        BY <1>b DEF Jobs
    <2>2. /\ Goto(r, IF j.todo = {} THEN NamedStep(j) ELSE "drawNickname", j)
          /\ pc[r] = "findNicknames" /\ UNCHANGED tables
      BY <1>3 DEF FindNicknames
    <2> HIDE DEF j
    <2> QED
      BY <2>1, <2>2, <1>g DEF tables
  <1>4. ASSUME NEW p \in Participants, NEW n \in Names, DrawNickname(r, p, n)
        PROVE  \E j : GoesOn(r, pc'[r], j, members', groups')
    <2> DEFINE todo == old.todo \ {p}
               drawn == old.drawn \cup {[part |-> p, name |-> n]}
               j == [old EXCEPT !.todo = todo, !.tries = 0, !.drawn = drawn]
    <2>1. /\ j.op = old.op /\ j.gid = old.gid /\ j.wanted = old.wanted /\ j.add = old.add
          /\ j.leave = old.leave
      <3> HIDE DEF todo, drawn
      <3> QED
        BY <1>b DEF Jobs
    <2>2. /\ Goto(r, IF j.todo = {} THEN "saveNicknames" ELSE "drawNickname", j)
          /\ pc[r] = "drawNickname" /\ UNCHANGED <<members, groups>>
      BY <1>4 DEF DrawNickname
    <2> HIDE DEF j
    <2> QED
      BY <2>1, <2>2, <1>g
  <1>5. ASSUME RefuseNickname(r)
        PROVE  \E j : GoesOn(r, pc'[r], j, members', groups')
    <2> DEFINE j == [old EXCEPT !.tries = @ + 1]
    <2>1. /\ j.op = old.op /\ j.gid = old.gid /\ j.wanted = old.wanted /\ j.add = old.add
          /\ j.leave = old.leave
      BY <1>b DEF Jobs
    <2>2. /\ \E step \in {"failed", "drawNickname"} : Goto(r, step, j)
          /\ pc[r] = "drawNickname" /\ UNCHANGED tables
      BY <1>5 DEF RefuseNickname
    <2> HIDE DEF j
    <2>3. Goto(r, "drawNickname", j)
      BY <2>2, <1>a, GotoMovesOne
    <2> QED
      BY <2>1, <2>2, <2>3, <1>g DEF tables
  <1>6. ASSUME SaveNicknames(r)
        PROVE  \E j : GoesOn(r, pc'[r], j, members', groups')
    <2> DEFINE j == [old EXCEPT !.drawn = {}]
    <2>1. /\ j.op = old.op /\ j.gid = old.gid /\ j.wanted = old.wanted /\ j.add = old.add
          /\ j.leave = old.leave
      BY <1>b DEF Jobs
    <2>2. /\ \E step \in {"failed", NamedStep(j)} : Goto(r, step, j)
          /\ pc[r] = "saveNicknames" /\ UNCHANGED <<members, groups>>
      BY <1>6 DEF SaveNicknames
    <2> HIDE DEF j
    <2>3. Goto(r, NamedStep(j), j)
      BY <2>2, <1>a, GotoMovesOne
    <2> QED
      BY <2>1, <2>2, <2>3, <1>g
  <1>7. ASSUME InsertGroup(r)
        PROVE  \E j : GoesOn(r, pc'[r], j, members', groups')
    <2>1. /\ Goto(r, MoveStep(old), old) /\ members' = members
          /\ groups' = groups \cup {[gid |-> r, cls |-> old.cls]} /\ pc[r] = "insertGroup"
      BY <1>7 DEF InsertGroup
    <2>2. old.gid = r
      BY <1>b, <2>1 DEF StepFits
    <2>3. Exists(old.gid, groups')
      <3>1. [gid |-> r, cls |-> old.cls] \in groups' /\ [gid |-> r, cls |-> old.cls].gid = r
        BY <2>1
      <3> QED
        BY <2>2, <3>1 DEF Exists
    <2> HIDE DEF old
    <2>4. Exact(MoveStep(old), old, members', groups')
      BY <1>b, <1>f, <2>1, <2>3, ExactNext
    <2> QED
      BY <1>d, <2>1, <2>4
  <1>8. ASSUME FindMoves(r)
        PROVE  \E j : GoesOn(r, pc'[r], j, members', groups')
    <2> DEFINE move == {m \in members : m.part \in old.add /\ m.gid # old.gid}
               j == [old EXCEPT !.move = move]
    <2>1. /\ j.op = old.op /\ j.gid = old.gid /\ j.wanted = old.wanted /\ j.add = old.add
          /\ j.leave = old.leave
      <3> HIDE DEF move
      <3> QED
        BY <1>b DEF Jobs
    <2>2. /\ Goto(r, IF j.move # {} THEN "removeMoves" ELSE LeaveStep(j), j)
          /\ pc[r] = "findMoves" /\ UNCHANGED <<members, groups>>
      BY <1>8 DEF FindMoves, tables
    <2> HIDE DEF j, old
    <2>3. Difference(j, members) /\ Exists(j.gid, groups)
      BY <1>e, <1>f, <2>1, <2>2 DEF Difference, AfterInsert
    <2>4. Exact(LeaveStep(j), j, members, groups)
      BY <1>b, <2>1, <2>3, ExactNext
    <2>5. Exact("removeMoves", j, members, groups)
      BY <2>3 DEF Exact
    <2> QED
      BY <1>d, <2>1, <2>2, <2>4, <2>5
  <1>9. ASSUME RemoveMoves(r)
        PROVE  \E j : GoesOn(r, pc'[r], j, members', groups')
    <2> DEFINE j == [old EXCEPT !.move = {}]
    <2>1. /\ j.op = old.op /\ j.gid = old.gid /\ j.wanted = old.wanted /\ j.add = old.add
          /\ j.leave = old.leave
      BY <1>b DEF Jobs
    <2>2. /\ Goto(r, LeaveStep(old), j) /\ LeaveStep(old) = LeaveStep(j)
          /\ pc[r] = "removeMoves" /\ members' = members \ old.move /\ groups' = groups
      BY <1>9, <2>1 DEF RemoveMoves, LeaveStep, AddStep
    <2>3. \A m \in old.move : m.gid # old.gid
      BY <1>b DEF RequestLists
    <2> HIDE DEF j, old
    <2>4. Difference(j, members') /\ Exists(j.gid, groups')
      BY <1>e, <1>f, <2>1, <2>2, <2>3 DEF Difference, AfterInsert
    <2>5. Exact(LeaveStep(j), j, members', groups')
      BY <1>b, <2>1, <2>4, ExactNext
    <2> QED
      BY <1>d, <2>1, <2>2, <2>5
  <1>10. ASSUME RemoveLeavers(r)
         PROVE  \E j : GoesOn(r, pc'[r], j, members', groups')
    <2> DEFINE j == [old EXCEPT !.leave = {}]
    <2>1. /\ j.op = old.op /\ j.gid = old.gid /\ j.wanted = old.wanted /\ j.add = old.add
          /\ j.leave = {}
      BY <1>b DEF Jobs
    <2>2. /\ Goto(r, AddStep(old), j) /\ AddStep(old) = AddStep(j)
          /\ pc[r] = "removeLeavers" /\ members' = members \ old.leave /\ groups' = groups
      BY <1>10, <2>1 DEF RemoveLeavers, AddStep
    <2>3. \A m \in old.leave : m.part \notin old.wanted
      BY <1>b DEF RequestLists
    <2> HIDE DEF j, old
    <2>4. Difference(j, members') /\ Exists(j.gid, groups')
      BY <1>e, <1>f, <2>1, <2>2, <2>3 DEF Difference, AfterInsert
    <2>5. Exact(AddStep(j), j, members', groups')
      BY <1>b, <2>1, <2>4, ExactNext
    <2> QED
      BY <1>d, <2>1, <2>2, <2>5
  <1>11. ASSUME AddMembers(r)
         PROVE  \E j : GoesOn(r, pc'[r], j, members', groups')
    <2> DEFINE rows == {[gid |-> old.gid, part |-> p, by |-> r] : p \in old.add}
               j == [old EXCEPT !.add = {}]
               next == IF old.op = "create" THEN "done" ELSE "saveGroup"
    <2>1. /\ j.op = old.op /\ j.gid = old.gid /\ j.wanted = old.wanted /\ j.add = {}
          /\ j.leave = old.leave
      BY <1>b DEF Jobs
    <2>2. /\ pc[r] = "addMembers" /\ groups' = groups
          /\ \/ Goto(r, next, j) /\ members' = members \cup rows
             \/ Goto(r, "failed", j)
      BY <1>11 DEF AddMembers
    <2>3. Goto(r, next, j) /\ members' = members \cup rows
      <3> HIDE DEF next, j, rows
      <3> QED
        BY <2>2, <1>a, GotoMovesOne
    <2>4. /\ \A m \in rows : m.gid = old.gid /\ m.part \in old.add
          /\ \A p \in old.add : \E m \in rows : m.gid = old.gid /\ m.part = p
      <3>1. ASSUME NEW p \in old.add PROVE \E m \in rows : m.gid = old.gid /\ m.part = p
        <4>1. [gid |-> old.gid, part |-> p, by |-> r] \in rows
          OBVIOUS
        <4> HIDE DEF rows
        <4> QED
          BY <4>1
      <3>2. \A m \in rows : m.gid = old.gid /\ m.part \in old.add
        OBVIOUS
      <3> QED
        BY <3>1, <3>2
    <2>5. old.add \subseteq old.wanted /\ old.leave = {} /\ Difference(old, members)
      BY <1>b, <1>f, <2>2 DEF RequestLists, Exact
    <2> HIDE DEF j, old, rows
    <2>6. Difference(j, members') /\ Exists(j.gid, groups')
      BY <1>e, <2>1, <2>2, <2>3, <2>4, <2>5 DEF Difference, AfterInsert
    <2>7. Exact(next, j, members', groups')
      BY <2>1, <2>5, <2>6 DEF Exact
    <2> HIDE DEF next
    <2> QED
      BY <1>d, <2>1, <2>3, <2>7
  <1>12. ASSUME SaveGroup(r)
         PROVE  \E j : GoesOn(r, pc'[r], j, members', groups')
    <2>1. /\ pc[r] = "saveGroup" /\ UNCHANGED <<members, groups>>
          /\ Goto(r, IF Exists(old.gid, groups) THEN "done" ELSE "reinsertGroup", old)
      BY <1>12 DEF SaveGroup, tables, Exists
    <2>2. old.op = "update"
      BY <1>b, <2>1 DEF StepFits
    <2>3. Exists(old.gid, groups)
      BY <1>e, <2>2
    <2>4. Exact("done", old, members, groups)
      BY <1>f, <2>1, <2>3 DEF Exact
    <2> HIDE DEF old
    <2> QED
      BY <1>d, <2>1, <2>3, <2>4
  <1> QED
    BY <1>1, <1>2, <1>3, <1>4, <1>5, <1>6, <1>7, <1>8, <1>9, <1>10, <1>11, <1>12, <1>c
       DEF Step, ReinsertGroup, RemoveGroup

\* A step is taken by a request that is under way, and leaves its operation as it is.
LEMMA StepMoves ==
  ASSUME TypeOK, NEW r \in Requests, Step(r)
  PROVE  Underway(r) /\ \E step, j : Goto(r, step, j) /\ j.op = job[r].op
  <1>1. CASE LaterSteps(r)
    <2>1. Underway(r)
      BY <1>1 DEF LaterSteps, FindNicknames, DrawNickname, RefuseNickname, SaveNicknames,
         InsertGroup, RemoveMoves, RemoveLeavers, AddMembers, SaveGroup, ReinsertGroup, RemoveGroup,
         Underway, Ended
    <2> QED
      BY <1>1, <2>1, LaterStepsShrink
  <1>2. CASE \E S \in SUBSET Students : FindParticipants(r, S)
    <2>1. Underway(r) /\ job[r] \in Jobs
      BY <1>2 DEF FindParticipants, Underway, Ended, TypeOK
    <2> QED
      BY <1>2, <2>1 DEF FindParticipants, Jobs
  <1>3. CASE FindMembers(r)
    <2> DEFINE current == {m \in members : m.gid = job[r].gid}
               add == job[r].wanted \ {m.part : m \in current}
               leave == {m \in current : m.part \notin job[r].wanted}
               j == [job[r] EXCEPT !.add = add, !.leave = leave]
    <2>1. Underway(r) /\ job[r] \in Jobs
      BY <1>3 DEF FindMembers, Underway, Ended, TypeOK
    <2>2. Goto(r, NicknameStep(j), j)
      BY <1>3 DEF FindMembers
    <2> HIDE DEF add, leave
    <2>3. j.op = job[r].op
      BY <2>1 DEF Jobs
    <2> HIDE DEF j
    <2> QED
      BY <2>1, <2>2, <2>3
  <1>4. CASE FindMoves(r)
    <2> DEFINE move == {m \in members : m.part \in job[r].add /\ m.gid # job[r].gid}
               j == [job[r] EXCEPT !.move = move]
    <2>1. Underway(r) /\ job[r] \in Jobs
      BY <1>4 DEF FindMoves, Underway, Ended, TypeOK
    <2>2. Goto(r, IF j.move # {} THEN "removeMoves" ELSE LeaveStep(j), j)
      BY <1>4 DEF FindMoves
    <2> HIDE DEF move
    <2>3. j.op = job[r].op
      BY <2>1 DEF Jobs
    <2> HIDE DEF j
    <2> QED
      BY <2>1, <2>2, <2>3
  <1> QED
    BY <1>1, <1>2, <1>3, <1>4 DEF Step, LaterSteps

\* A request begins with work to do, or fails.
LEMMA BeginMoves ==
  ASSUME NEW r \in Requests, Begin(r)
  PROVE  \E step, j : Goto(r, step, j) /\ step # "done"
  <1>1. ASSUME NEW u \in Users, NEW c \in Classes, NEW S \in SUBSET Students, CreateGroup(r, u, c, S)
        PROVE  \E step, j : Goto(r, step, j) /\ step # "done"
    <2> DEFINE j == NewJob("create", r, c, ParticipantsOf(c, S))
    <2>1. NicknameStep(j) # "done"
      BY DEF NicknameStep, NamedStep, NewJob
    <2>2. Goto(r, NicknameStep(j), j) \/ Goto(r, "failed", j)
      BY <1>1 DEF CreateGroup
    <2> HIDE DEF j
    <2> QED
      BY <2>1, <2>2
  <1>2. ASSUME NEW u \in Users, NEW g \in groups, UpdateGroup(r, u, g) \/ DeleteGroup(r, u, g)
        PROVE  \E step, j : Goto(r, step, j) /\ step # "done"
    BY <1>2 DEF UpdateGroup, DeleteGroup
  <1> QED
    BY <1>1, <1>2 DEF Begin

\* The history variables only watch the service.
LEMMA HistoryOnly == HSpec => Spec
  <1>1. HInit => Init
    BY DEF HInit
  <1>2. [HNext]_hvars => [Next]_vars
    BY DEF HNext, hvars
  <1> QED
    BY <1>1, <1>2, PTL DEF HSpec, Spec

\* Who is under way and not in shared is alone, and exact.
SoleInv ==
  \A r \in Requests : Underway(r) /\ r \notin shared =>
    /\ \A q \in Requests : Underway(q) => q = r
    /\ job[r].op # "delete" => Exact(pc[r], job[r], members, groups)

\* Another request that begins while r is alone would share its time with r, so only r takes steps.
LEMMA SoleStep ==
  TypeOK /\ ClassInv /\ ListsInv /\ MembersOfClass /\ SoleInv /\ [HNext]_hvars => SoleInv'
  <1> SUFFICES ASSUME TypeOK, ClassInv, ListsInv, MembersOfClass, SoleInv, [HNext]_hvars,
                      NEW r \in Requests, Underway(r)', r \notin shared'
               PROVE  /\ \A q \in Requests : Underway(q)' => q = r
                      /\ job'[r].op # "delete" => Exact(pc[r], job[r], members, groups)'
    BY DEF SoleInv
  <1>a. ControlType
    BY DEF TypeOK, ControlType
  <1>1. CASE UNCHANGED hvars
    <2>1. UNCHANGED <<pc, job, members, groups, shared>>
      BY <1>1 DEF hvars, vars, tables
    <2> QED
      BY <2>1 DEF SoleInv, Underway
  <1>2. CASE HNext
    <2>1. /\ r \notin shared
          /\ \A q \in Requests : Underway(q)' => q = r
      BY <1>2 DEF HNext, Record, Running, Underway
    <2>2. ASSUME UNCHANGED <<members, groups>>, pc'[r] = pc[r], job'[r] = job[r]
          PROVE  job'[r].op # "delete" => Exact(pc[r], job[r], members, groups)'
      BY <2>1, <2>2 DEF SoleInv, Underway
    <2>3. ASSUME NEW c \in Classes, NEW s \in Students, JoinClass(c, s)
          PROVE  job'[r].op # "delete" => Exact(pc[r], job[r], members, groups)'
      BY <2>2, <2>3 DEF JoinClass
    <2>4. ASSUME Begin(r)
          PROVE  job'[r].op # "delete" => Exact(pc[r], job[r], members, groups)'
      BY <2>4, ExactBegins
    <2>5. ASSUME NEW q \in Requests, q # r, Begin(q)
          PROVE  job'[r].op # "delete" => Exact(pc[r], job[r], members, groups)'
      <3>1. UNCHANGED <<members, groups>> /\ \E step, j : Goto(q, step, j)
        BY <2>5 DEF Begin, CreateGroup, UpdateGroup, DeleteGroup, tables
      <3> QED
        BY <2>2, <2>5, <3>1, <1>a, GotoMovesOne
    <2>6. ASSUME Step(r), job'[r].op # "delete"
          PROVE  Exact(pc[r], job[r], members, groups)'
      <3>1. Underway(r)
        BY <2>6, StepMoves
      <3>2. CASE job[r].op # "delete"
        <4>1. PICK j : GoesOn(r, pc'[r], j, members', groups')
          BY <2>1, <3>1, <3>2, <2>6, ExactStep DEF SoleInv, Underway, Ended
        <4>2. job'[r] = j
          BY <4>1, <1>a, GotoMovesOne DEF GoesOn, Underway
        <4> QED
          BY <4>1, <4>2 DEF GoesOn
      <3>3. CASE job[r].op = "delete"
        <4>1. job'[r].op = "delete"
          BY <3>3, <2>6, <1>a, StepMoves, GotoMovesOne DEF Underway
        <4> QED
          BY <4>1, <2>6
      <3> QED
        BY <3>2, <3>3
    <2>7. ASSUME NEW q \in Requests, q # r, Step(q) \/ Abort(q) PROVE FALSE
      <3>1. Underway(q) /\ pc'[r] = pc[r]
        <4>1. Underway(q) /\ \E step, j : Goto(q, step, j)
          BY <2>7, StepMoves DEF Abort, Underway
        <4> QED
          BY <4>1, <2>7, <1>a, GotoMovesOne
      <3> QED
        BY <2>1, <2>7, <3>1 DEF SoleInv, Underway
    <2>8. ASSUME Abort(r) PROVE FALSE
      BY <2>8, <1>a, GotoMovesOne DEF Abort, Underway, Ended
    <2> QED
      BY <1>2, <2>1, <2>3, <2>4, <2>5, <2>6, <2>7, <2>8 DEF HNext, Next
  <1> QED
    BY <1>1, <1>2

\* A create or update that is answered, and shared its time with no other request, leaves exactly
\* the requested students in its group.
THEOREM AloneExact == HSpec => AloneIsExact
  <1> DEFINE Left(r) == /\ {m.part : m \in {m \in members' : m.gid = job[r].gid}} = job[r].wanted
                        /\ \E g \in groups' : g.gid = job[r].gid
             Answered(r) ==
               pc[r] \notin Ended /\ pc'[r] = "done" /\ r \notin shared /\ job[r].op # "delete"
  <1>1. ASSUME TypeOK, ClassInv, ListsInv, MembersOfClass, SoleInv, [HNext]_hvars,
               NEW r \in Requests, Answered(r)
        PROVE  Left(r)
    <2>a. ControlType
      BY <1>1 DEF TypeOK, ControlType
    <2>1. HNext /\ pc'[r] # pc[r]
      BY <1>1 DEF hvars, vars, Ended
    <2>2. Step(r)
      <3>1. ASSUME NEW c \in Classes, NEW s \in Students, JoinClass(c, s) PROVE FALSE
        BY <2>1, <3>1 DEF JoinClass
      <3>2. ASSUME NEW q \in Requests, q # r, Begin(q) \/ Step(q) \/ Abort(q) PROVE FALSE
        <4>1. \E step, j : Goto(q, step, j)
          BY <1>1, <3>2, StepMoves, BeginMoves DEF Abort
        <4> QED
          BY <2>1, <2>a, <3>2, <4>1, GotoMovesOne
      <3>3. ASSUME Begin(r) PROVE FALSE
        BY <1>1, <2>a, <3>3, BeginMoves, GotoMovesOne
      <3>4. ASSUME Abort(r) PROVE FALSE
        BY <1>1, <2>a, <3>4, GotoMovesOne DEF Abort
      <3> QED
        BY <2>1, <3>1, <3>2, <3>3, <3>4 DEF HNext, Next
    <2>3. Underway(r)
      BY <1>1, <2>2, StepMoves
    <2>4. Exact(pc[r], job[r], members, groups)
      BY <1>1, <2>3 DEF SoleInv
    <2>5. PICK j : GoesOn(r, "done", j, members', groups')
      BY <1>1, <2>2, <2>3, <2>4, ExactStep
    <2>6. /\ Difference(j, members') /\ j.add = {} /\ j.leave = {} /\ Exists(j.gid, groups')
          /\ j.gid = job[r].gid /\ j.wanted = job[r].wanted
      BY <2>5 DEF GoesOn, Exact
    <2> QED
      BY <2>6 DEF Difference, Exists
  <1>2. TypeOK /\ ClassInv /\ ListsInv /\ MembersOfClass /\ SoleInv /\ [HNext]_hvars =>
          [\A r \in Requests : Answered(r) => Left(r)]_hvars
    BY <1>1
  <1>4. HInit => SoleInv
    BY DEF HInit, Init, SoleInv, Underway
  <1>5. Spec => [](TypeOK /\ ClassInv /\ ListsInv /\ MembersOfClass)
    BY TypeCorrect, OwnClass, ClassInit, ClassStep, ListsInit, ListsStep, PTL DEF Spec
  <1> QED
    BY <1>2, <1>4, <1>5, HistoryOnly, SoleStep, PTL DEF HSpec, AloneIsExact

-----------------------------------------------------------------------------
(* Nobody is left without a group *)

\* The rows a request is about to move name participants it is going to add.
MovesInv ==
  \A r \in Requests : pc[r] = "removeMoves" => \A m \in job[r].move : m.part \in job[r].add

\* Whoever is stranded will be added by the request that is under way, or it has failed.
StrandedInv ==
  \A x \in stranded :
    /\ x.by \in Requests
    /\ \/ pc[x.by] = "failed"
       \/ pc[x.by] \in {"removeLeavers", "addMembers"} /\ x.part \in job[x.by].add

\* No step but the search for them leads to the removal of moves.
LEMMA NotToMoves ==
  ASSUME NEW j
  PROVE  /\ AddStep(j) # "removeMoves"
         /\ LeaveStep(j) # "removeMoves"
         /\ MoveStep(j) # "removeMoves"
         /\ NamedStep(j) # "removeMoves"
         /\ NicknameStep(j) # "removeMoves"
  BY DEF AddStep, LeaveStep, MoveStep, NamedStep, NicknameStep

\* Nothing that leads elsewhere, and no step of another request, disturbs the rows to move.
LEMMA MovesStep == TypeOK /\ MovesInv /\ [Next]_vars => MovesInv'
  <1> SUFFICES ASSUME TypeOK, MovesInv, [Next]_vars PROVE MovesInv'
    OBVIOUS
  <1>a. ControlType
    BY DEF TypeOK, ControlType
  <1>b. ASSUME NEW r \in Requests, NEW step, NEW j, Goto(r, step, j),
               step = "removeMoves" => \A m \in j.move : m.part \in j.add
        PROVE  MovesInv'
    BY <1>a, <1>b, GotoMovesOne DEF MovesInv, Ended
  <1>1. ASSUME NEW r \in Requests, Begin(r) PROVE MovesInv'
    <2>1. \E step, j : Goto(r, step, j) /\ step # "removeMoves"
      BY <1>1, NotToMoves DEF Begin, CreateGroup, UpdateGroup, DeleteGroup
    <2> QED
      BY <1>b, <2>1
  <1>2. ASSUME NEW r \in Requests, FindMoves(r) PROVE MovesInv'
    <2> DEFINE move == {m \in members : m.part \in job[r].add /\ m.gid # job[r].gid}
               j == [job[r] EXCEPT !.move = move]
    <2>1. job[r] \in Jobs
      BY <1>2 DEF FindMoves, TypeOK, Ended
    <2>2. Goto(r, IF j.move # {} THEN "removeMoves" ELSE LeaveStep(j), j)
      BY <1>2 DEF FindMoves
    <2>3. \A m \in move : m.part \in job[r].add
      OBVIOUS
    <2> HIDE DEF move
    <2>4. \A m \in j.move : m.part \in j.add
      BY <2>1, <2>3 DEF Jobs
    <2> HIDE DEF j
    <2> QED
      BY <1>b, <2>2, <2>4
  <1>3. ASSUME NEW r \in Requests, Step(r) \/ Abort(r), ~FindMoves(r) PROVE MovesInv'
    <2> DEFINE Elsewhere == \E step, j : Goto(r, step, j) /\ step # "removeMoves"
    <2>1. ASSUME FindMembers(r) \/ FindNicknames(r) \/ SaveNicknames(r) PROVE Elsewhere
      BY <2>1, NotToMoves DEF FindMembers, FindNicknames, SaveNicknames
    <2>2. ASSUME NEW p \in Participants, NEW n \in Names, DrawNickname(r, p, n) PROVE Elsewhere
      BY <2>2 DEF DrawNickname
    <2>3. ASSUME RefuseNickname(r) \/ AddMembers(r) PROVE Elsewhere
      BY <2>3 DEF RefuseNickname, AddMembers
    <2>4. ASSUME InsertGroup(r) \/ RemoveMoves(r) \/ RemoveLeavers(r) PROVE Elsewhere
      BY <2>4, NotToMoves DEF InsertGroup, RemoveMoves, RemoveLeavers
    <2>5. ASSUME NEW S \in SUBSET Students, FindParticipants(r, S) PROVE Elsewhere
      BY <2>5 DEF FindParticipants
    <2>6. ASSUME SaveGroup(r) \/ ReinsertGroup(r) \/ RemoveGroup(r) \/ Abort(r) PROVE Elsewhere
      BY <2>6 DEF SaveGroup, ReinsertGroup, RemoveGroup, Abort
    <2> HIDE DEF Elsewhere
    <2>7. Elsewhere
      BY <1>3, <2>1, <2>2, <2>3, <2>4, <2>5, <2>6 DEF Step
    <2> QED
      BY <1>b, <2>7 DEF Elsewhere
  <1>4. CASE UNCHANGED <<pc, job>>
    BY <1>4 DEF MovesInv
  <1> QED
    BY <1>1, <1>2, <1>3, <1>4 DEF Next, JoinClass, vars

\* A participant waits from the release to the insert of one request, which either puts the
\* participant in its group or fails.
LEMMA StrandedStep == TypeOK /\ MovesInv /\ StrandedInv /\ [HNext]_hvars => StrandedInv'
  <1> SUFFICES ASSUME TypeOK, MovesInv, StrandedInv, [HNext]_hvars, NEW x \in stranded'
               PROVE  /\ x.by \in Requests
                      /\ \/ pc'[x.by] = "failed"
                         \/ pc'[x.by] \in {"removeLeavers", "addMembers"} /\ x.part \in job'[x.by].add
    BY DEF StrandedInv
  <1> DEFINE r == x.by
             Waits == \/ pc[r] = "failed"
                      \/ pc[r] \in {"removeLeavers", "addMembers"} /\ x.part \in job[r].add
             WaitsOn == \/ pc'[r] = "failed"
                        \/ pc'[r] \in {"removeLeavers", "addMembers"} /\ x.part \in job'[r].add
  <1>a. ControlType
    BY DEF TypeOK, ControlType
  <1>1. CASE UNCHANGED hvars
    BY <1>1 DEF hvars, vars, StrandedInv
  <1>2. CASE HNext
    <2>1. \A m \in members' : m.part # x.part
      BY <1>2 DEF HNext, Record
    <2>2. CASE x \in stranded
      <3>1. r \in Requests /\ Waits
        BY <2>2 DEF StrandedInv
      <3>2. ASSUME pc'[r] = pc[r], job'[r] = job[r] PROVE WaitsOn
        BY <3>1, <3>2
      <3>3. ASSUME NEW q \in Requests, q # r, Begin(q) \/ Step(q) \/ Abort(q) PROVE WaitsOn
        <4>1. \E step, j : Goto(q, step, j)
          BY <3>3, StepMoves, BeginMoves DEF Abort
        <4> QED
          BY <3>1, <3>2, <3>3, <4>1, <1>a, GotoMovesOne
      <3>4. ASSUME Begin(r) PROVE FALSE
        BY <3>1, <3>4 DEF Begin, CreateGroup, UpdateGroup, DeleteGroup
      <3>5. ASSUME Abort(r) PROVE WaitsOn
        BY <3>1, <3>5, <1>a, GotoMovesOne DEF Abort
      <3>6. ASSUME Step(r) PROVE WaitsOn
        <4>1. CASE RemoveLeavers(r)
          <5> DEFINE j == [job[r] EXCEPT !.leave = {}]
          <5>1. job[r] \in Jobs /\ x.part \in job[r].add
            BY <3>1, <4>1 DEF RemoveLeavers, TypeOK, Ended
          <5>2. j.add = job[r].add
            BY <5>1 DEF Jobs
          <5>3. Goto(r, "addMembers", j)
            BY <4>1, <5>1 DEF RemoveLeavers, AddStep
          <5> HIDE DEF j
          <5> QED
            BY <3>1, <5>1, <5>2, <5>3, <1>a, GotoMovesOne DEF Ended
        <4>2. CASE AddMembers(r)
          <5> DEFINE rows == {[gid |-> job[r].gid, part |-> p, by |-> r] : p \in job[r].add}
          <5>1. x.part \in job[r].add
            BY <3>1, <4>2 DEF AddMembers
          <5>2. [gid |-> job[r].gid, part |-> x.part, by |-> r] \in rows
            BY <5>1
          <5>3. ~(rows \subseteq members')
            BY <2>1, <5>2
          <5>4. \E j : Goto(r, "failed", j)
            BY <4>2, <5>3 DEF AddMembers
          <5> QED
            BY <3>1, <5>4, <1>a, GotoMovesOne
        <4> QED
          BY <3>1, <3>6, <4>1, <4>2 DEF Step, FindParticipants, FindMembers, FindNicknames,
             DrawNickname, RefuseNickname, SaveNicknames, InsertGroup, FindMoves, RemoveMoves,
             SaveGroup, ReinsertGroup, RemoveGroup
      <3> QED
        BY <1>2, <3>1, <3>2, <3>3, <3>4, <3>5, <3>6 DEF HNext, Next, JoinClass
    <2>3. CASE x \in Released
      <3>1. PICK m \in members \ members', q \in Requests :
              pc[q] = "removeMoves" /\ pc'[q] # pc[q] /\ x = [part |-> m.part, by |-> q]
        BY <2>3 DEF Released
      <3>2. r = q /\ x.part = m.part
        BY <3>1
      <3>3. ASSUME NEW p \in Requests, Begin(p) \/ Abort(p) PROVE FALSE
        BY <3>1, <3>3 DEF Begin, CreateGroup, UpdateGroup, DeleteGroup, Abort, tables
      <3>4. ASSUME NEW p \in Requests, Step(p) PROVE p = q
        BY <3>1, <3>4, <1>a, StepMoves, GotoMovesOne
      <3>5. Step(q)
        BY <1>2, <3>1, <3>3, <3>4 DEF HNext, Next, JoinClass
      <3>6. RemoveMoves(q)
        BY <3>1, <3>5 DEF Step, FindParticipants, FindMembers, FindNicknames, DrawNickname,
           RefuseNickname, SaveNicknames, InsertGroup, FindMoves, RemoveLeavers, AddMembers,
           SaveGroup, ReinsertGroup, RemoveGroup
      <3> DEFINE j == [job[q] EXCEPT !.move = {}]
      <3>7. job[q] \in Jobs /\ m.part \in job[q].add
        BY <3>1, <3>6 DEF RemoveMoves, MovesInv, TypeOK, Ended
      <3>8. j.add = job[q].add
        BY <3>7 DEF Jobs
      <3>9. \E step \in {"removeLeavers", "addMembers"} : Goto(q, step, j)
        BY <3>6, <3>7 DEF RemoveMoves, LeaveStep, AddStep
      <3> HIDE DEF j
      <3> QED
        BY <3>2, <3>7, <3>8, <3>9, <1>a, GotoMovesOne DEF Ended
    <2> QED
      BY <1>2, <2>2, <2>3 DEF HNext, Record
  <1> QED
    BY <1>1, <1>2

\* Whatever other requests do between the release of a student and the insert, an answered request
\* has left nobody it released without a group.
THEOREM NobodyLeftOut == HSpec => []NobodyStranded
  <1>1. HInit => MovesInv /\ StrandedInv
    BY DEF HInit, Init, MovesInv, StrandedInv
  <1>2. TypeOK /\ MovesInv /\ [HNext]_hvars => MovesInv'
    BY MovesStep DEF HNext, hvars
  <1>3. StrandedInv => NobodyStranded
    BY DEF StrandedInv, NobodyStranded
  <1> QED
    BY <1>1, <1>2, <1>3, HistoryOnly, TypeCorrect, StrandedStep, PTL DEF HSpec

-----------------------------------------------------------------------------
(* Every call of a request brings it nearer to its end *)

\* The calls at and before the drawing of nicknames.
Asking == {"findParticipants", "findMembers", "findNicknames", "drawNickname"}

\* What each call counts for.
LEMMA CallsCounted ==
  ASSUME NEW j
  PROVE  /\ \A step \in Steps \ Asking : CallsLeft(step, j) = CallsFrom[step]
         /\ CallsLeft("findParticipants", j) = 11 + MaxAttempts * Cardinality(Students)
         /\ CallsLeft("findMembers", j) = 10 + MaxAttempts * Cardinality(j.wanted)
         /\ CallsLeft("findNicknames", j) = 9 + MaxAttempts * Cardinality(j.add)
         /\ CallsLeft("drawNickname", j) = 8 + (MaxAttempts * Cardinality(j.todo) - j.tries)
  <1>1. \A step \in Steps \ Asking : AttemptsLeft(step, j) = 0 /\ CallsFrom[step] \in Nat
    BY DEF AttemptsLeft, CallsFrom, Steps, AfterNicknames, Ended, Asking
  <1>2. \A step \in Steps \ Asking : CallsLeft(step, j) = CallsFrom[step]
    BY <1>1 DEF CallsLeft
  <1>3. /\ CallsFrom["findParticipants"] = 11 /\ CallsFrom["findMembers"] = 10
        /\ CallsFrom["findNicknames"] = 9 /\ CallsFrom["drawNickname"] = 8
    BY DEF CallsFrom
  <1> QED
    BY <1>2, <1>3 DEF CallsLeft, AttemptsLeft

\* The calls after the nicknames, in the order in which a handler makes them.
LEMMA OrderOfCalls ==
  /\ CallsFrom["done"] = 0 /\ CallsFrom["failed"] = 0 /\ CallsFrom["removeGroup"] = 1
  /\ CallsFrom["reinsertGroup"] = 1 /\ CallsFrom["saveGroup"] = 2 /\ CallsFrom["addMembers"] = 3
  /\ CallsFrom["removeLeavers"] = 4 /\ CallsFrom["removeMoves"] = 5 /\ CallsFrom["findMoves"] = 6
  /\ CallsFrom["insertGroup"] = 7 /\ CallsFrom["saveNicknames"] = 8
  BY DEF CallsFrom

\* Calls that are skipped only bring the end nearer.
LEMMA SkippedCalls ==
  ASSUME NEW j
  PROVE  /\ AddStep(j) \in Steps \ Asking /\ CallsFrom[AddStep(j)] \in 0..3
         /\ LeaveStep(j) \in Steps \ Asking /\ CallsFrom[LeaveStep(j)] \in 0..4
         /\ MoveStep(j) \in Steps \ Asking /\ CallsFrom[MoveStep(j)] \in 0..6
         /\ NamedStep(j) \in Steps \ Asking /\ CallsFrom[NamedStep(j)] \in 0..7
         /\ NicknameStep(j) \in {NamedStep(j), "findNicknames"}
  <1>1. AddStep(j) \in Steps \ Asking /\ CallsFrom[AddStep(j)] \in 0..3
    BY OrderOfCalls DEF AddStep, Steps, AfterNicknames, Ended, Asking
  <1>2. LeaveStep(j) \in Steps \ Asking /\ CallsFrom[LeaveStep(j)] \in 0..4
    BY <1>1, OrderOfCalls DEF LeaveStep, Steps, AfterNicknames, Ended, Asking
  <1>3. MoveStep(j) \in Steps \ Asking /\ CallsFrom[MoveStep(j)] \in 0..6
    BY <1>2, OrderOfCalls DEF MoveStep, Steps, AfterNicknames, Ended, Asking
  <1>4. NamedStep(j) \in Steps \ Asking /\ CallsFrom[NamedStep(j)] \in 0..7
    BY <1>3, OrderOfCalls DEF NamedStep, Steps, AfterNicknames, Ended, Asking
  <1> QED
    BY <1>1, <1>2, <1>3, <1>4 DEF NicknameStep

\* Attempts for fewer participants are no more attempts.
LEMMA AttemptsGrow ==
  ASSUME NEW a \in Nat, NEW b \in Nat, a <= b
  PROVE  /\ MaxAttempts * a \in Nat
         /\ MaxAttempts * a <= MaxAttempts * b
         /\ a < b => MaxAttempts * a + MaxAttempts <= MaxAttempts * b
  <1> DEFINE d == b - a
  <1>1. d \in Nat /\ b = a + d
    OBVIOUS
  <1>2. \A x, y \in Nat : MaxAttempts * x \in Nat /\ MaxAttempts * (x + y) = MaxAttempts * x + MaxAttempts * y
    BY GroupAssumption
  <1>3. MaxAttempts * b = MaxAttempts * a + MaxAttempts * d
    BY <1>1, <1>2
  <1>4. a < b => \E e \in Nat : d = e + 1
    <2>1. a < b => d - 1 \in Nat /\ d = (d - 1) + 1
      OBVIOUS
    <2> QED
      BY <2>1
  <1>5. \A e \in Nat : MaxAttempts * (e + 1) = MaxAttempts * e + MaxAttempts
    BY GroupAssumption
  <1> HIDE DEF d
  <1>6. ASSUME a < b PROVE MaxAttempts * d >= MaxAttempts
    <2> PICK e \in Nat : d = e + 1
      BY <1>4, <1>6
    <2> QED
      BY <1>2, <1>5, GroupAssumption
  <1> QED
    BY <1>1, <1>2, <1>3, <1>6, GroupAssumption

\* The participants of one class are as many as the students at most.
LEMMA ParticipantsOfOneClass ==
  ASSUME IsFiniteSet(Students), NEW W \in SUBSET Participants, NEW c, \A p \in W : p.cls = c
  PROVE  IsFiniteSet(W) /\ Cardinality(W) <= Cardinality(Students)
  <1> DEFINE f == [p \in W |-> p.student]
  <1>1. f \in [W -> Students]
    BY DEF Participants
  <1>2. \A p, q \in W : f[p] = f[q] => p = q
    BY DEF Participants
  <1>3. f \in Injection(W, Students)
    BY <1>1, <1>2 DEF Injection, IsInjective
  <1> QED
    BY <1>3, FS_Injection

\* Request r gets to that step with fewer calls left.
Closer(r, step, j) ==
  /\ CallsLeft(step, j) \in Nat
  /\ CallsLeft(step, j) < CallsLeft(pc[r], job[r])

\* Whoever draws nicknames has some left to draw, and finitely many.
TodoInv ==
  \A r \in Requests : pc[r] = "drawNickname" => IsFiniteSet(job[r].todo) /\ job[r].todo # {}

\* A step of a running request, or its failure, leaves it fewer calls than it had.
LEMMA StepCounts ==
  ASSUME IsFiniteSet(Students), TypeOK, ListsInv, TodoInv, NEW r \in Requests, Step(r) \/ Abort(r)
  PROVE  \E j : \E step \in Steps :
           /\ Goto(r, step, j) /\ Closer(r, step, j)
           /\ step = "drawNickname" => IsFiniteSet(j.todo) /\ j.todo # {}
  <1> DEFINE old == job[r]
             Left == CallsLeft(pc[r], old)
             Goal == \E j : \E step \in Steps :
                       /\ Goto(r, step, j) /\ Closer(r, step, j)
                       /\ step = "drawNickname" => IsFiniteSet(j.todo) /\ j.todo # {}
  <1>a. old \in Jobs /\ RequestLists(pc[r], old) /\ pc[r] \in Steps
    BY DEF Step, FindParticipants, FindMembers, FindNicknames, DrawNickname, RefuseNickname,
       SaveNicknames, InsertGroup, FindMoves, RemoveMoves, RemoveLeavers, AddMembers, SaveGroup,
       ReinsertGroup, RemoveGroup, Abort, Ended, TypeOK, ListsInv
  <1>b. ASSUME NEW W \in SUBSET Participants, \A p \in W : p.cls = old.cls
        PROVE  IsFiniteSet(W) /\ Cardinality(W) \in Nat /\ Cardinality(W) <= Cardinality(Students)
    BY <1>b, ParticipantsOfOneClass, FS_CardinalityType
  <1>c. Cardinality(Students) \in Nat
    BY FS_CardinalityType
  <1>d. IsFiniteSet(old.wanted) /\ Cardinality(old.wanted) \in Nat
    BY <1>a, <1>b DEF RequestLists, Jobs
  <1>e. IsFiniteSet(old.add) /\ Cardinality(old.add) \in Nat
    BY <1>a, <1>b DEF RequestLists, Jobs
  <1>f. ASSUME NEW step \in Steps \ Asking, NEW j, Goto(r, step, j),
               CallsFrom[step] \in Nat, CallsFrom[step] < Left
        PROVE  Goal
    BY <1>f, CallsCounted DEF Closer, Asking
  <1>g. {"done", "failed", "saveNicknames"} \subseteq Steps \ Asking
    BY DEF Steps, AfterNicknames, Ended, Asking
  <1>h. {"reinsertGroup", "saveGroup", "addMembers", "removeLeavers", "removeMoves", "findMoves",
         "insertGroup", "removeGroup"} \subseteq Steps \ Asking
    BY DEF Steps, AfterNicknames, Ended, Asking
  <1> HIDE DEF Goal
  <1>1. ASSUME NEW S \in SUBSET Students, FindParticipants(r, S) PROVE Goal
    <2> DEFINE found == ParticipantsOf(old.cls, S)
               j == [old EXCEPT !.wanted = found]
    <2>1. Left = 11 + MaxAttempts * Cardinality(Students)
      BY <1>1, CallsCounted DEF FindParticipants
    <2>2. Goto(r, "findMembers", j) \/ Goto(r, "failed", j)
      BY <1>1 DEF FindParticipants
    <2>3. found \in SUBSET Participants /\ \A p \in found : p.cls = old.cls
      BY DEF ParticipantsOf, TypeOK
    <2>4. IsFiniteSet(found) /\ Cardinality(found) \in Nat /\ Cardinality(found) <= Cardinality(Students)
      BY <1>b, <2>3
    <2>5. j.wanted = found
      BY <1>a DEF Jobs
    <2>6. /\ MaxAttempts * Cardinality(Students) \in Nat /\ MaxAttempts * Cardinality(found) \in Nat
          /\ MaxAttempts * Cardinality(found) <= MaxAttempts * Cardinality(Students)
      BY <1>c, <2>4, AttemptsGrow
    <2>7. CallsLeft("findMembers", j) = 10 + MaxAttempts * Cardinality(found)
      BY <2>5, CallsCounted
    <2> HIDE DEF j, found
    <2>8. CASE Goto(r, "failed", j)
      BY <1>f, <1>g, <2>1, <2>6, <2>8, OrderOfCalls
    <2>9. CASE Goto(r, "findMembers", j)
      BY <2>1, <2>6, <2>7, <2>9 DEF Goal, Closer, Steps
    <2> QED
      BY <2>2, <2>8, <2>9
  <1>2. ASSUME FindMembers(r) PROVE Goal
    <2> DEFINE current == {m \in members : m.gid = old.gid}
               add == old.wanted \ {m.part : m \in current}
               leave == {m \in current : m.part \notin old.wanted}
               j == [old EXCEPT !.add = add, !.leave = leave]
    <2>1. Left = 10 + MaxAttempts * Cardinality(old.wanted)
      BY <1>2, CallsCounted DEF FindMembers
    <2>2. Goto(r, NicknameStep(j), j)
      BY <1>2 DEF FindMembers
    <2>3. IsFiniteSet(add) /\ Cardinality(add) \in Nat /\ Cardinality(add) <= Cardinality(old.wanted)
      <3>1. add \in SUBSET old.wanted
        OBVIOUS
      <3> HIDE DEF add
      <3> QED
        BY <1>d, <3>1, FS_Subset, FS_CardinalityType
    <2> HIDE DEF add, leave
    <2>4. j.add = add
      BY <1>a DEF Jobs
    <2>5. /\ MaxAttempts * Cardinality(old.wanted) \in Nat /\ MaxAttempts * Cardinality(add) \in Nat
          /\ MaxAttempts * Cardinality(add) <= MaxAttempts * Cardinality(old.wanted)
      BY <1>d, <2>3, AttemptsGrow
    <2>6. CallsLeft("findNicknames", j) = 9 + MaxAttempts * Cardinality(add)
      BY <2>4, CallsCounted
    <2> HIDE DEF j
    <2>7. CASE NicknameStep(j) = "findNicknames"
      BY <2>1, <2>2, <2>5, <2>6, <2>7 DEF Goal, Closer, Steps
    <2>8. CASE NicknameStep(j) = NamedStep(j)
      BY <1>f, <2>1, <2>2, <2>5, <2>8, SkippedCalls
    <2> QED
      BY <2>7, <2>8, SkippedCalls
  <1>3. ASSUME FindNicknames(r) PROVE Goal
    <2> DEFINE existing == {n.part : n \in {n \in nicknames : n.cls = old.cls}}
               todo == old.add \ existing
               j == [old EXCEPT !.todo = todo, !.drawn = {}, !.tries = 0]
    <2>1. Left = 9 + MaxAttempts * Cardinality(old.add)
      BY <1>3, CallsCounted DEF FindNicknames
    <2>2. Goto(r, IF j.todo = {} THEN NamedStep(j) ELSE "drawNickname", j)
      BY <1>3 DEF FindNicknames
    <2>3. IsFiniteSet(todo) /\ Cardinality(todo) \in Nat /\ Cardinality(todo) <= Cardinality(old.add)
      <3>1. todo \in SUBSET old.add
        OBVIOUS
      <3> HIDE DEF todo
      <3> QED
        BY <1>e, <3>1, FS_Subset, FS_CardinalityType
    <2> HIDE DEF todo
    <2>4. j.todo = todo /\ j.tries = 0
      BY <1>a DEF Jobs
    <2>5. /\ MaxAttempts * Cardinality(old.add) \in Nat /\ MaxAttempts * Cardinality(todo) \in Nat
          /\ MaxAttempts * Cardinality(todo) <= MaxAttempts * Cardinality(old.add)
      BY <1>e, <2>3, AttemptsGrow
    <2>6. CallsLeft("drawNickname", j) = 8 + (MaxAttempts * Cardinality(todo) - 0)
      BY <2>4, CallsCounted
    <2> HIDE DEF j
    <2>7. CASE todo # {}
      BY <2>1, <2>2, <2>3, <2>4, <2>5, <2>6, <2>7 DEF Goal, Closer, Steps
    <2>8. CASE todo = {}
      BY <1>f, <2>1, <2>2, <2>4, <2>5, <2>8, SkippedCalls
    <2> QED
      BY <2>7, <2>8
  <1>t. ASSUME pc[r] = "drawNickname"
        PROVE  /\ IsFiniteSet(old.todo) /\ Cardinality(old.todo) \in Nat /\ old.todo # {}
               /\ MaxAttempts * Cardinality(old.todo) \in Nat
               /\ MaxAttempts <= MaxAttempts * Cardinality(old.todo)
               /\ old.tries \in Nat /\ old.tries < MaxAttempts
               /\ Left = 8 + (MaxAttempts * Cardinality(old.todo) - old.tries)
    <2>1. IsFiniteSet(old.todo) /\ Cardinality(old.todo) \in Nat /\ old.todo # {}
      BY <1>t, FS_CardinalityType DEF TodoInv
    <2>2. 0 < Cardinality(old.todo)
      BY <2>1, FS_EmptySet
    <2>3. MaxAttempts * 0 = 0
      BY GroupAssumption
    <2>4. /\ MaxAttempts * Cardinality(old.todo) \in Nat
          /\ MaxAttempts <= MaxAttempts * Cardinality(old.todo)
      BY <2>1, <2>2, <2>3, AttemptsGrow, GroupAssumption
    <2> QED
      BY <1>a, <1>t, <2>1, <2>4, CallsCounted, GroupAssumption DEF Jobs
  <1>4. ASSUME NEW p \in Participants, NEW n \in Names, DrawNickname(r, p, n) PROVE Goal
    <2> DEFINE todo == old.todo \ {p}
               drawn == old.drawn \cup {[part |-> p, name |-> n]}
               j == [old EXCEPT !.todo = todo, !.tries = 0, !.drawn = drawn]
    <2>1. p \in old.todo /\ pc[r] = "drawNickname"
      BY <1>4 DEF DrawNickname
    <2>2. Goto(r, IF j.todo = {} THEN "saveNicknames" ELSE "drawNickname", j)
      BY <1>4 DEF DrawNickname
    <2>3. /\ IsFiniteSet(todo) /\ Cardinality(todo) \in Nat
          /\ Cardinality(todo) = Cardinality(old.todo) - 1
      BY <1>t, <2>1, FS_RemoveElement, FS_CardinalityType
    <2> HIDE DEF todo, drawn
    <2>4. j.todo = todo /\ j.tries = 0
      BY <1>a DEF Jobs
    <2>5. /\ MaxAttempts * Cardinality(old.todo) \in Nat /\ MaxAttempts * Cardinality(todo) \in Nat
          /\ MaxAttempts * Cardinality(todo) + MaxAttempts <= MaxAttempts * Cardinality(old.todo)
      BY <1>t, <2>1, <2>3, AttemptsGrow
    <2>6. CallsLeft("drawNickname", j) = 8 + (MaxAttempts * Cardinality(todo) - 0)
      BY <2>4, CallsCounted
    <2> HIDE DEF j
    <2>7. CASE todo # {}
      BY <1>t, <2>1, <2>2, <2>3, <2>4, <2>5, <2>6, <2>7, GroupAssumption DEF Goal, Closer, Steps
    <2>8. CASE todo = {}
      BY <1>f, <1>g, <1>t, <2>1, <2>2, <2>4, <2>5, <2>8, OrderOfCalls, GroupAssumption
    <2> QED
      BY <2>7, <2>8
  <1>5. ASSUME RefuseNickname(r) PROVE Goal
    <2> DEFINE j == [old EXCEPT !.tries = old.tries + 1]
    <2>1. pc[r] = "drawNickname"
      BY <1>5 DEF RefuseNickname
    <2>2. j.todo = old.todo /\ j.tries = old.tries + 1
      BY <1>a DEF Jobs
    <2>3. Goto(r, IF j.tries = MaxAttempts THEN "failed" ELSE "drawNickname", j)
      BY <1>5 DEF RefuseNickname
    <2>4. CallsLeft("drawNickname", j) = 8 + (MaxAttempts * Cardinality(old.todo) - (old.tries + 1))
      BY <2>2, CallsCounted
    <2> HIDE DEF j
    <2>5. CASE j.tries # MaxAttempts
      BY <1>t, <2>1, <2>2, <2>3, <2>4, <2>5, GroupAssumption DEF Goal, Closer, Steps
    <2>6. CASE j.tries = MaxAttempts
      BY <1>f, <1>g, <1>t, <2>1, <2>3, <2>6, OrderOfCalls, GroupAssumption
    <2> QED
      BY <2>5, <2>6
  <1>6. ASSUME SaveNicknames(r) PROVE Goal
    <2> DEFINE j == [old EXCEPT !.drawn = {}]
    <2>1. Left = 8
      BY <1>6, <1>g, CallsCounted, OrderOfCalls DEF SaveNicknames
    <2>2. Goto(r, "failed", j) \/ Goto(r, NamedStep(j), j)
      BY <1>6 DEF SaveNicknames
    <2> HIDE DEF j
    <2> QED
      BY <1>f, <1>g, <2>1, <2>2, SkippedCalls, OrderOfCalls
  <1>7. ASSUME InsertGroup(r) PROVE Goal
    <2>1. Left = 7 /\ Goto(r, MoveStep(old), old)
      BY <1>7, <1>h, CallsCounted, OrderOfCalls DEF InsertGroup
    <2> QED
      BY <1>f, <2>1, SkippedCalls
  <1>8. ASSUME FindMoves(r) PROVE Goal
    <2> DEFINE move == {m \in members : m.part \in old.add /\ m.gid # old.gid}
               j == [old EXCEPT !.move = move]
    <2>1. Left = 6
      BY <1>8, <1>h, CallsCounted, OrderOfCalls DEF FindMoves
    <2>2. Goto(r, "removeMoves", j) \/ Goto(r, LeaveStep(j), j)
      BY <1>8 DEF FindMoves
    <2> HIDE DEF j
    <2> QED
      BY <1>f, <1>h, <2>1, <2>2, SkippedCalls, OrderOfCalls
  <1>9. ASSUME RemoveMoves(r) PROVE Goal
    <2> DEFINE j == [old EXCEPT !.move = {}]
    <2>1. Left = 5
      BY <1>9, <1>h, CallsCounted, OrderOfCalls DEF RemoveMoves
    <2>2. Goto(r, LeaveStep(old), j)
      BY <1>9 DEF RemoveMoves
    <2> HIDE DEF j
    <2> QED
      BY <1>f, <2>1, <2>2, SkippedCalls
  <1>10. ASSUME RemoveLeavers(r) PROVE Goal
    <2> DEFINE j == [old EXCEPT !.leave = {}]
    <2>1. Left = 4
      BY <1>10, <1>h, CallsCounted, OrderOfCalls DEF RemoveLeavers
    <2>2. Goto(r, AddStep(old), j)
      BY <1>10 DEF RemoveLeavers
    <2> HIDE DEF j
    <2> QED
      BY <1>f, <2>1, <2>2, SkippedCalls
  <1>11. ASSUME AddMembers(r) PROVE Goal
    <2> DEFINE j == [old EXCEPT !.add = {}]
    <2>1. Left = 3
      BY <1>11, <1>h, CallsCounted, OrderOfCalls DEF AddMembers
    <2>2. Goto(r, "failed", j) \/ Goto(r, "done", j) \/ Goto(r, "saveGroup", j)
      BY <1>11 DEF AddMembers
    <2> HIDE DEF j
    <2> QED
      BY <1>f, <1>g, <1>h, <2>1, <2>2, OrderOfCalls
  <1>12. ASSUME SaveGroup(r) \/ ReinsertGroup(r) \/ RemoveGroup(r) PROVE Goal
    <2>1. \/ Left = 2 /\ (Goto(r, "done", old) \/ Goto(r, "reinsertGroup", old))
          \/ Left = 1 /\ (Goto(r, "done", old) \/ Goto(r, "failed", old))
      BY <1>12, <1>h, CallsCounted, OrderOfCalls DEF SaveGroup, ReinsertGroup, RemoveGroup
    <2> QED
      BY <1>f, <1>g, <1>h, <2>1, OrderOfCalls
  <1>13. ASSUME Abort(r) PROVE Goal
    <2>1. pc[r] \in Steps \ (Ended \cup {"idle"}) /\ Goto(r, "failed", NoJob)
      BY <1>13, <1>a DEF Abort
    <2>2. 0 < Left
      <3>1. CASE pc[r] \in Asking
        <4>1. /\ MaxAttempts * Cardinality(Students) \in Nat
              /\ MaxAttempts * Cardinality(old.wanted) \in Nat
              /\ MaxAttempts * Cardinality(old.add) \in Nat
          BY <1>c, <1>d, <1>e, AttemptsGrow
        <4> QED
          BY <1>t, <3>1, <4>1, CallsCounted, GroupAssumption DEF Asking
      <3>2. CASE pc[r] \notin Asking
        <4>1. Left = CallsFrom[pc[r]]
          BY <2>1, <3>2, CallsCounted
        <4> QED
          BY <2>1, <3>2, <4>1, OrderOfCalls DEF Steps, AfterNicknames, Ended, Asking
      <3> QED
        BY <3>1, <3>2
    <2> QED
      BY <1>f, <1>g, <2>1, <2>2, OrderOfCalls
  <1> QED
    BY <1>1, <1>2, <1>3, <1>4, <1>5, <1>6, <1>7, <1>8, <1>9, <1>10, <1>11, <1>12, <1>13
       DEF Step, Goal

\* A request that begins draws nothing yet.
LEMMA BeginDrawsNothing ==
  ASSUME NEW r \in Requests, Begin(r)
  PROVE  pc[r] = "idle" /\ \E step, j : Goto(r, step, j) /\ step # "drawNickname"
  <1>1. ASSUME NEW u \in Users, NEW c \in Classes, NEW S \in SUBSET Students, CreateGroup(r, u, c, S)
        PROVE  pc[r] = "idle" /\ \E step, j : Goto(r, step, j) /\ step # "drawNickname"
    <2> DEFINE j == NewJob("create", r, c, ParticipantsOf(c, S))
    <2>1. Goto(r, NicknameStep(j), j) \/ Goto(r, "failed", j)
      BY <1>1 DEF CreateGroup
    <2>2. NicknameStep(j) # "drawNickname"
      BY SkippedCalls DEF Asking
    <2> HIDE DEF j
    <2> QED
      BY <1>1, <2>1, <2>2 DEF CreateGroup
  <1>2. ASSUME NEW u \in Users, NEW g \in groups, UpdateGroup(r, u, g) \/ DeleteGroup(r, u, g)
        PROVE  pc[r] = "idle" /\ \E step, j : Goto(r, step, j) /\ step # "drawNickname"
    BY <1>2 DEF UpdateGroup, DeleteGroup
  <1> QED
    BY <1>1, <1>2 DEF Begin

\* With finitely many students a call of a request always leaves it fewer calls to make: at most
\* MaxAttempts for each participant still without a nickname, and one for each step of its handler.
\* No retry, and nothing that other requests do, lengthens what a request has begun.
THEOREM CallsBounded ==
  ASSUME IsFiniteSet(Students)
  PROVE  Spec => CallsCountDown
  <1> DEFINE Counted(r) ==
        pc[r] # "idle" /\ (pc'[r] # pc[r] \/ job'[r] # job[r]) =>
          /\ CallsLeft(pc'[r], job'[r]) \in Nat
          /\ CallsLeft(pc'[r], job'[r]) < CallsLeft(pc[r], job[r])
  <1>1. ASSUME TypeOK, ListsInv, TodoInv, [Next]_vars
        PROVE  TodoInv' /\ \A r \in Requests : Counted(r)
    <2>a. ControlType
      BY <1>1 DEF TypeOK, ControlType
    <2>1. ASSUME UNCHANGED <<pc, job>>
          PROVE  TodoInv' /\ \A r \in Requests : Counted(r)
      BY <1>1, <2>1 DEF TodoInv
    <2>2. ASSUME NEW r \in Requests, NEW step, NEW j, Goto(r, step, j),
                 step = "drawNickname" => IsFiniteSet(j.todo) /\ j.todo # {},
                 pc[r] # "idle" => step \in Steps /\ Closer(r, step, j)
          PROVE  TodoInv' /\ \A q \in Requests : Counted(q)
      <3>1. /\ pc'[r] = step
            /\ job'[r] = IF step \in Ended THEN NoJob ELSE j
            /\ \A q \in Requests : q # r => pc'[q] = pc[q] /\ job'[q] = job[q]
        BY <2>a, <2>2, GotoMovesOne
      <3>2. ASSUME pc[r] # "idle" PROVE CallsLeft(step, job'[r]) = CallsLeft(step, j)
        BY <2>2, <3>1, <3>2, CallsCounted DEF Asking, Ended
      <3>3. Counted(r)
        BY <2>2, <3>1, <3>2 DEF Closer
      <3>4. TodoInv'
        BY <1>1, <2>2, <3>1 DEF TodoInv, Ended
      <3> QED
        BY <3>1, <3>3, <3>4
    <2>3. ASSUME NEW r \in Requests, Begin(r)
          PROVE  TodoInv' /\ \A q \in Requests : Counted(q)
      BY <2>2, <2>3, BeginDrawsNothing
    <2>4. ASSUME NEW r \in Requests, Step(r) \/ Abort(r)
          PROVE  TodoInv' /\ \A q \in Requests : Counted(q)
      BY <1>1, <2>2, <2>4, StepCounts
    <2> QED
      BY <1>1, <2>1, <2>3, <2>4 DEF Next, JoinClass, vars
  <1>2. Init => TodoInv
    BY DEF Init, TodoInv
  <1>3. Spec => [](TypeOK /\ ListsInv)
    BY TypeCorrect, ListsInit, ListsStep, PTL DEF Spec
  <1>4. TypeOK /\ ListsInv /\ TodoInv /\ [Next]_vars => TodoInv'
    BY <1>1
  <1>5. TypeOK /\ ListsInv /\ TodoInv /\ [Next]_vars => [\A r \in Requests : Counted(r)]_vars
    BY <1>1
  <1> QED
    BY <1>2, <1>3, <1>4, <1>5, PTL DEF Spec, CallsCountDown
=============================================================================
