-------------------------- MODULE GroupServiceProofs --------------------------
(***************************************************************************)
(* Machine-checked proofs about GroupService, for any number of requests,  *)
(* classes, students and nicknames and any bound on the attempts.          *)
(***************************************************************************)
EXTENDS GroupService, TLAPS

-----------------------------------------------------------------------------
(* Type correctness *)

ControlType ==
  /\ pc \in [Requests -> Steps]
  /\ job \in [Requests -> Jobs \cup {NoJob}]
  /\ \A r \in Requests : pc[r] \notin Ended \cup {"idle"} => job[r] \in Jobs

\* Goto moves one request and leaves every other request as it was.
LEMMA GotoMovesOne ==
  ASSUME ControlType, NEW r \in Requests, NEW step, NEW j, Goto(r, step, j)
  PROVE  /\ pc'[r] = step
         /\ job'[r] = IF step \in Ended THEN NoJob ELSE j
         /\ \A q \in Requests : q # r => pc'[q] = pc[q] /\ job'[q] = job[q]
  BY DEF Goto, ControlType

\* Going to a step with well-formed locals keeps the control state well-formed.
LEMMA GotoType ==
  ASSUME ControlType, NEW r \in Requests, NEW step \in Steps, NEW j,
         step \notin Ended => j \in Jobs, Goto(r, step, j)
  PROVE  ControlType'
  BY DEF Goto, ControlType

\* A request that begins has well-formed locals.
LEMMA NewJobType ==
  ASSUME NEW op \in {"create", "update", "delete"}, NEW gid \in Requests, NEW cls \in Classes,
         NEW found \in SUBSET Participants
  PROVE  NewJob(op, gid, cls, found) \in Jobs
  BY GroupAssumption DEF NewJob, Jobs

\* Whatever the locals, the control-flow operators name a step.
LEMMA NextSteps ==
  ASSUME NEW j
  PROVE  /\ AddStep(j) \in Steps
         /\ LeaveStep(j) \in Steps
         /\ MoveStep(j) \in Steps
         /\ NamedStep(j) \in Steps
         /\ NicknameStep(j) \in Steps
  BY DEF AddStep, LeaveStep, MoveStep, NamedStep, NicknameStep, Steps, AfterNicknames, Ended

\* The initial state is well-formed.
LEMMA InitType == Init => TypeOK
  BY DEF Init, TypeOK, Steps

\* Every step keeps every table, and every request, well-formed.
LEMMA StepType == TypeOK /\ [Next]_vars => TypeOK'
  <1> SUFFICES ASSUME TypeOK, [Next]_vars PROVE TypeOK'
    OBVIOUS
  <1> USE DEF TypeOK
  <1>c. ControlType
    BY DEF ControlType
  <1>1. ASSUME NEW c \in Classes, NEW s \in Students, JoinClass(c, s) PROVE TypeOK'
    BY <1>1 DEF JoinClass, Participants
  <1>2. ASSUME NEW r \in Requests, Begin(r) PROVE TypeOK'
    <2> PICK u \in Users : \/ \E c \in Classes, S \in SUBSET Students : CreateGroup(r, u, c, S)
                           \/ \E g \in groups : UpdateGroup(r, u, g) \/ DeleteGroup(r, u, g)
      BY <1>2 DEF Begin
    <2>1. ASSUME NEW c \in Classes, NEW S \in SUBSET Students, CreateGroup(r, u, c, S)
          PROVE  TypeOK'
      <3> DEFINE j == NewJob("create", r, c, ParticipantsOf(c, S))
      <3>2. j \in Jobs
        BY NewJobType DEF ParticipantsOf
      <3>3. UNCHANGED tables
        BY <2>1 DEF CreateGroup
      <3>4. \E step \in Steps : Goto(r, step, j)
        BY <2>1, NextSteps DEF CreateGroup, Steps, Ended
      <3> QED
        BY <3>2, <3>3, <3>4, <1>c, GotoType DEF tables, ControlType
    <2>2. ASSUME NEW g \in groups, UpdateGroup(r, u, g) PROVE TypeOK'
      <3> DEFINE j == NewJob("update", g.gid, g.cls, {})
      <3>1. j \in Jobs
        BY NewJobType DEF GroupRows
      <3>2. \E step \in Steps : Goto(r, step, j)
        BY <2>2 DEF UpdateGroup, Steps, Ended
      <3> QED
        BY <2>2, <3>1, <3>2, <1>c, GotoType DEF tables, ControlType, UpdateGroup
    <2>3. ASSUME NEW g \in groups, DeleteGroup(r, u, g) PROVE TypeOK'
      <3> DEFINE j == NewJob("delete", g.gid, g.cls, {})
      <3>1. j \in Jobs
        BY NewJobType DEF GroupRows
      <3>2. \E step \in Steps : Goto(r, step, j)
        BY <2>3 DEF DeleteGroup, Steps, Ended
      <3> QED
        BY <2>3, <3>1, <3>2, <1>c, GotoType DEF tables, ControlType, DeleteGroup
    <2> QED
      BY <2>1, <2>2, <2>3
  <1>3. ASSUME NEW r \in Requests, Step(r) PROVE TypeOK'
    <2> DEFINE old == job[r]
    <2>0. old \in Jobs
      BY <1>3 DEF Step, FindParticipants, FindMembers, FindNicknames, DrawNickname, RefuseNickname,
           SaveNicknames, InsertGroup, FindMoves, RemoveMoves, RemoveLeavers, AddMembers,
           SaveGroup, ReinsertGroup, RemoveGroup, Ended
    <2>a. ASSUME UNCHANGED tables, NEW step \in Steps, NEW j \in Jobs, Goto(r, step, j)
          PROVE  TypeOK'
      BY <2>a, <1>c, GotoType DEF tables, ControlType
    <2>1. ASSUME NEW S \in SUBSET Students, FindParticipants(r, S) PROVE TypeOK'
      <3>1. [old EXCEPT !.wanted = ParticipantsOf(old.cls, S)] \in Jobs
        BY <2>0 DEF Jobs, ParticipantsOf
      <3>2. {"failed", "findMembers"} \subseteq Steps
        BY DEF Steps, Ended
      <3> QED
        BY <2>1, <3>1, <3>2, <2>a DEF FindParticipants
    <2>2. ASSUME FindMembers(r) PROVE TypeOK'
      <3> DEFINE current == {m \in members : m.gid = old.gid}
                 j == [old EXCEPT !.add = old.wanted \ {m.part : m \in current},
                                  !.leave = {m \in current : m.part \notin old.wanted}]
      <3>1. j \in Jobs
        BY <2>0 DEF Jobs
      <3>2. Goto(r, NicknameStep(j), j) /\ UNCHANGED tables
        BY <2>2 DEF FindMembers
      <3> QED
        BY <3>1, <3>2, <2>a, NextSteps
    <2>3. ASSUME FindNicknames(r) PROVE TypeOK'
      <3> DEFINE existing == {n.part : n \in {n \in nicknames : n.cls = old.cls}}
                 left == old.add \ existing
                 j == [old EXCEPT !.todo = left, !.drawn = {}, !.tries = 0]
      <3>1. j \in Jobs
        <4>1. left \in SUBSET Participants /\ 0 \in 0..(MaxAttempts - 1)
          BY <2>0, GroupAssumption DEF Jobs
        <4> HIDE DEF left
        <4> QED
          BY <2>0, <4>1 DEF Jobs
      <3>2. Goto(r, IF j.todo = {} THEN NamedStep(j) ELSE "drawNickname", j) /\ UNCHANGED tables
        BY <2>3 DEF FindNicknames
      <3>3. "drawNickname" \in Steps
        BY DEF Steps
      <3> QED
        BY <3>1, <3>2, <3>3, <2>a, NextSteps
    <2>4. ASSUME NEW p \in Participants, NEW n \in Names, DrawNickname(r, p, n) PROVE TypeOK'
      <3> DEFINE left == old.todo \ {p}
                 batch == old.drawn \cup {[part |-> p, name |-> n]}
                 j == [old EXCEPT !.todo = left, !.tries = 0, !.drawn = batch]
      <3>1. j \in Jobs
        <4>1. left \in SUBSET Participants /\ 0 \in 0..(MaxAttempts - 1)
          BY <2>0, GroupAssumption DEF Jobs
        <4>2. batch \in SUBSET Draws
          BY <2>0 DEF Jobs, Draws
        <4> HIDE DEF left, batch
        <4> QED
          BY <2>0, <4>1, <4>2 DEF Jobs
      <3>2. Goto(r, IF j.todo = {} THEN "saveNicknames" ELSE "drawNickname", j)
        BY <2>4 DEF DrawNickname
      <3>3. {"saveNicknames", "drawNickname"} \subseteq Steps
        BY DEF Steps
      <3>4. ControlType'
        BY <3>1, <3>2, <3>3, <1>c, GotoType
      <3> QED
        BY <2>4, <3>4 DEF DrawNickname, ControlType
    <2>5. ASSUME RefuseNickname(r) PROVE TypeOK'
      <3> DEFINE j == [old EXCEPT !.tries = @ + 1]
      <3>1. Goto(r, IF j.tries = MaxAttempts THEN "failed" ELSE "drawNickname", j)
              /\ UNCHANGED tables
        BY <2>5 DEF RefuseNickname
      <3>2. {"failed", "drawNickname"} \subseteq Steps
        BY DEF Steps, Ended
      <3>3. j.tries # MaxAttempts => j \in Jobs
        <4>1. old.tries \in 0..(MaxAttempts - 1) /\ j.tries = old.tries + 1
          BY <2>0 DEF Jobs
        <4>2. j.tries # MaxAttempts => j.tries \in 0..(MaxAttempts - 1)
          BY <4>1, GroupAssumption
        <4> QED
          BY <2>0, <4>2 DEF Jobs
      <3>4. ControlType'
        <4>1. CASE j.tries = MaxAttempts
          BY <3>1, <3>2, <4>1, <1>c, GotoType DEF Ended
        <4>2. CASE j.tries # MaxAttempts
          BY <3>1, <3>2, <3>3, <4>2, <1>c, GotoType
        <4> QED
          BY <4>1, <4>2
      <3> QED
        BY <3>1, <3>4 DEF tables, ControlType
    <2>6. ASSUME SaveNicknames(r) PROVE TypeOK'
      <3> DEFINE rows == {[cls |-> old.cls, part |-> d.part, name |-> d.name] : d \in old.drawn}
                 j == [old EXCEPT !.drawn = {}]
      <3>1. j \in Jobs
        BY <2>0 DEF Jobs
      <3>2. \E step \in Steps : Goto(r, step, j)
        BY <2>6, NextSteps DEF SaveNicknames, Steps, Ended
      <3>3. ControlType'
        BY <3>1, <3>2, <1>c, GotoType
      <3>4. nicknames' = nicknames \/ nicknames' = nicknames \cup rows
        BY <2>6 DEF SaveNicknames
      <3>5. rows \subseteq NicknameRows
        BY <2>0 DEF Jobs, Draws, NicknameRows
      <3> QED
        BY <2>6, <3>3, <3>4, <3>5 DEF SaveNicknames, ControlType
    <2>7. ASSUME InsertGroup(r) PROVE TypeOK'
      <3>1. ControlType'
        BY <2>7, <2>0, <1>c, GotoType, NextSteps DEF InsertGroup
      <3> QED
        BY <2>7, <2>0, <3>1 DEF InsertGroup, ControlType, GroupRows, Jobs
    <2>8. ASSUME FindMoves(r) PROVE TypeOK'
      <3> DEFINE found == {m \in members : m.part \in old.add /\ m.gid # old.gid}
                 j == [old EXCEPT !.move = found]
      <3>1. j \in Jobs
        <4>1. found \in SUBSET MemberRows
          OBVIOUS
        <4> HIDE DEF found
        <4> QED
          BY <2>0, <4>1 DEF Jobs
      <3>2. Goto(r, IF found # {} THEN "removeMoves" ELSE LeaveStep(j), j) /\ UNCHANGED tables
        BY <2>8, <2>0 DEF FindMoves, Jobs
      <3>3. "removeMoves" \in Steps
        BY DEF Steps, AfterNicknames
      <3> QED
        BY <3>1, <3>2, <3>3, <2>a, NextSteps
    <2>9. ASSUME RemoveMoves(r) PROVE TypeOK'
      <3>1. [old EXCEPT !.move = {}] \in Jobs
        BY <2>0 DEF Jobs
      <3>2. ControlType'
        BY <2>9, <3>1, <1>c, GotoType, NextSteps DEF RemoveMoves
      <3> QED
        BY <2>9, <3>2 DEF RemoveMoves, ControlType
    <2>10. ASSUME RemoveLeavers(r) PROVE TypeOK'
      <3>1. [old EXCEPT !.leave = {}] \in Jobs
        BY <2>0 DEF Jobs
      <3>2. ControlType'
        BY <2>10, <3>1, <1>c, GotoType, NextSteps DEF RemoveLeavers
      <3> QED
        BY <2>10, <3>2 DEF RemoveLeavers, ControlType
    <2>11. ASSUME AddMembers(r) PROVE TypeOK'
      <3> DEFINE rows == {[gid |-> old.gid, part |-> p, by |-> r] : p \in old.add}
                 j == [old EXCEPT !.add = {}]
      <3>1. j \in Jobs
        BY <2>0 DEF Jobs
      <3>2. \E step \in Steps : Goto(r, step, j)
        BY <2>11 DEF AddMembers, Steps, Ended
      <3>3. ControlType'
        BY <3>1, <3>2, <1>c, GotoType
      <3>4. rows \subseteq MemberRows
        BY <2>0 DEF Jobs, MemberRows
      <3>5. members' = members \/ members' = members \cup rows
        BY <2>11 DEF AddMembers
      <3> QED
        BY <2>11, <3>3, <3>4, <3>5 DEF AddMembers, ControlType
    <2>12. ASSUME SaveGroup(r) PROVE TypeOK'
      BY <2>12, <2>0, <2>a DEF SaveGroup, Steps, Ended
    <2>13. ASSUME ReinsertGroup(r) PROVE TypeOK'
      <3>1. \E step \in Steps : Goto(r, step, old)
        BY <2>13 DEF ReinsertGroup, Steps, Ended
      <3>2. ControlType'
        BY <3>1, <2>0, <1>c, GotoType
      <3>3. groups' = groups \/ groups' = groups \cup {[gid |-> old.gid, cls |-> old.cls]}
        BY <2>13 DEF ReinsertGroup
      <3> QED
        BY <2>13, <2>0, <3>2, <3>3 DEF ReinsertGroup, ControlType, GroupRows, Jobs
    <2>14. ASSUME RemoveGroup(r) PROVE TypeOK'
      <3>1. ControlType'
        BY <2>14, <2>0, <1>c, GotoType DEF RemoveGroup, Steps, Ended
      <3> QED
        BY <2>14, <3>1 DEF RemoveGroup, ControlType
    <2> QED
      BY <1>3, <2>1, <2>2, <2>3, <2>4, <2>5, <2>6, <2>7, <2>8, <2>9, <2>10, <2>11, <2>12, <2>13,
         <2>14 DEF Step
  <1>4. ASSUME NEW r \in Requests, Abort(r) PROVE TypeOK'
    <2>1. ControlType'
      BY <1>4, <1>c, GotoType DEF Abort, Steps, Ended
    <2> QED
      BY <1>4, <2>1 DEF Abort, tables, ControlType
  <1>5. CASE UNCHANGED vars
    BY <1>5 DEF vars, tables
  <1> QED
    BY <1>1, <1>2, <1>3, <1>4, <1>5 DEF Next

\* Every reachable state of the group requests is well-formed.
THEOREM TypeCorrect == Spec => []TypeOK
  BY InitType, StepType, PTL DEF Spec
-----------------------------------------------------------------------------
(* Anonymity: every member has a nickname *)

\* Once past the nickname step, a request only adds participants that have a nickname; during that
\* step, those that have none are still to be drawn for or hold a drawn one.
NicknamedJob(step, j, named) ==
  /\ step \in AfterNicknames => j.add \subseteq named
  /\ step \in {"drawNickname", "saveNicknames"} =>
       j.add \subseteq named \cup j.todo \cup {d.part : d \in j.drawn}
  /\ step = "saveNicknames" => j.todo = {}

NicknamedInv ==
  /\ MembersNicknamed
  /\ \A r \in Requests : NicknamedJob(pc[r], job[r], Named)

\* When nobody is to be added, or everybody to be added has a nickname, the rest of a request is safe.
LEMMA NicknamedNext ==
  ASSUME NEW j, NEW named, j.add \subseteq named
  PROVE  /\ NicknamedJob(AddStep(j), j, named)
         /\ NicknamedJob(LeaveStep(j), j, named)
         /\ NicknamedJob(MoveStep(j), j, named)
         /\ NicknamedJob(NamedStep(j), j, named)
         /\ NicknamedJob(NicknameStep(j), j, named)
  BY DEF NicknamedJob, AddStep, LeaveStep, MoveStep, NamedStep, NicknameStep, AfterNicknames

\* With somebody to add, the request looks for nicknames first.
LEMMA NicknamesFirst ==
  ASSUME NEW j, NEW named, j.add # {}
  PROVE  NicknamedJob(NicknameStep(j), j, named)
  BY DEF NicknamedJob, NicknameStep, AfterNicknames

\* A step of one request keeps the invariant if no nickname is lost, every member has one and the
\* request itself satisfies its part.
LEMMA NicknamedMove ==
  ASSUME ControlType, NicknamedInv, NEW r \in Requests, NEW step, NEW j, Goto(r, step, j),
         Named \subseteq Named', MembersNicknamed',
         step \in Ended \/ NicknamedJob(step, j, Named')
  PROVE  NicknamedInv'
  <1>1. ASSUME NEW q \in Requests, q # r PROVE NicknamedJob(pc[q], job[q], Named)'
    <2>1. pc'[q] = pc[q] /\ job'[q] = job[q]
      BY <1>1, GotoMovesOne
    <2>2. NicknamedJob(pc[q], job[q], Named)
      BY DEF NicknamedInv
    <2> QED
      BY <2>1, <2>2 DEF NicknamedJob
  <1>2. NicknamedJob(pc[r], job[r], Named)'
    BY GotoMovesOne DEF NicknamedJob, Ended, AfterNicknames
  <1> QED
    BY <1>1, <1>2 DEF NicknamedInv

\* The empty database names everybody who is in a group.
LEMMA NicknamedInit == Init => NicknamedInv
  BY DEF Init, NicknamedInv, MembersNicknamed, NicknamedJob, AfterNicknames

\* Every step keeps the members, and those a request is about to add, named.
LEMMA NicknamedStep == TypeOK /\ NicknamedInv /\ [Next]_vars => NicknamedInv'
  <1> SUFFICES ASSUME TypeOK, NicknamedInv, [Next]_vars PROVE NicknamedInv'
    OBVIOUS
  <1>a. ControlType
    BY DEF TypeOK, ControlType
  <1>b. UNCHANGED <<members, nicknames>> => Named \subseteq Named' /\ MembersNicknamed'
    BY DEF NicknamedInv, MembersNicknamed, Named
  <1>1. ASSUME NEW c \in Classes, NEW s \in Students, JoinClass(c, s) PROVE NicknamedInv'
    BY <1>1 DEF JoinClass, NicknamedInv, NicknamedJob, MembersNicknamed, Named
  <1>2. ASSUME NEW r \in Requests, Begin(r) PROVE NicknamedInv'
    <2>1. PICK step, j : /\ Goto(r, step, j)
                         /\ step \notin Ended => step = "findParticipants" \/ step = "removeGroup"
                                                 \/ step = NicknameStep(j)
      BY <1>2 DEF Begin, CreateGroup, UpdateGroup, DeleteGroup, Ended
    <2>2. UNCHANGED <<members, nicknames>>
      BY <1>2 DEF Begin, CreateGroup, UpdateGroup, DeleteGroup, tables
    <2>3. NicknamedJob(NicknameStep(j), j, Named')
      BY NicknamedNext, NicknamesFirst
    <2>4. step \in Ended \/ NicknamedJob(step, j, Named')
      BY <2>1, <2>3 DEF NicknamedJob, AfterNicknames
    <2> QED
      BY <2>1, <2>2, <2>4, <1>a, <1>b, NicknamedMove
  <1>3. ASSUME NEW r \in Requests, Step(r) PROVE NicknamedInv'
    <2> DEFINE old == job[r]
    <2>0. NicknamedJob(pc[r], old, Named)
      BY DEF NicknamedInv
    <2>1. ASSUME NEW S \in SUBSET Students, FindParticipants(r, S) PROVE NicknamedInv'
      BY <2>1, <1>a, <1>b, NicknamedMove
         DEF FindParticipants, tables, NicknamedJob, AfterNicknames, Ended
    <2>2. ASSUME FindMembers(r) PROVE NicknamedInv'
      <3>1. PICK j : Goto(r, NicknameStep(j), j)
        BY <2>2 DEF FindMembers
      <3>2. NicknamedJob(NicknameStep(j), j, Named')
        BY NicknamedNext, NicknamesFirst
      <3> QED
        BY <2>2, <3>1, <3>2, <1>a, <1>b, NicknamedMove DEF FindMembers, tables
    <2>3. ASSUME FindNicknames(r) PROVE NicknamedInv'
      <3> DEFINE existing == {n.part : n \in {n \in nicknames : n.cls = old.cls}}
                 j == [old EXCEPT !.todo = old.add \ existing, !.drawn = {}, !.tries = 0]
      <3>1. Goto(r, IF j.todo = {} THEN NamedStep(j) ELSE "drawNickname", j)
        BY <2>3 DEF FindNicknames
      <3>2. UNCHANGED <<members, nicknames>>
        BY <2>3 DEF FindNicknames, tables
      <3>3. old \in Jobs
        BY <2>3 DEF FindNicknames, TypeOK, Ended
      <3>4. j.add = old.add /\ j.todo = old.add \ existing
        BY <3>3 DEF Jobs
      <3>5. existing \subseteq Named /\ Named' = Named
        BY <3>2 DEF Named
      <3>6. CASE j.todo = {}
        <4>1. NicknamedJob(NamedStep(j), j, Named')
          BY <3>4, <3>5, <3>6, NicknamedNext
        <4> QED
          BY <3>1, <3>2, <3>6, <4>1, <1>a, <1>b, NicknamedMove
      <3>7. CASE j.todo # {}
        <4>1. NicknamedJob("drawNickname", j, Named')
          BY <3>4, <3>5 DEF NicknamedJob, AfterNicknames
        <4> QED
          BY <3>1, <3>2, <3>7, <4>1, <1>a, <1>b, NicknamedMove
      <3> QED
        BY <3>6, <3>7
    <2>4. ASSUME NEW p \in Participants, NEW n \in Names, DrawNickname(r, p, n)
          PROVE  NicknamedInv'
      <3> DEFINE j == [old EXCEPT !.todo = @ \ {p}, !.tries = 0,
                                  !.drawn = @ \cup {[part |-> p, name |-> n]}]
      <3>1. Goto(r, IF j.todo = {} THEN "saveNicknames" ELSE "drawNickname", j)
        BY <2>4 DEF DrawNickname
      <3>2. UNCHANGED <<members, nicknames>>
        BY <2>4 DEF DrawNickname
      <3>3. old \in Jobs /\ pc[r] = "drawNickname"
        BY <2>4 DEF DrawNickname, TypeOK, Ended
      <3>4. /\ j.add = old.add
            /\ j.todo = old.todo \ {p}
            /\ j.drawn = old.drawn \cup {[part |-> p, name |-> n]}
        BY <3>3 DEF Jobs
      <3>5. old.add \subseteq Named' \cup old.todo \cup {d.part : d \in old.drawn}
        BY <2>0, <3>2, <3>3 DEF NicknamedJob, Named
      <3>6. {d.part : d \in old.drawn} \cup {p} \subseteq {d.part : d \in j.drawn}
        <4> DEFINE new == [part |-> p, name |-> n]
        <4>1. new \in j.drawn /\ old.drawn \subseteq j.drawn /\ new.part = p
          BY <3>4
        <4> HIDE DEF j, new
        <4> QED
          BY <4>1
      <3>7. j.add \subseteq Named' \cup j.todo \cup {d.part : d \in j.drawn}
        BY <3>4, <3>5, <3>6
      <3> HIDE DEF j
      <3>8. NicknamedJob(IF j.todo = {} THEN "saveNicknames" ELSE "drawNickname", j, Named')
        BY <3>7 DEF NicknamedJob, AfterNicknames
      <3> QED
        BY <3>1, <3>2, <3>8, <1>a, <1>b, NicknamedMove
    <2>5. ASSUME RefuseNickname(r) PROVE NicknamedInv'
      <3> DEFINE j == [old EXCEPT !.tries = @ + 1]
      <3>1. old \in Jobs /\ pc[r] = "drawNickname"
        BY <2>5 DEF RefuseNickname, TypeOK, Ended
      <3>2. j.add = old.add /\ j.todo = old.todo /\ j.drawn = old.drawn
        BY <3>1 DEF Jobs
      <3>3. UNCHANGED <<members, nicknames>>
        BY <2>5 DEF RefuseNickname, tables
      <3>4. NicknamedJob("drawNickname", j, Named')
        BY <2>0, <3>1, <3>2, <3>3 DEF NicknamedJob, Named, AfterNicknames
      <3>5. \/ Goto(r, "failed", j)
            \/ Goto(r, "drawNickname", j)
        BY <2>5 DEF RefuseNickname
      <3> HIDE DEF j
      <3> QED
        BY <3>3, <3>4, <3>5, <1>a, <1>b, NicknamedMove DEF Ended
    <2>6. ASSUME SaveNicknames(r) PROVE NicknamedInv'
      <3> DEFINE rows == {[cls |-> old.cls, part |-> d.part, name |-> d.name] : d \in old.drawn}
                 j == [old EXCEPT !.drawn = {}]
      <3>1. old \in Jobs /\ pc[r] = "saveNicknames"
        BY <2>6 DEF SaveNicknames, TypeOK, Ended
      <3>2. \/ nicknames' = nicknames /\ Goto(r, "failed", j)
            \/ nicknames' = nicknames \cup rows /\ Goto(r, NamedStep(j), j)
        BY <2>6 DEF SaveNicknames
      <3>3. Named \subseteq Named' /\ MembersNicknamed'
        BY <2>6, <3>2 DEF SaveNicknames, Named, MembersNicknamed, NicknamedInv
      <3>4. ASSUME nicknames' = nicknames \cup rows PROVE NicknamedJob(NamedStep(j), j, Named')
        <4>1. ASSUME NEW d \in old.drawn PROVE d.part \in Named'
          <5>1. [cls |-> old.cls, part |-> d.part, name |-> d.name] \in nicknames'
            BY <3>4
          <5> QED
            BY <5>1 DEF Named
        <4>2. j.add = old.add
          BY <3>1 DEF Jobs
        <4>3. old.add \subseteq Named'
          BY <2>0, <3>1, <3>3, <4>1 DEF NicknamedJob
        <4> QED
          BY <4>2, <4>3, NicknamedNext
      <3> HIDE DEF j
      <3> QED
        BY <3>2, <3>3, <3>4, <1>a, NicknamedMove DEF Ended
    <2>7. ASSUME InsertGroup(r) PROVE NicknamedInv'
      <3>1. old.add \subseteq Named'
        BY <2>7, <2>0 DEF InsertGroup, NicknamedJob, AfterNicknames, Named
      <3> QED
        BY <2>7, <3>1, <1>a, <1>b, NicknamedMove, NicknamedNext DEF InsertGroup
    <2>8. ASSUME FindMoves(r) PROVE NicknamedInv'
      <3> DEFINE j == [old EXCEPT !.move = {m \in members :
                                              m.part \in old.add /\ m.gid # old.gid}]
      <3>1. j.add = old.add
        BY <2>8 DEF FindMoves, TypeOK, Ended, Jobs
      <3>2. j.add \subseteq Named'
        BY <2>8, <2>0, <3>1 DEF FindMoves, NicknamedJob, AfterNicknames, Named, tables
      <3>3. Goto(r, "removeMoves", j) \/ Goto(r, LeaveStep(j), j)
        BY <2>8 DEF FindMoves
      <3>4. UNCHANGED <<members, nicknames>>
        BY <2>8 DEF FindMoves, tables
      <3> HIDE DEF j
      <3>5. NicknamedJob("removeMoves", j, Named') /\ NicknamedJob(LeaveStep(j), j, Named')
        BY <3>2, NicknamedNext DEF NicknamedJob
      <3> QED
        BY <3>3, <3>4, <3>5, <1>a, <1>b, NicknamedMove
    <2>9. ASSUME RemoveMoves(r) PROVE NicknamedInv'
      <3> DEFINE j == [old EXCEPT !.move = {}]
      <3>1. j.add = old.add
        BY <2>9 DEF RemoveMoves, TypeOK, Ended, Jobs
      <3>2. Named' = Named /\ MembersNicknamed'
        BY <2>9 DEF RemoveMoves, NicknamedInv, MembersNicknamed, Named
      <3>3. j.add \subseteq Named'
        BY <2>9, <2>0, <3>1, <3>2 DEF RemoveMoves, NicknamedJob, AfterNicknames
      <3>4. Goto(r, LeaveStep(old), j) /\ LeaveStep(old) = LeaveStep(j)
        BY <2>9, <3>1 DEF RemoveMoves, TypeOK, Ended, Jobs, LeaveStep, AddStep
      <3> HIDE DEF j
      <3> QED
        BY <3>2, <3>3, <3>4, <1>a, NicknamedMove, NicknamedNext
    <2>10. ASSUME RemoveLeavers(r) PROVE NicknamedInv'
      <3> DEFINE j == [old EXCEPT !.leave = {}]
      <3>1. j.add = old.add
        BY <2>10 DEF RemoveLeavers, TypeOK, Ended, Jobs
      <3>2. Named' = Named /\ MembersNicknamed'
        BY <2>10 DEF RemoveLeavers, NicknamedInv, MembersNicknamed, Named
      <3>3. j.add \subseteq Named'
        BY <2>10, <2>0, <3>1, <3>2 DEF RemoveLeavers, NicknamedJob, AfterNicknames
      <3>4. Goto(r, AddStep(old), j) /\ AddStep(old) = AddStep(j)
        BY <2>10, <3>1 DEF RemoveLeavers, TypeOK, Ended, Jobs, AddStep
      <3> HIDE DEF j
      <3> QED
        BY <3>2, <3>3, <3>4, <1>a, NicknamedMove, NicknamedNext
    <2>11. ASSUME AddMembers(r) PROVE NicknamedInv'
      <3> DEFINE rows == {[gid |-> old.gid, part |-> p, by |-> r] : p \in old.add}
                 j == [old EXCEPT !.add = {}]
      <3>1. old.add \subseteq Named
        BY <2>11, <2>0 DEF AddMembers, NicknamedJob, AfterNicknames
      <3>2. members' \subseteq members \cup rows /\ nicknames' = nicknames
        BY <2>11 DEF AddMembers
      <3>3. Named' = Named /\ MembersNicknamed'
        BY <3>1, <3>2 DEF Named, MembersNicknamed, NicknamedInv
      <3>4. \E step \in {"done", "failed", "saveGroup"} : Goto(r, step, j)
        BY <2>11 DEF AddMembers
      <3>5. NicknamedJob("saveGroup", j, Named')
        BY DEF NicknamedJob, AfterNicknames
      <3> HIDE DEF j
      <3> QED
        BY <3>3, <3>4, <3>5, <1>a, NicknamedMove DEF Ended
    <2>12. ASSUME SaveGroup(r) PROVE NicknamedInv'
      <3>1. NicknamedJob("reinsertGroup", old, Named')
        BY DEF NicknamedJob, AfterNicknames
      <3> QED
        BY <2>12, <3>1, <1>a, <1>b, NicknamedMove DEF SaveGroup, tables, Ended
    <2>13. ASSUME ReinsertGroup(r) PROVE NicknamedInv'
      BY <2>13, <1>a, <1>b, NicknamedMove DEF ReinsertGroup, Ended
    <2>14. ASSUME RemoveGroup(r) PROVE NicknamedInv'
      <3>1. Named' = Named /\ MembersNicknamed'
        BY <2>14 DEF RemoveGroup, NicknamedInv, MembersNicknamed, Named
      <3> QED
        BY <2>14, <3>1, <1>a, NicknamedMove DEF RemoveGroup, Ended
    <2> QED
      BY <1>3, <2>1, <2>2, <2>3, <2>4, <2>5, <2>6, <2>7, <2>8, <2>9, <2>10, <2>11, <2>12, <2>13,
         <2>14 DEF Step
  <1>4. ASSUME NEW r \in Requests, Abort(r) PROVE NicknamedInv'
    BY <1>4, <1>a, <1>b, NicknamedMove DEF Abort, tables, Ended
  <1>5. CASE UNCHANGED vars
    BY <1>5 DEF vars, tables, NicknamedInv, NicknamedJob, MembersNicknamed, Named
  <1> QED
    BY <1>1, <1>2, <1>3, <1>4, <1>5 DEF Next

\* However the requests interleave, fail or are cut short, nobody is in a group without a nickname.
THEOREM Anonymity == Spec => []MembersNicknamed
  <1>1. NicknamedInv => MembersNicknamed
    BY DEF NicknamedInv
  <1> QED
    BY <1>1, TypeCorrect, NicknamedInit, NicknamedStep, PTL DEF Spec
-----------------------------------------------------------------------------
(* Nicknames are unique *)

\* A reserved name belongs to one place at most: a row of the nickname table, or the batch of one
\* running request; and a batch names each participant once.
NamesInv ==
  /\ UniqueNicknames
  /\ \A n \in nicknames : n.name \in reservations
  /\ \A r \in Requests : \A d \in job[r].drawn :
       /\ d.name \in reservations
       /\ d.part \notin job[r].todo
       /\ \A n \in nicknames : n.name # d.name
       /\ \A e \in job[r].drawn : d.part = e.part => d = e
  /\ \A q, r \in Requests : \A d \in job[q].drawn, e \in job[r].drawn :
       d.name = e.name => q = r /\ d = e

\* The batch of r after a step is its batch before, or it is empty.
KeepsBatch(r, j) == j.drawn = {} \/ (j.drawn = job[r].drawn /\ j.todo = job[r].todo)

\* A step that leaves nicknames and reservations alone, and keeps or drops its batch, keeps NamesInv.
LEMMA NamesMove ==
  ASSUME ControlType, NamesInv, NEW r \in Requests, NEW step, NEW j, Goto(r, step, j),
         KeepsBatch(r, j), UNCHANGED <<nicknames, reservations>>
  PROVE  NamesInv'
  <1>1. \A q \in Requests : \/ job'[q].drawn = {}
                            \/ job'[q].drawn = job[q].drawn /\ job'[q].todo = job[q].todo
    BY GotoMovesOne DEF KeepsBatch, NoJob, NewJob
  <1> QED
    BY <1>1 DEF NamesInv, UniqueNicknames

\* Every step but the two that draw and save nicknames keeps the batch.
LEMMA OtherStepsKeepBatch ==
  ASSUME TypeOK, NEW r \in Requests,
         \/ Begin(r)
         \/ \E S \in SUBSET Students : FindParticipants(r, S)
         \/ FindMembers(r) \/ FindNicknames(r) \/ RefuseNickname(r) \/ InsertGroup(r)
         \/ FindMoves(r) \/ RemoveMoves(r) \/ RemoveLeavers(r) \/ AddMembers(r) \/ SaveGroup(r)
         \/ ReinsertGroup(r) \/ RemoveGroup(r) \/ Abort(r)
  PROVE  /\ UNCHANGED <<nicknames, reservations>>
         /\ \E step, j : Goto(r, step, j) /\ KeepsBatch(r, j)
  <1> DEFINE old == job[r]
  <1> USE DEF KeepsBatch
  <1>a. pc[r] \notin Ended \cup {"idle"} => old \in Jobs
    BY DEF TypeOK
  <1>1. CASE Begin(r)
    <2>1. UNCHANGED <<nicknames, reservations>>
      BY <1>1 DEF Begin, CreateGroup, UpdateGroup, DeleteGroup, tables
    <2>2. \E step, op, gid, cls, found : Goto(r, step, NewJob(op, gid, cls, found))
      BY <1>1 DEF Begin, CreateGroup, UpdateGroup, DeleteGroup
    <2>3. \A op, gid, cls, found : NewJob(op, gid, cls, found).drawn = {}
      BY DEF NewJob
    <2> QED
      BY <2>1, <2>2, <2>3
  <1>2. ASSUME NEW S \in SUBSET Students, FindParticipants(r, S)
        PROVE  /\ UNCHANGED <<nicknames, reservations>>
               /\ \E step, j : Goto(r, step, j) /\ KeepsBatch(r, j)
    BY <1>2, <1>a DEF FindParticipants, tables, Ended, Jobs
  <1>3. CASE FindMembers(r)
    <2> DEFINE current == {m \in members : m.gid = old.gid}
               add == old.wanted \ {m.part : m \in current}
               leave == {m \in current : m.part \notin old.wanted}
               j == [old EXCEPT !.add = add, !.leave = leave]
    <2>1. Goto(r, NicknameStep(j), j) /\ UNCHANGED <<nicknames, reservations>> /\ old \in Jobs
      BY <1>3, <1>a DEF FindMembers, tables, Ended
    <2>2. j.drawn = old.drawn /\ j.todo = old.todo
      <3> HIDE DEF add, leave
      <3> QED
        BY <2>1 DEF Jobs
    <2> HIDE DEF j
    <2> QED
      BY <2>1, <2>2
  <1>4. CASE FindNicknames(r)
    <2> DEFINE existing == {n.part : n \in {n \in nicknames : n.cls = old.cls}}
               todo == old.add \ existing
               j == [old EXCEPT !.todo = todo, !.drawn = {}, !.tries = 0]
    <2>1. /\ Goto(r, IF j.todo = {} THEN NamedStep(j) ELSE "drawNickname", j)
          /\ UNCHANGED <<nicknames, reservations>> /\ old \in Jobs
      BY <1>4, <1>a DEF FindNicknames, tables, Ended
    <2>2. j.drawn = {}
      <3> HIDE DEF todo
      <3> QED
        BY <2>1 DEF Jobs
    <2> HIDE DEF j
    <2> QED
      BY <2>1, <2>2
  <1>5. CASE RefuseNickname(r)
    BY <1>5, <1>a DEF RefuseNickname, tables, Ended, Jobs
  <1>6. CASE InsertGroup(r)
    BY <1>6 DEF InsertGroup
  <1>7. CASE FindMoves(r)
    BY <1>7, <1>a DEF FindMoves, tables, Ended, Jobs
  <1>8. CASE RemoveMoves(r)
    BY <1>8, <1>a DEF RemoveMoves, Ended, Jobs
  <1>9. CASE RemoveLeavers(r)
    BY <1>9, <1>a DEF RemoveLeavers, Ended, Jobs
  <1>10. CASE AddMembers(r)
    BY <1>10, <1>a DEF AddMembers, Ended, Jobs
  <1>11. CASE SaveGroup(r) \/ ReinsertGroup(r) \/ RemoveGroup(r)
    BY <1>11 DEF SaveGroup, ReinsertGroup, RemoveGroup, tables
  <1>12. CASE Abort(r)
    BY <1>12 DEF Abort, tables, NoJob, NewJob
  <1> QED
    BY <1>1, <1>2, <1>3, <1>4, <1>5, <1>6, <1>7, <1>8, <1>9, <1>10, <1>11, <1>12

\* The empty database holds no name twice.
LEMMA NamesInit == Init => NamesInv
  BY DEF Init, NamesInv, UniqueNicknames, NoJob, NewJob

\* Every step keeps the saved, the drawn and the reserved names apart.
LEMMA NamesStep == TypeOK /\ NamesInv /\ [Next]_vars => NamesInv'
  <1> SUFFICES ASSUME TypeOK, NamesInv, [Next]_vars PROVE NamesInv'
    OBVIOUS
  <1>a. ControlType
    BY DEF TypeOK, ControlType
  <1>1. ASSUME NEW c \in Classes, NEW s \in Students, JoinClass(c, s) PROVE NamesInv'
    BY <1>1 DEF JoinClass, NamesInv, UniqueNicknames
  <1>2. ASSUME NEW r \in Requests, NEW p \in Participants, NEW n \in Names, DrawNickname(r, p, n)
        PROVE  NamesInv'
    <2> DEFINE old == job[r]
               new == [part |-> p, name |-> n]
               j == [old EXCEPT !.todo = @ \ {p}, !.tries = 0, !.drawn = @ \cup {new}]
    <2>1. old \in Jobs
      BY <1>2 DEF DrawNickname, TypeOK, Ended
    <2>2. j.todo = old.todo \ {p} /\ j.drawn = old.drawn \cup {new}
      BY <2>1 DEF Jobs
    <2>3. Goto(r, IF j.todo = {} THEN "saveNicknames" ELSE "drawNickname", j)
      BY <1>2 DEF DrawNickname
    <2>4. /\ job'[r].todo = old.todo \ {p}
          /\ job'[r].drawn = old.drawn \cup {new}
          /\ \A q \in Requests : q # r => job'[q] = job[q]
      <3> HIDE DEF j
      <3>1. \E step : Goto(r, step, j) /\ step \notin Ended
        BY <2>3 DEF Ended
      <3> QED
        BY <2>2, <3>1, <1>a, GotoMovesOne
    <2>5. /\ p \in old.todo
          /\ n \notin reservations
          /\ reservations' = reservations \cup {n}
          /\ nicknames' = nicknames
      BY <1>2 DEF DrawNickname
    <2>6. new.part = p /\ new.name = n
      OBVIOUS
    <2> HIDE DEF new, j
    <2>7. UniqueNicknames' /\ \A m \in nicknames' : m.name \in reservations'
      BY <2>5 DEF NamesInv, UniqueNicknames
    <2>8. ASSUME NEW q \in Requests, NEW d \in job'[q].drawn
          PROVE  /\ d.name \in reservations'
                 /\ d.part \notin job'[q].todo
                 /\ \A m \in nicknames' : m.name # d.name
                 /\ \A e \in job'[q].drawn : d.part = e.part => d = e
      BY <2>4, <2>5, <2>6, <2>8 DEF NamesInv
    <2>9. ASSUME NEW q \in Requests, NEW s \in Requests,
                 NEW d \in job'[q].drawn, NEW e \in job'[s].drawn, d.name = e.name
          PROVE  q = s /\ d = e
      BY <2>4, <2>5, <2>6, <2>9 DEF NamesInv
    <2> QED
      BY <2>7, <2>8, <2>9 DEF NamesInv
  <1>3. ASSUME NEW r \in Requests, SaveNicknames(r) PROVE NamesInv'
    <2> DEFINE old == job[r]
               rows == {[cls |-> old.cls, part |-> d.part, name |-> d.name] : d \in old.drawn}
               j == [old EXCEPT !.drawn = {}]
    <2>1. old \in Jobs
      BY <1>3 DEF SaveNicknames, TypeOK, Ended
    <2>2. j.drawn = {} /\ \E step : Goto(r, step, j)
      BY <1>3, <2>1 DEF SaveNicknames, Jobs
    <2>3. job'[r].drawn = {} /\ \A q \in Requests : q # r => job'[q] = job[q]
      <3> HIDE DEF j
      <3> QED
        BY <2>2, <1>a, GotoMovesOne DEF NoJob, NewJob
    <2>4. reservations' = reservations
      BY <1>3 DEF SaveNicknames
    <2>5. \/ nicknames' = nicknames
          \/ /\ nicknames' = nicknames \cup rows
             /\ \A n \in nicknames, row \in rows : n.part # row.part
      BY <1>3 DEF SaveNicknames
    <2>6. \A row \in rows : \E d \in old.drawn :
            row.part = d.part /\ row.name = d.name /\ row.cls = old.cls
      OBVIOUS
    <2>7. \A x, y \in rows : x.name = y.name \/ x.part = y.part => x = y
      BY DEF NamesInv
    <2> HIDE DEF rows, j
    <2>8. UniqueNicknames' /\ \A n \in nicknames' : n.name \in reservations'
      BY <2>4, <2>5, <2>6, <2>7 DEF NamesInv, UniqueNicknames
    <2>9. ASSUME NEW q \in Requests, NEW d \in job'[q].drawn, NEW n \in nicknames'
          PROVE  n.name # d.name
      BY <2>3, <2>5, <2>6 DEF NamesInv
    <2> QED
      BY <2>3, <2>4, <2>8, <2>9 DEF NamesInv
  <1>4. ASSUME UNCHANGED vars PROVE NamesInv'
    BY <1>4 DEF vars, tables, NamesInv, UniqueNicknames
  <1> QED
    BY <1>1, <1>2, <1>3, <1>4, <1>a, NamesMove, OtherStepsKeepBatch DEF Next, Step

\* No two participants of the service ever share a nickname, and none has two.
THEOREM NicknamesUnique == Spec => []UniqueNicknames
  <1>1. NamesInv => UniqueNicknames
    BY DEF NamesInv
  <1> QED
    BY <1>1, TypeCorrect, NamesInit, NamesStep, PTL DEF Spec

\* Every step writes to the nickname book as NicknameBook allows: it adds entries of participants
\* and names that have none yet, or leaves the book alone.
THEOREM NicknameBookImplemented == Spec => ImplementsBook
  <1> DEFINE entries == {[part |-> n.part, name |-> n.name] : n \in nicknames}
  <1>1. Init => entries = {}
    BY DEF Init
  <1>2. TypeOK /\ TypeOK' /\ NamesInv' /\ [Next]_vars =>
          [Book!Assign]_entries
    <2> SUFFICES ASSUME TypeOK, TypeOK', NamesInv', [Next]_vars PROVE Book!Assign
      OBVIOUS
    <2>1. nicknames \subseteq nicknames'
      BY OtherStepsKeepBatch
         DEF Next, Step, JoinClass, DrawNickname, SaveNicknames, vars, tables
    <2>2. entries \subseteq entries'
      BY <2>1
    <2>3. entries' \subseteq [part : Participants, name : Names]
      BY DEF TypeOK, NicknameRows
    <2>4. \A a, b \in entries' : a.part = b.part \/ a.name = b.name => a = b
      BY DEF NamesInv, UniqueNicknames
    <2> QED
      BY <2>2, <2>3, <2>4 DEF Book!Assign, Book!Entries, Book!IsAssignment
  <1> QED
    BY <1>1, <1>2, TypeCorrect, NamesInit, NamesStep, PTL
       DEF Spec, ImplementsBook, Book!Spec, Book!Init
=============================================================================
