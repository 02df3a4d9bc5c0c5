---------------------------- MODULE GroupQueries ----------------------------
(***************************************************************************)
(* What users are shown of the tables of GroupService: the queries of      *)
(* group.service.ts and class.service.ts.  Each is one database query, so  *)
(* it sees one state, and changes nothing: an operator over that state.    *)
(* A refused query (403, 404) is one whose guard, May..., is false.        *)
(***************************************************************************)
EXTENDS GroupService

\* How somebody is displayed: under a nickname, under the real name, or under neither.
Nickname(n) == [as |-> "nickname", who |-> n]
RealName(s) == [as |-> "name", who |-> s]
Nameless    == [as |-> "placeholder", who |-> None]

\* groupNickname?.nickname ?? other
NicknameOr(p, other) ==
  IF p \in Named THEN Nickname((CHOOSE n \in nicknames : n.part = p).name) ELSE other

\* getGroupWithMembers
MembersIn(g) == {m \in members : m.gid = g.gid}

\* A participant's entries: member rows joined by class_participant_id.
EntriesOf(p) == {m \in members : m.part = p}
-----------------------------------------------------------------------------
(* What a student is shown *)

MayOpen(s, g) == \E m \in MembersIn(g) : m.part.student = s

\* Mutant: everybody is displayed as in the teacher's view.
GroupDetailByName(s, g) ==
  {[member |-> m.by, part |-> m.part, display |-> RealName(m.part.student),
    isMe |-> m.part.student = s] : m \in MembersIn(g)}
GroupDetail(s, g) ==
  {[member |-> m.by, part |-> m.part, display |-> NicknameOr(m.part, Nameless),
    isMe |-> m.part.student = s] : m \in MembersIn(g)}

\* getChatParticipantInfo and getMyGroupNickname: the name s speaks under in group g.
ChatName(s, g) ==
  LET mine == CHOOSE m \in MembersIn(g) : m.part.student = s
  IN  NicknameOr(mine.part, RealName(s))

\* getGroupAnalysisRoster and getTeacherContributionRoster: the participants the AI is told of.
Roster(g) == {NicknameOr(m.part, RealName(m.part.student)) : m \in MembersIn(g)}

\* Mutant: the group is looked up by the student, whatever the class.
GroupsOfStudent(p) == {m.gid : m \in {m \in members : m.part.student = p.student}}
\* getStudentClasses: the group of the participant, if any.
MyGroup(p) == {m.gid : m \in EntriesOf(p)}

StudentClasses(s) ==
  {[cls |-> p.cls, myGroup |-> MyGroup(p)] : p \in {p \in participants : p.student = s}}
-----------------------------------------------------------------------------
(* What the teacher of a class is shown *)

\* getTeacherClasses
TeacherClasses(u) ==
  {[cls |-> c, students |-> {p \in participants : p.cls = c}] : c \in {c \in Classes : Owner[c] = u}}

\* getTeacherOwnedClassroom, and the checks of getClassGroups and getGroupDetail
MayManage(u, c) == u = Owner[c]

\* getClassParticipants
ClassParticipants(c) ==
  {[part |-> p, display |-> RealName(p.student), nickname |-> NicknameOr(p, Nameless),
    group |-> {m.gid : m \in EntriesOf(p)}] : p \in {p \in participants : p.cls = c}}

\* getClassGroups
ClassGroups(c) ==
  {[gid |-> g.gid,
    list |-> {[part |-> m.part, display |-> RealName(m.part.student),
               nickname |-> NicknameOr(m.part, Nameless)] : m \in MembersIn(g)}] :
     g \in {g \in groups : g.cls = c}}
-----------------------------------------------------------------------------
(* Properties *)

\* test group-detail.e2e-spec.ts:66, for every query and after any interleaving: what students are
\* shown of a group are nicknames only, a different one for each member; everyone speaks in the chat
\* under the one the others see, and the AI is told of the same ones.
StudentsSeeNicknames ==
  \A g \in groups, s \in Students :
    MayOpen(s, g) =>
      LET detail == GroupDetail(s, g) IN
      /\ \A e \in detail : e.display.as = "nickname"
      /\ \A d, e \in detail : d.display = e.display => d = e
      /\ \A e \in detail : e.isMe => ChatName(s, g) = e.display
      /\ Roster(g) = {e.display : e \in detail}

\* docs/swagger-api-overview.md: the group a student finds in the own list of classes is one the
\* student may open, in that class, and lists the student exactly once as "me"; the teacher's list
\* of participants and list of groups tell the same of everyone, and count everyone once.
ViewsAgree ==
  /\ \A s \in Students : \A view \in StudentClasses(s) : \A gid \in view.myGroup :
       \E g \in groups :
         /\ g = [gid |-> gid, cls |-> view.cls]
         /\ view.myGroup = {gid}
         /\ \E me \in GroupDetail(s, g) : \A e \in GroupDetail(s, g) : e.isMe <=> e = me
  /\ \A u \in Users : \A own \in TeacherClasses(u) :
       MayManage(u, own.cls) /\ own.students = {view.part : view \in ClassParticipants(own.cls)}
  /\ \A c \in Classes : \A view \in ClassParticipants(c) :
       /\ view.group = {g.gid : g \in {g \in ClassGroups(c) : \E e \in g.list : e.part = view.part}}
       /\ [cls |-> c, myGroup |-> view.group] \in StudentClasses(view.part.student)
  /\ \A c \in Classes : \A g \in ClassGroups(c) : \A e \in g.list :
       \E view \in ClassParticipants(c) : view.part = e.part /\ view.nickname = e.nickname
=============================================================================
