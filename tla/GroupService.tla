---------------------------- MODULE GroupService ----------------------------
(***************************************************************************)
(* The group requests of src/src/group/group.service.ts (create, update,   *)
(* delete) and the class enrolment they depend on, over the tables they    *)
(* share: class_participants, groups, group_members, group_nicknames and   *)
(* nickname_reservations.                                                  *)
(*                                                                         *)
(* The service is one Node process: a request runs without interruption    *)
(* from one await to the next, and every repository call is a database     *)
(* transaction of its own.  A request is therefore a process whose steps   *)
(* are its awaited calls; what it keeps in local variables across them     *)
(* (job) may be stale when it is used.  Tables are sets of rows, and the   *)
(* unique and foreign keys of the migrations are guards of the inserts.    *)
(* A fresh UUID generated by a request is named after the request.         *)
(***************************************************************************)
EXTENDS Integers, FiniteSets

CONSTANTS
  Requests,      \* the HTTP requests; each runs once
  Users,         \* the authenticated callers (JwtPayload.sub)
  Classes,
  Owner,         \* the teacher of each class, fixed by createClass
  Students,
  Names,         \* normalised, well-formed nicknames the AI may answer
  MaxAttempts,   \* MAX_NICKNAME_GENERATION_ATTEMPTS
  None           \* a local variable that holds nothing

ASSUME GroupAssumption ==
  /\ MaxAttempts \in Nat \ {0}
  /\ Owner \in [Classes -> Users]
  /\ None \notin Requests
  /\ None \notin Classes

VARIABLES
  participants,  \* class_participants: UNIQUE (class_id, student_id), never deleted
  groups,        \* groups
  members,       \* group_members; by = the request that inserted the row (its PK)
  nicknames,     \* group_nicknames
  reservations,  \* nickname_reservations: UNIQUE (nickname), never deleted
  pc,            \* the awaited call each request performs next
  job            \* the local variables of each running request

tables == <<participants, groups, members, nicknames, reservations>>
vars   == <<tables, pc, job>>

Participants == [cls : Classes, student : Students]
GroupRows    == [gid : Requests, cls : Classes]
MemberRows   == [gid : Requests, part : Participants, by : Requests]
NicknameRows == [cls : Classes, part : Participants, name : Names]
Draws        == [part : Participants, name : Names]

Named == {n.part : n \in nicknames}

Ended == {"done", "failed"}
\* The steps that can only follow the nickname step of a request.
AfterNicknames == {"insertGroup", "findMoves", "removeMoves", "removeLeavers", "addMembers"}
Steps == {"idle", "findParticipants", "findMembers", "findNicknames", "drawNickname",
          "saveNicknames", "saveGroup", "reinsertGroup", "removeGroup"}
         \cup AfterNicknames \cup Ended

(* The local variables of a request, by their role in the code:
     op     the handler;  gid, cls   the group (or the one being created) and its class
     wanted participants of the requested students
     add    participantsToAdd        leave  membersToRemove       move  membersToMove
     todo   participants still to be given a nickname
     drawn  nicknamesToCreate        tries  attempts made for the current participant *)
Jobs ==
  [op : {"create", "update", "delete"}, gid : Requests, cls : Classes, wanted : SUBSET Participants,
   add : SUBSET Participants, leave : SUBSET MemberRows, move : SUBSET MemberRows,
   todo : SUBSET Participants, drawn : SUBSET Draws, tries : 0..(MaxAttempts - 1)]

NewJob(op, gid, cls, found) ==
  [op |-> op, gid |-> gid, cls |-> cls, wanted |-> found, add |-> found,
   leave |-> {}, move |-> {}, todo |-> {}, drawn |-> {}, tries |-> 0]

\* Before a request begins and after it has ended.
NoJob == NewJob("none", None, None, {})

Init ==
  /\ participants = {}
  /\ groups = {}
  /\ members = {}
  /\ nicknames = {}
  /\ reservations = {}
  /\ pc = [r \in Requests |-> "idle"]
  /\ job = [r \in Requests |-> NoJob]
-----------------------------------------------------------------------------
(* Control flow: the next awaited call, skipping the calls the code skips. *)

\* Request r goes on to step with local variables j; they are dropped when it ends.
Goto(r, step, j) ==
  /\ pc' = [pc EXCEPT ![r] = step]
  /\ job' = [job EXCEPT ![r] = IF step \in Ended THEN NoJob ELSE j]

AddStep(j) == IF j.add # {} THEN "addMembers"
              ELSE IF j.op = "create" THEN "done" ELSE "saveGroup"
\* Mutant: an update that adds nobody returns before it removes anybody.
LeaveStepOnlyWhenAdding(j) == IF j.leave # {} /\ j.add # {} THEN "removeLeavers" ELSE AddStep(j)
LeaveStep(j) == IF j.leave # {} THEN "removeLeavers" ELSE AddStep(j)
MoveStep(j) == IF j.add # {} THEN "findMoves" ELSE LeaveStep(j)
NamedStep(j) == IF j.op = "create" THEN "insertGroup" ELSE MoveStep(j)
\* Mutant: nicknames are ensured when a group is created, but not for those who join it later.
NicknameStepOfCreate(j) ==
  IF j.add # {} /\ j.op = "create" THEN "findNicknames" ELSE NamedStep(j)
NicknameStep(j) == IF j.add # {} THEN "findNicknames" ELSE NamedStep(j)
-----------------------------------------------------------------------------
(* class.service.ts joinClass: its checks only refuse what its insert would. *)
JoinClass(c, s) ==
  /\ Owner[c] # s
  /\ [cls |-> c, student |-> s] \notin participants
  /\ participants' = participants \cup {[cls |-> c, student |-> s]}
  /\ UNCHANGED <<groups, members, nicknames, reservations, pc, job>>

\* Mutant: the query forgets the class.
ParticipantsAnywhere(c, S) == {p \in participants : p.student \in S}

\* getParticipantsForStudents: the rows of those students in that class, all or nothing.
ParticipantsOf(c, S) == {p \in participants : p.cls = c /\ p.student \in S}
AllJoined(c, S) == {p.student : p \in ParticipantsOf(c, S)} = S

(* createGroup by user u, up to the participants it found. *)
CreateGroup(r, u, c, S) ==
  /\ pc[r] = "idle"
  /\ LET j == NewJob("create", r, c, ParticipantsOf(c, S))
     IN  Goto(r, IF u = Owner[c] /\ AllJoined(c, S) THEN NicknameStep(j) ELSE "failed", j)
  /\ UNCHANGED tables

(* updateGroup: getTeacherOwnedGroup ... *)
UpdateGroup(r, u, g) ==
  /\ pc[r] = "idle"
  /\ g \in groups
  /\ Goto(r, IF u = Owner[g.cls] THEN "findParticipants" ELSE "failed",
          NewJob("update", g.gid, g.cls, {}))
  /\ UNCHANGED tables

(* ... the participants of the request, which may have gone on joining ... *)
FindParticipants(r, S) ==
  /\ pc[r] = "findParticipants"
  /\ Goto(r, IF AllJoined(job[r].cls, S) THEN "findMembers" ELSE "failed",
          [job[r] EXCEPT !.wanted = ParticipantsOf(job[r].cls, S)])
  /\ UNCHANGED tables

(* ... and the current members, from which it decides whom to add and remove. *)
FindMembers(r) ==
  /\ pc[r] = "findMembers"
  /\ LET current == {m \in members : m.gid = job[r].gid}
         wanted  == job[r].wanted
         j == [job[r] EXCEPT !.add = wanted \ {m.part : m \in current},
                             !.leave = {m \in current : m.part \notin wanted}]
     IN  Goto(r, NicknameStep(j), j)
  /\ UNCHANGED tables
-----------------------------------------------------------------------------
(* ensureClassScopedNicknames *)

FindNicknames(r) ==
  /\ pc[r] = "findNicknames"
  /\ LET existing == {n.part : n \in {n \in nicknames : n.cls = job[r].cls}}
         j == [job[r] EXCEPT !.todo = job[r].add \ existing, !.drawn = {}, !.tries = 0]
     IN  Goto(r, IF j.todo = {} THEN NamedStep(j) ELSE "drawNickname", j)
  /\ UNCHANGED tables

\* Mutant: a name is free when no nickname row has it yet.
DrawUnsavedNickname(r, p, n) ==
  /\ pc[r] = "drawNickname"
  /\ p \in job[r].todo
  /\ n \notin {d.name : d \in job[r].drawn} \cup {row.name : row \in nicknames}
  /\ reservations' = reservations \cup {n}
  /\ LET j == [job[r] EXCEPT !.todo = @ \ {p}, !.tries = 0,
                             !.drawn = @ \cup {[part |-> p, name |-> n]}]
     IN  Goto(r, IF j.todo = {} THEN "saveNicknames" ELSE "drawNickname", j)
  /\ UNCHANGED <<participants, groups, members, nicknames>>

\* The AI answers name n for participant p, and its reservation is inserted.
DrawNickname(r, p, n) ==
  /\ pc[r] = "drawNickname"
  /\ p \in job[r].todo
  /\ n \notin {d.name : d \in job[r].drawn}      \* generatedInBatch
  /\ n \notin reservations                       \* UNIQUE (nickname)
  /\ reservations' = reservations \cup {n}
  /\ LET j == [job[r] EXCEPT !.todo = @ \ {p}, !.tries = 0,
                             !.drawn = @ \cup {[part |-> p, name |-> n]}]
     IN  Goto(r, IF j.todo = {} THEN "saveNicknames" ELSE "drawNickname", j)
  /\ UNCHANGED <<participants, groups, members, nicknames>>

\* Mutants: one attempt too many; attempts that are not counted.
RefuseNicknameOnceMore(r) ==
  /\ pc[r] = "drawNickname"
  /\ LET j == [job[r] EXCEPT !.tries = @ + 1]
     IN  Goto(r, IF j.tries > MaxAttempts THEN "failed" ELSE "drawNickname", j)
  /\ UNCHANGED tables

RefuseNicknameUncounted(r) ==
  /\ pc[r] = "drawNickname"
  /\ Goto(r, "drawNickname", job[r])
  /\ UNCHANGED tables

\* The answer is malformed, already drawn in this batch, or reserved: ask again.
RefuseNickname(r) ==
  /\ pc[r] = "drawNickname"
  /\ LET j == [job[r] EXCEPT !.tries = @ + 1]
     IN  Goto(r, IF j.tries = MaxAttempts THEN "failed" ELSE "drawNickname", j)
  /\ UNCHANGED tables

\* Mutant: the rows are upserted by participant.
UpsertNicknames(r) ==
  /\ pc[r] = "saveNicknames"
  /\ LET rows == {[cls |-> job[r].cls, part |-> d.part, name |-> d.name] : d \in job[r].drawn}
         j == [job[r] EXCEPT !.drawn = {}]
     IN  /\ nicknames' = {n \in nicknames : \A row \in rows : n.part # row.part} \cup rows
         /\ Goto(r, NamedStep(j), j)
  /\ UNCHANGED <<participants, groups, members, reservations>>

\* Mutant: after a clash the batch is begun again.
SaveNicknamesRetried(r) ==
  /\ pc[r] = "saveNicknames"
  /\ LET rows == {[cls |-> job[r].cls, part |-> d.part, name |-> d.name] : d \in job[r].drawn}
         clash == \E n \in nicknames, row \in rows :
                    n.part = row.part \/ (n.cls = row.cls /\ n.name = row.name)
         j == [job[r] EXCEPT !.drawn = {}]
     IN  /\ nicknames' = IF clash THEN nicknames ELSE nicknames \cup rows
         /\ Goto(r, IF clash THEN "findNicknames" ELSE NamedStep(j), j)
  /\ UNCHANGED <<participants, groups, members, reservations>>

\* One transaction; it fails if another request has named one of them meanwhile.
SaveNicknames(r) ==
  /\ pc[r] = "saveNicknames"
  /\ LET rows == {[cls |-> job[r].cls, part |-> d.part, name |-> d.name] : d \in job[r].drawn}
         clash == \E n \in nicknames, row \in rows :
                    n.part = row.part \/ (n.cls = row.cls /\ n.name = row.name)
         j == [job[r] EXCEPT !.drawn = {}]
     IN  /\ nicknames' = IF clash THEN nicknames ELSE nicknames \cup rows
         /\ Goto(r, IF clash THEN "failed" ELSE NamedStep(j), j)
  /\ UNCHANGED <<participants, groups, members, reservations>>
-----------------------------------------------------------------------------
(* Moving the participants *)

InsertGroup(r) ==
  /\ pc[r] = "insertGroup"
  /\ groups' = groups \cup {[gid |-> r, cls |-> job[r].cls]}
  /\ Goto(r, MoveStep(job[r]), job[r])
  /\ UNCHANGED <<participants, members, nicknames, reservations>>

\* Mutant: the rows of the target group itself are released too.
FindAllRows(r) ==
  /\ pc[r] = "findMoves"
  /\ LET j == [job[r] EXCEPT !.move = {m \in members : m.part \in job[r].add}]
     IN  Goto(r, IF j.move # {} THEN "removeMoves" ELSE LeaveStep(j), j)
  /\ UNCHANGED tables

\* releaseParticipantsFromOtherGroups reads the rows to remove ...
FindMoves(r) ==
  /\ pc[r] = "findMoves"
  /\ LET j == [job[r] EXCEPT !.move = {m \in members :
                                         m.part \in job[r].add /\ m.gid # job[r].gid}]
     IN  Goto(r, IF j.move # {} THEN "removeMoves" ELSE LeaveStep(j), j)
  /\ UNCHANGED tables

\* ... and removes them by primary key; a row that is gone already is no error.
RemoveMoves(r) ==
  /\ pc[r] = "removeMoves"
  /\ members' = members \ job[r].move
  /\ Goto(r, LeaveStep(job[r]), [job[r] EXCEPT !.move = {}])
  /\ UNCHANGED <<participants, groups, nicknames, reservations>>

RemoveLeavers(r) ==
  /\ pc[r] = "removeLeavers"
  /\ members' = members \ job[r].leave
  /\ Goto(r, AddStep(job[r]), [job[r] EXCEPT !.leave = {}])
  /\ UNCHANGED <<participants, groups, nicknames, reservations>>

\* Mutant: a refused insert is swallowed, and the request is answered as if nothing had happened.
AddMembersSwallowed(r) ==
  /\ pc[r] = "addMembers"
  /\ LET rows == {[gid |-> job[r].gid, part |-> p, by |-> r] : p \in job[r].add}
         legal == /\ \A m \in members : m.part \notin job[r].add
                  /\ \E g \in groups : g.gid = job[r].gid
     IN  /\ members' = IF legal THEN members \cup rows ELSE members
         /\ Goto(r, IF job[r].op = "create" THEN "done" ELSE "saveGroup",
                 [job[r] EXCEPT !.add = {}])
  /\ UNCHANGED <<participants, groups, nicknames, reservations>>

\* One transaction: UNIQUE (class_participant_id), and the group must still exist.
AddMembers(r) ==
  /\ pc[r] = "addMembers"
  /\ LET rows == {[gid |-> job[r].gid, part |-> p, by |-> r] : p \in job[r].add}
         legal == /\ \A m \in members : m.part \notin job[r].add
                  /\ \E g \in groups : g.gid = job[r].gid
     IN  /\ members' = IF legal THEN members \cup rows ELSE members
         /\ Goto(r, IF ~legal THEN "failed"
                    ELSE IF job[r].op = "create" THEN "done" ELSE "saveGroup",
                 [job[r] EXCEPT !.add = {}])
  /\ UNCHANGED <<participants, groups, nicknames, reservations>>

\* save(group) selects the row first: present, it is renamed; gone, it is inserted again.
SaveGroup(r) ==
  /\ pc[r] = "saveGroup"
  /\ Goto(r, IF \E g \in groups : g.gid = job[r].gid THEN "done" ELSE "reinsertGroup", job[r])
  /\ UNCHANGED tables

ReinsertGroup(r) ==
  /\ pc[r] = "reinsertGroup"
  /\ LET taken == \E g \in groups : g.gid = job[r].gid
     IN  /\ groups' = IF taken THEN groups
                      ELSE groups \cup {[gid |-> job[r].gid, cls |-> job[r].cls]}
         /\ Goto(r, IF taken THEN "failed" ELSE "done", job[r])
  /\ UNCHANGED <<participants, members, nicknames, reservations>>
-----------------------------------------------------------------------------
(* deleteGroup: find the group (and close its chat room), then remove it. *)
DeleteGroup(r, u, g) ==
  /\ pc[r] = "idle"
  /\ g \in groups
  /\ Goto(r, IF u = Owner[g.cls] THEN "removeGroup" ELSE "failed",
          NewJob("delete", g.gid, g.cls, {}))
  /\ UNCHANGED tables

\* ON DELETE CASCADE takes the members with it; nicknames belong to the class and stay.
RemoveGroup(r) ==
  /\ pc[r] = "removeGroup"
  /\ groups' = {g \in groups : g.gid # job[r].gid}
  /\ members' = {m \in members : m.gid # job[r].gid}
  /\ Goto(r, "done", job[r])
  /\ UNCHANGED <<participants, nicknames, reservations>>

\* A database or AI call that throws ends the request between two steps, as does a crash.
Abort(r) ==
  /\ pc[r] \notin Ended \cup {"idle"}
  /\ Goto(r, "failed", NoJob)
  /\ UNCHANGED tables
-----------------------------------------------------------------------------
\* What a request does once it has begun.
Step(r) ==
  \/ \E S \in SUBSET Students : FindParticipants(r, S)
  \/ FindMembers(r)
  \/ FindNicknames(r)
  \/ \E p \in Participants, n \in Names : DrawNickname(r, p, n)
  \/ RefuseNickname(r)
  \/ SaveNicknames(r)
  \/ InsertGroup(r)
  \/ FindMoves(r)
  \/ RemoveMoves(r)
  \/ RemoveLeavers(r)
  \/ AddMembers(r)
  \/ SaveGroup(r)
  \/ ReinsertGroup(r)
  \/ RemoveGroup(r)

Begin(r) ==
  \E u \in Users :
    \/ \E c \in Classes, S \in SUBSET Students : CreateGroup(r, u, c, S)
    \/ \E g \in groups : UpdateGroup(r, u, g)
    \/ \E g \in groups : DeleteGroup(r, u, g)

Next ==
  \/ \E c \in Classes, s \in Students : JoinClass(c, s)
  \/ \E r \in Requests : Begin(r) \/ Step(r) \/ Abort(r)

Spec == Init /\ [][Next]_vars

\* The event loop resumes a request whose awaited call has answered, and every call answers.
FairSpec == Spec /\ \A r \in Requests : WF_vars(Step(r))
-----------------------------------------------------------------------------
(* Properties *)

\* Every table holds well-formed rows, and every request that is under way has well-formed locals.
TypeOK ==
  /\ participants \subseteq Participants
  /\ groups \subseteq GroupRows
  /\ members \subseteq MemberRows
  /\ nicknames \subseteq NicknameRows
  /\ reservations \subseteq Names
  /\ pc \in [Requests -> Steps]
  /\ job \in [Requests -> Jobs \cup {NoJob}]
  /\ \A r \in Requests : pc[r] \notin Ended \cup {"idle"} => job[r] \in Jobs

\* Anonymity: whoever is in a group has a nickname.  A member without one would be shown to the
\* others under the real name (getChatParticipantInfo falls back to student.name), so no order of
\* requests, failures and crashes may let addParticipantsToGroup overtake the nickname step.
MembersNicknamed == \A m \in members : m.part \in Named

\* A group that has members exists and all of them are participants of its own class, although the
\* class is read once at the start of a request and the group may be deleted or re-inserted since.
MembersOfClass ==
  \A m \in members : /\ m.part \in participants
                      /\ [gid |-> m.gid, cls |-> m.part.cls] \in groups

\* No two participants, of one class or of two, ever have the same nickname: the check against the
\* batch, the reservation and the later save of the nickname are three different moments.
UniqueNicknames ==
  \A a, b \in nicknames : a.name = b.name \/ a.part = b.part => a = b

\* A participant leaves a group only because the group is deleted, an update of that group does
\* not list the participant, or a request that does list the participant puts them in another
\* group: a stale list of rows read earlier never evicts anyone else.
RemovalsAsked ==
  [][\A m \in members : m \notin members' =>
       \E r \in Requests :
         \/ pc[r] = "removeGroup" /\ job[r].gid = m.gid
         \/ pc[r] = "removeLeavers" /\ job[r].gid = m.gid /\ m.part \notin job[r].wanted
         \/ pc[r] = "removeMoves" /\ job[r].gid # m.gid /\ m.part \in job[r].wanted]_vars

\* Nicknames as the rest of the system sees them: written once, never changed, never shared.
Book == INSTANCE NicknameBook
          WITH book <- {[part |-> n.part, name |-> n.name] : n \in nicknames}
ImplementsBook == Book!Spec

\* The most awaited calls from each one to the end of its handler, this one included, those that
\* draw nicknames aside.
CallsFrom ==
  [idle |-> 0, done |-> 0, failed |-> 0, removeGroup |-> 1, reinsertGroup |-> 1, saveGroup |-> 2,
   addMembers |-> 3, removeLeavers |-> 4, removeMoves |-> 5, findMoves |-> 6, insertGroup |-> 7,
   saveNicknames |-> 8, drawNickname |-> 8, findNicknames |-> 9, findMembers |-> 10,
   findParticipants |-> 11]

\* The most nicknames the AI may still be asked for.
AttemptsLeft(step, j) ==
  CASE step = "findParticipants" -> MaxAttempts * Cardinality(Students)
    [] step = "findMembers"      -> MaxAttempts * Cardinality(j.wanted)
    [] step = "findNicknames"    -> MaxAttempts * Cardinality(j.add)
    [] step = "drawNickname"     -> MaxAttempts * Cardinality(j.todo) - j.tries
    [] OTHER                     -> 0

CallsLeft(step, j) == CallsFrom[step] + AttemptsLeft(step, j)

\* No call is repeated for nothing: whatever the AI answers and other requests do meanwhile, each
\* call of a request, refused nicknames and failures included, brings it nearer to its end, so that
\* it asks the AI at most MAX_NICKNAME_GENERATION_ATTEMPTS times for each of its participants.
CallsCountDown ==
  [][\A r \in Requests :
       pc[r] # "idle" /\ (pc'[r] # pc[r] \/ job'[r] # job[r]) =>
         /\ CallsLeft(pc'[r], job'[r]) \in Nat
         /\ CallsLeft(pc'[r], job'[r]) < CallsLeft(pc[r], job[r])]_vars

\* Every request that begins ends, although nickname generation retries: the attempts are bounded.
RequestsEnd == \A r \in Requests : pc[r] # "idle" ~> pc[r] \in Ended
=============================================================================
