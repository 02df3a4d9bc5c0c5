------------------------------ MODULE Classroom ------------------------------
(***************************************************************************)
(* A teacher's classes, the codes by which students join them, and their   *)
(* notices: class.service.ts (createClass, regenerateClassCode, joinClass) *)
(* and notice.service.ts, over classes, class_participants and notices.    *)
(*                                                                         *)
(* As in GroupService, a request is a process whose steps are its awaited  *)
(* database calls, what it keeps across them may be stale, and the id of a *)
(* row it inserts is named after it.  Its first query is part of its       *)
(* beginning: before it, a handler looks at nothing that changes.  save()  *)
(* of a loaded row is two statements: it selects the row, then updates the *)
(* columns that differ, or inserts the row again if it is gone.            *)
(***************************************************************************)
EXTENDS Naturals

CONSTANTS
  Requests,      \* the HTTP requests; each runs once
  Teachers,
  Students,
  Codes,         \* the class codes that can be drawn: 17^8 in the code
  Texts,         \* titles and contents
  OldClasses,    \* the rows the tables start with
  OldNotices,
  None           \* a local variable that holds nothing

Ids == Requests \cup {k.cid : k \in OldClasses} \cup {n.nid : n \in OldNotices}
Columns == {"title", "content"}
Bodies  == [Columns -> Texts]

ClassRows       == [cid : Ids, teacher : Teachers, code : Codes]
ParticipantRows == [cls : Ids, student : Students, by : Requests]
NoticeRows      == [nid : Ids, cls : Ids, body : Bodies]

ASSUME ClassroomAssumption ==
  /\ OldClasses \subseteq ClassRows
  /\ OldNotices \subseteq NoticeRows
  /\ \A k, l \in OldClasses : k.cid = l.cid \/ k.code = l.code => k = l
  /\ \A m, n \in OldNotices : m.nid = n.nid => m = n
  /\ \A k \in OldClasses : k.cid \notin Requests
  /\ \A n \in OldNotices : n.nid \notin Requests /\ \E k \in OldClasses : k.cid = n.cls
  /\ None \notin Ids \cup Codes \cup Bodies

VARIABLES
  classes,       \* classes: UNIQUE (class_code), never deleted
  participants,  \* class_participants: UNIQUE (class_id, student_id); by = the request (its PK)
  notices,       \* notices
  pc,            \* the awaited call each request performs next
  job,           \* the local variables of each running request
  shared,        \* auxiliary: the requests that overlapped another one on the same row
  told           \* auxiliary: what teachers were told last of rows without an overlap since

tables == <<classes, participants, notices>>
notes  == <<shared, told>>
vars   == <<tables, pc, job, notes>>

Ended == {"done", "failed"}
Steps == {"idle", "checkCode", "insertClass", "selectCode", "updateCode",
          "findParticipant", "insertParticipant", "insertNotice", "selectNotice", "updateNotice",
          "reinsertNotice", "removeNotice"} \cup Ended

\* The row a request writes: a class, a notice, or (joining) a participant of its own.
Rows == [kind : {"class", "notice", "participant"}, id : Ids]
Row(kind, id) == [kind |-> kind, id |-> id]

\* An answer: the row has this code or body, or (None) it was deleted.
Answers == [row : Rows, is : Codes \cup Bodies \cup {None}]

(* row    the row written            user  the caller           cls   the class
   code   the code drawn or entered  old   previousClassCode
   body   the notice's new columns   cols  those that differ from the row *)
Jobs == [row : Rows, user : Teachers \cup Students, cls : Ids,
         code : Codes \cup {None}, old : Codes \cup {None},
         body : Bodies \cup {None}, cols : SUBSET Columns]

NewJob(row, u, x) == [row |-> row, user |-> u, cls |-> x, code |-> None, old |-> None,
                      body |-> None, cols |-> {}]
NoJob == NewJob(None, None, None)

Init ==
  /\ classes = OldClasses
  /\ participants = {}
  /\ notices = OldNotices
  /\ pc = [r \in Requests |-> "idle"]
  /\ job = [r \in Requests |-> NoJob]
  /\ shared = {}
  /\ told = {[row |-> Row("class", k.cid), is |-> k.code] : k \in OldClasses}
            \cup {[row |-> Row("notice", n.nid), is |-> n.body] : n \in OldNotices}

\* Request r goes on to step with local variables j; they are dropped when it ends.
Goto(r, step, j) ==
  /\ pc' = [pc EXCEPT ![r] = step]
  /\ job' = [job EXCEPT ![r] = IF step \in Ended THEN NoJob ELSE j]

\* A request that goes on without ending in an answer.
Continue(r, step, j) == Goto(r, step, j) /\ UNCHANGED notes

\* A request that begins with its first query.  Nothing is certain of a row that two write at once.
Begin(r, step, j) ==
  LET rivals == {q \in Requests : pc[q] \notin Ended \cup {"idle"} /\ job[q].row = j.row}
  IN  /\ pc[r] = "idle"
      /\ Goto(r, step, j)
      /\ IF step = "failed" \/ rivals = {} THEN UNCHANGED notes
         ELSE /\ shared' = shared \cup rivals \cup {r}
              /\ told' = {a \in told : a.row # j.row}
      /\ UNCHANGED tables

\* A request that ends with an answer about its row; that it was deleted is told for good.
Answer(r, is) ==
  /\ Goto(r, "done", NoJob)
  /\ shared' = shared
  /\ told' = IF r \in shared THEN told
             ELSE {a \in told : a.row # job[r].row \/ a.is = None} \cup {[row |-> job[r].row, is |-> is]}
-----------------------------------------------------------------------------
(* generateUniqueClassCode: draw, look the code up, and draw again while it is taken. *)

Taken(c) == \E k \in classes : k.code = c

\* Any code may be drawn, except the one a regeneration is to replace.
Drawable(old) == Codes \ {old}

\* createClass ...
CreateClass(r, u, c) ==
  Begin(r, "checkCode", [NewJob(Row("class", r), u, r) EXCEPT !.code = c])

\* ... and regenerateClassCode, which finds the class first.
RegenerateCode(r, u, x, c) ==
  \E k \in classes :
    /\ k.cid = x
    /\ c \in Drawable(k.code)
    /\ Begin(r, IF k.teacher = u THEN "checkCode" ELSE "failed",
             [NewJob(Row("class", x), u, x) EXCEPT !.code = c, !.old = k.code])

CodeFree(r) ==
  /\ pc[r] = "checkCode"
  /\ ~Taken(job[r].code)
  /\ Continue(r, IF job[r].old = None THEN "insertClass" ELSE "selectCode", job[r])
  /\ UNCHANGED tables

\* Mutant: the code is drawn once, before the loop.
CodeTakenForGood(r, c) ==
  /\ pc[r] = "checkCode"
  /\ Taken(job[r].code)
  /\ c \in Drawable(job[r].old)
  /\ Continue(r, "checkCode", job[r])
  /\ UNCHANGED tables

CodeTaken(r, c) ==
  /\ pc[r] = "checkCode"
  /\ Taken(job[r].code)
  /\ c \in Drawable(job[r].old)
  /\ Continue(r, "checkCode", [job[r] EXCEPT !.code = c])
  /\ UNCHANGED tables

\* UNIQUE (class_code): another request may have stored the code since it was found free.
InsertClass(r) ==
  /\ pc[r] = "insertClass"
  /\ IF Taken(job[r].code)
     THEN Continue(r, "failed", job[r]) /\ UNCHANGED classes
     ELSE /\ classes' = classes \cup {[cid |-> r, teacher |-> job[r].user, code |-> job[r].code]}
          /\ Answer(r, job[r].code)
  /\ UNCHANGED <<participants, notices>>

SelectCode(r) ==
  /\ pc[r] = "selectCode"
  /\ IF \E k \in classes : k.cid = job[r].cls /\ k.code = job[r].code
     THEN Answer(r, job[r].code)
     ELSE Continue(r, "updateCode", job[r])
  /\ UNCHANGED tables

\* Mutant: the answer does not wait for the update, which the unique key may refuse.
UpdateCodeUnawaited(r) ==
  /\ pc[r] = "updateCode"
  /\ classes' = IF Taken(job[r].code) THEN classes
                ELSE {IF k.cid = job[r].cls THEN [k EXCEPT !.code = job[r].code] ELSE k : k \in classes}
  /\ Answer(r, job[r].code)
  /\ UNCHANGED <<participants, notices>>

UpdateCode(r) ==
  /\ pc[r] = "updateCode"
  /\ IF \E k \in classes : k.code = job[r].code /\ k.cid # job[r].cls
     THEN Continue(r, "failed", job[r]) /\ UNCHANGED classes
     ELSE /\ classes' = {IF k.cid = job[r].cls THEN [k EXCEPT !.code = job[r].code] ELSE k :
                         k \in classes}
          /\ Answer(r, job[r].code)
  /\ UNCHANGED <<participants, notices>>
-----------------------------------------------------------------------------
(* joinClass: the code is looked up once; what happens to it later does not matter. *)

\* Mutant: a code that no class has is not refused.
JoinClassUnfound(r, s, c) ==
  LET found == {k.cid : k \in {k \in classes : k.code = c}}
  IN  \E x \in IF found = {} THEN {None} ELSE found :
        Begin(r, "findParticipant", [NewJob(Row("participant", r), s, x) EXCEPT !.code = c])

JoinClass(r, s, c) ==
  \/ \E k \in classes :
       /\ k.code = c
       /\ Begin(r, "findParticipant", [NewJob(Row("participant", r), s, k.cid) EXCEPT !.code = c])
  \/ ~Taken(c) /\ Begin(r, "failed", NoJob)

FindParticipant(r) ==
  /\ pc[r] = "findParticipant"
  /\ Continue(r, IF \E p \in participants : p.cls = job[r].cls /\ p.student = job[r].user
                 THEN "failed" ELSE "insertParticipant", job[r])
  /\ UNCHANGED tables

InsertParticipant(r) ==
  /\ pc[r] = "insertParticipant"
  /\ IF \E p \in participants : p.cls = job[r].cls /\ p.student = job[r].user
     THEN Continue(r, "failed", job[r]) /\ UNCHANGED participants
     ELSE /\ participants' =
               participants \cup {[cls |-> job[r].cls, student |-> job[r].user, by |-> r]}
          /\ Continue(r, "done", job[r])
  /\ UNCHANGED <<classes, notices>>
-----------------------------------------------------------------------------
(* notice.service.ts *)

CreateNotice(r, u, x, body) ==
  \E k \in classes :
    /\ k.cid = x
    /\ Begin(r, IF k.teacher = u THEN "insertNotice" ELSE "failed",
             [NewJob(Row("notice", r), u, x) EXCEPT !.body = body])

InsertNotice(r) ==
  /\ pc[r] = "insertNotice"
  /\ notices' = notices \cup {[nid |-> r, cls |-> job[r].cls, body |-> job[r].body]}
  /\ Answer(r, job[r].body)
  /\ UNCHANGED <<classes, participants>>

\* getTeacherOwnedNotice: notice n with its class.
Owned(u, n) == \E k \in classes : k.cid = n.cls /\ k.teacher = u

\* Mutant: the notice is not looked up; save() finds out whether it is there.
UpdateNoticeUnseen(r, u, x, body) ==
  \E n \in OldNotices :
    /\ n.nid = x
    /\ Begin(r, IF Owned(u, n) THEN "selectNotice" ELSE "failed",
             [NewJob(Row("notice", x), u, n.cls) EXCEPT !.body = body])

UpdateNotice(r, u, x, body) ==
  \E n \in notices :
    /\ n.nid = x
    /\ Begin(r, IF Owned(u, n) THEN "selectNotice" ELSE "failed",
             [NewJob(Row("notice", x), u, n.cls) EXCEPT !.body = body])

NoticeRow(x) == {n \in notices : n.nid = x}

\* save(): the columns to write are those that differ from the row as it is now.
SelectNotice(r) ==
  /\ pc[r] = "selectNotice"
  /\ LET differ == {col \in Columns : \E n \in NoticeRow(job[r].row.id) : n.body[col] # job[r].body[col]}
     IN  IF NoticeRow(job[r].row.id) = {} THEN Continue(r, "reinsertNotice", job[r])
         ELSE IF differ = {} THEN Answer(r, job[r].body)
         ELSE Continue(r, "updateNotice", [job[r] EXCEPT !.cols = differ])
  /\ UNCHANGED tables

\* An UPDATE by primary key, which is no error when the row is gone.
WriteNotice(r) ==
  /\ pc[r] = "updateNotice"
  /\ notices' = {IF n.nid = job[r].row.id
                 THEN [n EXCEPT !.body = [col \in Columns |-> IF col \in job[r].cols
                                                              THEN job[r].body[col] ELSE n.body[col]]]
                 ELSE n : n \in notices}
  /\ Answer(r, job[r].body)
  /\ UNCHANGED <<classes, participants>>

ReinsertNotice(r) ==
  /\ pc[r] = "reinsertNotice"
  /\ IF NoticeRow(job[r].row.id) # {}
     THEN Continue(r, "failed", job[r]) /\ UNCHANGED notices
     ELSE /\ notices' = notices \cup {[nid |-> job[r].row.id, cls |-> job[r].cls, body |-> job[r].body]}
          /\ Answer(r, job[r].body)
  /\ UNCHANGED <<classes, participants>>

DeleteNotice(r, u, x) ==
  \E n \in notices :
    /\ n.nid = x
    /\ Begin(r, IF Owned(u, n) THEN "removeNotice" ELSE "failed", NewJob(Row("notice", x), u, n.cls))

RemoveNotice(r) ==
  /\ pc[r] = "removeNotice"
  /\ notices' = notices \ NoticeRow(job[r].row.id)
  /\ Answer(r, None)
  /\ UNCHANGED <<classes, participants>>

\* getNoticesByClass: who may ask, and the list.
MayRead(u, k) == k.teacher = u \/ \E p \in participants : p.cls = k.cid /\ p.student = u
NoticeList(k) == {n \in notices : n.cls = k.cid}

\* A database call that throws ends the request between two steps, as does a crash.
Abort(r) ==
  /\ pc[r] \notin Ended \cup {"idle"}
  /\ Continue(r, "failed", NoJob)
  /\ UNCHANGED tables
-----------------------------------------------------------------------------
Start(r) ==
  \/ \E u \in Teachers, c \in Codes :
       CreateClass(r, u, c) \/ \E x \in Ids : RegenerateCode(r, u, x, c)
  \/ \E s \in Students, c \in Codes : JoinClass(r, s, c)
  \/ \E u \in Teachers, x \in Ids :
       DeleteNotice(r, u, x) \/ \E body \in Bodies : CreateNotice(r, u, x, body) \/ UpdateNotice(r, u, x, body)

DrawAgain(r) == \E c \in Codes : CodeTaken(r, c)

OtherSteps(r) ==
  \/ CodeFree(r) \/ InsertClass(r) \/ SelectCode(r) \/ UpdateCode(r)
  \/ FindParticipant(r) \/ InsertParticipant(r)
  \/ InsertNotice(r) \/ SelectNotice(r) \/ WriteNotice(r) \/ ReinsertNotice(r) \/ RemoveNotice(r)

Next == \E r \in Requests : Start(r) \/ DrawAgain(r) \/ OtherSteps(r) \/ Abort(r)

Spec == Init /\ [][Next]_vars

\* Every awaited call answers.  Draws are random and independent: as long as a request goes on
\* drawing while some code is free, it draws a free one with probability one.
DrawFree(r) == \E c \in Codes : ~Taken(c) /\ CodeTaken(r, c)

FairSpec == Spec /\ \A r \in Requests : WF_vars(OtherSteps(r)) /\ WF_vars(DrawFree(r))
-----------------------------------------------------------------------------
(* Properties *)

\* The tables and the local variables of requests are well-formed.
TypeOK ==
  /\ classes \subseteq ClassRows
  /\ participants \subseteq ParticipantRows
  /\ notices \subseteq NoticeRows
  /\ pc \in [Requests -> Steps]
  /\ job \in [Requests -> Jobs \cup {NoJob}]
  /\ \A r \in Requests : pc[r] \notin Ended \cup {"idle"} => job[r] \in Jobs
  /\ shared \subseteq Requests
  /\ told \subseteq Answers

\* The code a teacher was told last, by createClass or regenerateClassCode, finds that class and no
\* other, unless two regenerations of it have overlapped since: between the drawing, the check and
\* the save of a code, others draw, store and give up codes.
ToldCodesLeadHome ==
  \A a \in told : a.row.kind = "class" =>
    {k.cid : k \in {k \in classes : k.code = a.is}} = {a.row.id}

\* A notice reads, for everyone who may read the notices of the class, as its teacher was told last,
\* and stays away once deleted, unless two writers of it have overlapped since.
ToldNoticesShown ==
  \A a \in told : a.row.kind = "notice" =>
    /\ a.is # None => \E k \in classes : \E n \in NoticeList(k) : n.nid = a.row.id
    /\ \A k \in classes, u \in Teachers \cup Students : MayRead(u, k) =>
         \A n \in NoticeList(k) : n.nid = a.row.id => n.body = a.is

\* Every request ends, although codes are drawn until a free one is found.
RequestsEnd == \A r \in Requests : pc[r] # "idle" ~> pc[r] \in Ended
=============================================================================
