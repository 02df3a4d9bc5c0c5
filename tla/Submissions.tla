------------------------------ MODULE Submissions ------------------------------
(***************************************************************************)
(* Two tables with one row per owner that is found and then saved:         *)
(* assignment_submissions, a row per group (assignment.service.ts), and    *)
(* surveys, a row per student (survey.service.ts).  The group service      *)
(* changes members and deletes groups underneath.                          *)
(***************************************************************************)

CONSTANTS
  Requests,   \* the HTTP requests; each runs once, and a row's primary key is named after the one that inserts it
  Groups,
  Students,
  Values,     \* file URLs, links and texts
  None

VARIABLES
  groups,     \* groups: the ids that have a row
  members,    \* group_members, by student: the pairs <<group, student>>
  rows,       \* by owner, the row or None
  pc,         \* the next step of each request
  job,        \* the local variables of each request
  shared,     \* auxiliary: requests that overlapped one for the same owner, or the deletion of the group
  late,       \* auxiliary: requests under way for a group when it was deleted
  kept        \* auxiliary: owners that were told their answers are stored, by a request that is not late

aux  == <<shared, late, kept>>
vars == <<groups, members, rows, pc, job, aux>>

Owners  == Groups \cup Students
Columns == {"fileUrl", "link", "mbti", "personality", "preference", "submittedBy"}
Fields(o) == IF o \in Groups THEN {"fileUrl", "link"} ELSE {"mbti", "personality", "preference"}

(* A row has the columns of its table; those of the other table stay None in it. *)
Contents == [Columns -> Values \cup Students \cup {None}]
Fits(o, has) ==
  /\ has \in Contents
  /\ IF o \in Groups THEN has["submittedBy"] \in Students ELSE has["submittedBy"] = None
  /\ \A f \in Columns \ (Fields(o) \cup {"submittedBy"}) : has[f] = None
Rows     == [id : Requests, has : Contents]
Ended    == {"done", "failed", "aborted"}
Steps    == {"idle", "access", "find", "insert", "saveSelect", "saveUpdate", "saveInsert"} \cup Ended

(* asked is what the row is to hold, row the entity in memory, columns those save found changed. *)
Jobs  == [owner : Owners, student : Students, asked : Contents, row : Rows \cup {None}, columns : SUBSET Columns]
NoJob == [owner |-> None, student |-> None, asked |-> None, row |-> None, columns |-> {}]

ASSUME SubmissionAssumption ==
  /\ Groups \cap Students = {}
  /\ None \notin Owners \cup Rows \cup Values

Running == {r \in Requests : pc[r] \notin Ended \cup {"idle"}}
At(o)   == {r \in Running : job[r].owner = o}

Init ==
  /\ groups = Groups
  /\ members = {}
  /\ rows = [o \in Owners |-> None]
  /\ pc = [r \in Requests |-> "idle"]
  /\ job = [r \in Requests |-> NoJob]
  /\ shared = {}
  /\ late = {}
  /\ kept = {}

Goto(r, step, j) ==
  /\ pc' = [pc EXCEPT ![r] = step]
  /\ job' = [job EXCEPT ![r] = IF step \in Ended THEN NoJob ELSE j]
  /\ kept' = IF step = "done" /\ r \notin late THEN kept \cup {job[r].owner} ELSE kept
-----------------------------------------------------------------------------
(* What the group service does to these tables meanwhile *)

AddMember(g, s) ==
  /\ g \in groups
  /\ members' = members \cup {<<g, s>>}
  /\ UNCHANGED <<groups, rows, pc, job, aux>>

RemoveMember(g, s) ==
  /\ members' = members \ {<<g, s>>}
  /\ UNCHANGED <<groups, rows, pc, job, aux>>

\* ON DELETE CASCADE takes the members and the submission.
DeleteGroup(g) ==
  /\ g \in groups
  /\ groups' = groups \ {g}
  /\ members' = {m \in members : m[1] # g}
  /\ rows' = [rows EXCEPT ![g] = None]
  /\ shared' = shared \cup At(g)
  /\ late' = late \cup At(g)
  /\ kept' = kept \ {g}
  /\ UNCHANGED <<pc, job>>

\* An update of the group that was under way saves its row after the deletion.
ReinsertGroup(g) ==
  /\ g \notin groups
  /\ groups' = groups \cup {g}
  /\ UNCHANGED <<members, rows, pc, job, aux>>
-----------------------------------------------------------------------------
(* submitAssignment and submitSurvey *)

\* An assignment has a file URL or a link, a survey one of its three answers.
Forms(o) == {[f \in Columns |-> IF f \in fs THEN v[f] ELSE None] :
               fs \in SUBSET Fields(o) \ {{}}, v \in [Fields(o) -> Values]}

\* A submission is marked with who submitted it.
Asked(o, s, form) == IF o \in Groups THEN [form EXCEPT !["submittedBy"] = s] ELSE form

Submit(r, o, s, form) ==
  /\ pc[r] = "idle"
  /\ o \in Students => s = o
  /\ Goto(r, IF o \in Groups THEN "access" ELSE "find",
          [NoJob EXCEPT !.owner = o, !.student = s, !.asked = Asked(o, s, form)])
  /\ shared' = IF At(o) = {} THEN shared ELSE shared \cup At(o) \cup {r}
  /\ UNCHANGED <<groups, members, rows, late>>

\* An empty form, a file URL from elsewhere or a wrong role: nothing happens.
Refuse(r) ==
  /\ pc[r] = "idle"
  /\ Goto(r, "failed", NoJob)
  /\ UNCHANGED <<groups, members, rows, shared, late>>

\* getStudentAccessibleGroup: the group with its members.
Access(r) ==
  /\ pc[r] = "access"
  /\ Goto(r, IF job[r].owner \in groups /\ <<job[r].owner, job[r].student>> \in members THEN "find" ELSE "failed",
          job[r])
  /\ UNCHANGED <<groups, members, rows, shared, late>>

\* Mutant: a resubmission leaves the fields it does not fill as they were.
FilledOnly(r) == [f \in Columns |-> IF job[r].asked[f] = None THEN rows[job[r].owner].has[f] ELSE job[r].asked[f]]
Resubmitted(r) == job[r].asked

Entity(r) == [id |-> rows[job[r].owner].id, has |-> Resubmitted(r)]

\* Mutant: a resubmission deletes the old row and inserts a new one.
FindReplacing(r) ==
  /\ pc[r] = "find"
  /\ rows' = [rows EXCEPT ![job[r].owner] = None]
  /\ Goto(r, "insert", [job[r] EXCEPT !.row = [id |-> r, has |-> job[r].asked]])
  /\ UNCHANGED <<groups, members, shared, late>>

Find(r) ==
  LET o == job[r].owner
  IN  /\ pc[r] = "find"
      /\ IF rows[o] = None THEN Goto(r, "insert", [job[r] EXCEPT !.row = [id |-> r, has |-> job[r].asked]])
         ELSE Goto(r, "saveSelect", [job[r] EXCEPT !.row = Entity(r)])
      /\ UNCHANGED <<groups, members, rows, shared, late>>
-----------------------------------------------------------------------------
(* repository.save *)

\* The row the request read is still there (under the primary key it had).
Present(r) == rows[job[r].owner] # None /\ rows[job[r].owner].id = job[r].row.id

\* Mutant: no foreign key.
InsertableAnywhere(o) == rows[o] = None

\* A row for the owner violates no key: the only one, and of a group that is there.
Insertable(o) == rows[o] = None /\ (o \in Groups => o \in groups)

\* Of a new row, or of one that save found gone, with the key it had.
Insert(r) ==
  LET o == job[r].owner
  IN  /\ pc[r] \in {"insert", "saveInsert"}
      /\ rows' = IF Insertable(o) THEN [rows EXCEPT ![o] = job[r].row] ELSE rows
      /\ Goto(r, IF Insertable(o) THEN "done" ELSE "failed", job[r])
      /\ UNCHANGED <<groups, members, shared, late>>

SaveSelect(r) ==
  LET changed == {f \in Columns : job[r].row.has[f] # rows[job[r].owner].has[f]}
  IN  /\ pc[r] = "saveSelect"
      /\ IF ~ Present(r) THEN Goto(r, "saveInsert", job[r])
         ELSE IF changed = {} THEN Goto(r, "done", job[r])
         ELSE Goto(r, "saveUpdate", [job[r] EXCEPT !.columns = changed])
      /\ UNCHANGED <<groups, members, rows, shared, late>>

\* Updating a row that is gone changes nothing, and is no error.
SaveUpdate(r) ==
  LET o == job[r].owner
  IN  /\ pc[r] = "saveUpdate"
      /\ rows' = IF Present(r)
                 THEN [rows EXCEPT ![o].has = [f \in Columns |-> IF f \in job[r].columns THEN job[r].row.has[f] ELSE @[f]]]
                 ELSE rows
      /\ Goto(r, "done", job[r])
      /\ UNCHANGED <<groups, members, shared, late>>

\* A database call that throws, or a crash, ends the request between two steps.
Abort(r) ==
  /\ r \in Running
  /\ Goto(r, "aborted", NoJob)
  /\ UNCHANGED <<groups, members, rows, shared, late>>
-----------------------------------------------------------------------------
Next ==
  \/ \E g \in Groups : DeleteGroup(g) \/ ReinsertGroup(g)
  \/ \E g \in Groups, s \in Students : AddMember(g, s) \/ RemoveMember(g, s)
  \/ \E r \in Requests :
       \/ \E o \in Owners, s \in Students : \E form \in Forms(o) : Submit(r, o, s, form)
       \/ Refuse(r) \/ Access(r) \/ Find(r) \/ Insert(r) \/ SaveSelect(r) \/ SaveUpdate(r)
       \/ Abort(r)

Spec == Init /\ [][Next]_vars
-----------------------------------------------------------------------------
(* Properties *)

\* The tables and the requests are well-formed; a submission is of a group that is there, and is
\* marked with a student, a survey is not; each table has only its own columns.
TypeOK ==
  /\ groups \subseteq Groups
  /\ members \subseteq groups \X Students
  /\ rows \in [Owners -> Rows \cup {None}]
  /\ pc \in [Requests -> Steps]
  /\ job \in [Requests -> Jobs \cup {NoJob}]
  /\ shared \subseteq Requests /\ late \subseteq shared /\ kept \subseteq Owners
  /\ \A o \in Owners : rows[o] # None =>
       (o \in Groups => o \in groups) /\ Fits(o, rows[o].has)

\* A submission that was answered is there as long as the group is, however many others overlapped
\* it, failed or were broken off: none removes the row, and none that fails to store is answered.
AnsweredIsStored == \A o \in kept : rows[o] # None

\* After a submission that no other one for the same owner overlapped, the row says exactly what was
\* asked for, no more and no less: fields left out are empty again, and the submitter is the last one.
ExactAlone ==
  [][\A r \in Requests : pc[r] # "done" /\ pc'[r] = "done" /\ r \notin shared =>
       rows'[job[r].owner] # None /\ rows'[job[r].owner].has = job[r].asked]_vars

\* docs/file-upload-flow.md:77: a submission has a file URL or a link, also when two members submit at
\* the same moment, one a file and the other a link.
SomethingSubmitted ==
  \A g \in Groups : rows[g] # None => \E f \in Fields(g) : rows[g].has[f] # None
=============================================================================
