--------------------------- MODULE ClassroomProofs ---------------------------
(***************************************************************************)
(* Proofs about Classroom: types, and that what a teacher was told of a    *)
(* code or a notice is so while nobody overlaps.                           *)
(***************************************************************************)
EXTENDS Classroom, TLAPS

-----------------------------------------------------------------------------
(* Control *)

Running(r) == pc[r] \notin Ended \cup {"idle"}

ControlType ==
  /\ pc \in [Requests -> Steps]
  /\ job \in [Requests -> Jobs \cup {NoJob}]
  /\ \A r \in Requests : Running(r) => job[r] \in Jobs

NotesType == shared \subseteq Requests /\ told \subseteq Answers

LEMMA TypeParts ==
  TypeOK <=> /\ classes \subseteq ClassRows /\ participants \subseteq ParticipantRows
             /\ notices \subseteq NoticeRows /\ ControlType /\ NotesType
  BY DEF TypeOK, ControlType, NotesType, Running

LEMMA TypeAgain ==
  (/\ classes \subseteq ClassRows /\ participants \subseteq ParticipantRows
   /\ notices \subseteq NoticeRows /\ ControlType /\ NotesType)' => TypeOK'
  BY DEF TypeOK, ControlType, NotesType, Running

\* A request moves alone.
LEMMA GotoMoves ==
  ASSUME ControlType, NEW r \in Requests, NEW step, NEW j, Goto(r, step, j)
  PROVE  /\ pc'[r] = step
         /\ job'[r] = IF step \in Ended THEN NoJob ELSE j
         /\ \A q \in Requests : q # r => pc'[q] = pc[q] /\ job'[q] = job[q]
  BY DEF Goto, ControlType

LEMMA GotoType ==
  ASSUME ControlType, NEW r \in Requests, NEW step \in Steps, NEW j, Goto(r, step, j),
         step \in Ended \/ j \in Jobs
  PROVE  ControlType'
  <1>1. pc' \in [Requests -> Steps]
    BY DEF Goto, ControlType
  <1>2. job' \in [Requests -> Jobs \cup {NoJob}]
    BY DEF Goto, ControlType
  <1>3. \A q \in Requests : Running(q)' => job'[q] \in Jobs
    BY GotoMoves DEF ControlType, Running
  <1> QED
    BY <1>1, <1>2, <1>3 DEF ControlType

\* What a request knows when it has begun is well-formed.
LEMMA NewJobType ==
  ASSUME NEW kind \in {"class", "notice", "participant"}, NEW id \in Ids,
         NEW u \in Teachers \cup Students, NEW x \in Ids, NEW code \in Codes \cup {None},
         NEW old \in Codes \cup {None}, NEW body \in Bodies \cup {None}
  PROVE  /\ NewJob(Row(kind, id), u, x) \in Jobs
         /\ [NewJob(Row(kind, id), u, x) EXCEPT !.code = code] \in Jobs
         /\ [NewJob(Row(kind, id), u, x) EXCEPT !.code = code, !.old = old] \in Jobs
         /\ [NewJob(Row(kind, id), u, x) EXCEPT !.body = body] \in Jobs
  <1>1. Row(kind, id) \in Rows
    BY DEF Row, Rows
  <1> QED
    BY <1>1 DEF NewJob, Jobs

LEMMA BeginType ==
  ASSUME TypeOK, NEW r \in Requests, NEW step \in Steps, NEW j, Begin(r, step, j),
         step \in Ended \/ j \in Jobs
  PROVE  TypeOK'
  <1>1. ControlType'
    BY GotoType, TypeParts DEF Begin
  <1>2. NotesType'
    BY DEF Begin, TypeOK, NotesType, notes
  <1> QED
    BY <1>1, <1>2, TypeAgain DEF Begin, tables, TypeOK

LEMMA ContinueType ==
  ASSUME TypeOK, NEW r \in Requests, NEW step \in Steps, NEW j, Continue(r, step, j),
         step \in Ended \/ j \in Jobs
  PROVE  ControlType' /\ NotesType'
  BY GotoType, TypeParts DEF Continue, notes, NotesType

LEMMA AnswerType ==
  ASSUME TypeOK, NEW r \in Requests, Running(r), NEW is \in Codes \cup Bodies \cup {None}, Answer(r, is)
  PROVE  ControlType' /\ NotesType'
  <1>1. ControlType'
    BY GotoType, TypeParts DEF Answer, Steps, Ended
  <1>2. [row |-> job[r].row, is |-> is] \in Answers
    <2>1. job[r].row \in Rows
      BY TypeParts DEF ControlType, Jobs
    <2> QED
      BY <2>1 DEF Answers
  <1>3. NotesType'
    BY <1>2 DEF Answer, NotesType, TypeOK
  <1> QED
    BY <1>1, <1>3

LEMMA InitType == Init => TypeOK
  <1> SUFFICES ASSUME Init PROVE TypeOK
    OBVIOUS
  <1>1. told \subseteq Answers
    <2>1. ASSUME NEW k \in OldClasses
          PROVE  [row |-> Row("class", k.cid), is |-> k.code] \in Answers
      BY ClassroomAssumption DEF ClassRows, Answers, Rows, Row
    <2>2. ASSUME NEW n \in OldNotices
          PROVE  [row |-> Row("notice", n.nid), is |-> n.body] \in Answers
      BY ClassroomAssumption DEF NoticeRows, Answers, Rows, Row
    <2> QED
      BY <2>1, <2>2 DEF Init
  <1> QED
    BY <1>1, ClassroomAssumption DEF Init, TypeOK, Steps, Ended
-----------------------------------------------------------------------------
(* The invariant *)

\* The class is there, and the request that inserts a row of this id has ended.
HasClass(x) == \E k \in classes : k.cid = x
Born(x)     == x \in Requests => pc[x] = "done"

CodeSteps   == {"checkCode", "insertClass", "selectCode", "updateCode"}
JoinSteps   == {"findParticipant", "insertParticipant"}
NoticeSteps == {"selectNotice", "updateNotice", "reinsertNotice", "removeNotice"}

\* The local variables of a running request fit the step it is at.
Fits(r) ==
  LET j == job[r]
  IN  /\ pc[r] \in CodeSteps =>
           /\ j.row = Row("class", j.cls) /\ j.user \in Teachers /\ j.code \in Codes
           /\ IF j.old = None THEN j.cls = r ELSE HasClass(j.cls)
      /\ pc[r] = "insertClass" => j.old = None
      /\ pc[r] \in {"selectCode", "updateCode"} => j.old # None
      /\ pc[r] \in JoinSteps => j.row = Row("participant", r) /\ j.user \in Students
      /\ pc[r] \in {"insertNotice"} \cup NoticeSteps => j.row.kind = "notice" /\ HasClass(j.cls)
      /\ pc[r] = "insertNotice" => j.row.id = r
      /\ pc[r] \in NoticeSteps => Born(j.row.id)
      /\ pc[r] \in {"insertNotice"} \cup (NoticeSteps \ {"removeNotice"}) => j.body \in Bodies

\* Rows are told apart by their keys, and stay in existing classes.
RowsInv ==
  /\ \A k \in classes : Born(k.cid)
  /\ \A k, l \in classes : k.cid = l.cid \/ k.code = l.code => k = l
  /\ \A n \in notices : Born(n.nid) /\ HasClass(n.cls)
  /\ \A m, n \in notices : m.nid = n.nid => m = n
  /\ \A r \in Requests : Running(r) => Fits(r)

\* Whoever shares a row with another is known to, and nothing is told of such a row.
OverlapInv ==
  /\ \A r \in shared : pc[r] # "idle"
  /\ \A q, r \in Requests : Running(q) /\ Running(r) /\ q # r /\ job[q].row = job[r].row => q \in shared
  /\ \A r \in shared, a \in told : Running(r) => a.row # job[r].row
  /\ \A a \in told : Born(a.row.id)

\* The three things that may be told, and are so.
CodeTold(a) == a.row.kind = "class" /\ \E k \in classes : k.cid = a.row.id /\ k.code = a.is
BodyTold(a) == a.row.kind = "notice" /\ \E n \in notices : n.nid = a.row.id /\ n.body = a.is
GoneTold(a) == /\ a.row.kind = "notice" /\ a.is = None
               /\ \A n \in notices : n.nid # a.row.id
               /\ \A r \in Requests : Running(r) => job[r].row # a.row

\* A request finds its notice as it was when it read it.
AsLeft(r) ==
  pc[r] \in NoticeSteps =>
    /\ pc[r] # "reinsertNotice"
    /\ \E n \in notices : n.nid = job[r].row.id
    /\ pc[r] = "updateNotice" =>
         \A n \in notices : n.nid = job[r].row.id =>
           \A col \in Columns \ job[r].cols : n.body[col] = job[r].body[col]

TruthInv ==
  /\ \A a \in told : CodeTold(a) \/ BodyTold(a) \/ GoneTold(a)
  /\ \A r \in Requests \ shared : AsLeft(r)
-----------------------------------------------------------------------------
\* Every step keeps the tables and the requests well-formed.
LEMMA StepType == TypeOK /\ RowsInv /\ [Next]_vars => TypeOK'
  <1> SUFFICES ASSUME TypeOK, RowsInv, [Next]_vars PROVE TypeOK'
    OBVIOUS
  <1>0. /\ classes \subseteq ClassRows /\ participants \subseteq ParticipantRows
        /\ notices \subseteq NoticeRows /\ ControlType /\ NotesType
    BY TypeParts
  <1>i. \A r \in Requests : r \in Ids
    BY DEF Ids
  <1>1. ASSUME NEW r \in Requests, NEW u \in Teachers, NEW c \in Codes, CreateClass(r, u, c)
        PROVE  TypeOK'
    <2>1. [NewJob(Row("class", r), u, r) EXCEPT !.code = c] \in Jobs
      BY NewJobType, <1>i
    <2> QED
      BY <1>1, <2>1, BeginType DEF CreateClass, Steps
  <1>2. ASSUME NEW r \in Requests, NEW u \in Teachers, NEW x \in Ids, NEW c \in Codes,
               RegenerateCode(r, u, x, c)
        PROVE  TypeOK'
    <2>1. PICK k \in classes : Begin(r, IF k.teacher = u THEN "checkCode" ELSE "failed",
             [NewJob(Row("class", x), u, x) EXCEPT !.code = c, !.old = k.code])
      BY <1>2 DEF RegenerateCode
    <2>2. [NewJob(Row("class", x), u, x) EXCEPT !.code = c, !.old = k.code] \in Jobs
      BY <1>0, NewJobType DEF ClassRows
    <2> QED
      BY <2>1, <2>2, BeginType DEF Steps, Ended
  <1>3. ASSUME NEW r \in Requests, NEW s \in Students, NEW c \in Codes, JoinClass(r, s, c)
        PROVE  TypeOK'
    <2>1. CASE Begin(r, "failed", NoJob)
      BY <2>1, BeginType DEF Steps, Ended
    <2>2. ASSUME NEW k \in classes,
                 Begin(r, "findParticipant", [NewJob(Row("participant", r), s, k.cid) EXCEPT !.code = c])
          PROVE  TypeOK'
      <3>1. [NewJob(Row("participant", r), s, k.cid) EXCEPT !.code = c] \in Jobs
        BY <1>0, <1>i, NewJobType DEF ClassRows
      <3> QED
        BY <2>2, <3>1, BeginType DEF Steps
    <2> QED
      BY <1>3, <2>1, <2>2 DEF JoinClass
  <1>4. ASSUME NEW r \in Requests, NEW u \in Teachers, NEW x \in Ids, NEW body \in Bodies,
               CreateNotice(r, u, x, body)
        PROVE  TypeOK'
    <2>1. PICK k \in classes : Begin(r, IF k.teacher = u THEN "insertNotice" ELSE "failed",
             [NewJob(Row("notice", r), u, x) EXCEPT !.body = body])
      BY <1>4 DEF CreateNotice
    <2>2. [NewJob(Row("notice", r), u, x) EXCEPT !.body = body] \in Jobs
      BY <1>i, NewJobType
    <2> QED
      BY <2>1, <2>2, BeginType DEF Steps, Ended
  <1>5. ASSUME NEW r \in Requests, NEW u \in Teachers, NEW x \in Ids, NEW body \in Bodies,
               UpdateNotice(r, u, x, body)
        PROVE  TypeOK'
    <2>1. PICK n \in notices : Begin(r, IF Owned(u, n) THEN "selectNotice" ELSE "failed",
             [NewJob(Row("notice", x), u, n.cls) EXCEPT !.body = body])
      BY <1>5 DEF UpdateNotice
    <2>2. [NewJob(Row("notice", x), u, n.cls) EXCEPT !.body = body] \in Jobs
      BY <1>0, NewJobType DEF NoticeRows
    <2> QED
      BY <2>1, <2>2, BeginType DEF Steps, Ended
  <1>6. ASSUME NEW r \in Requests, NEW u \in Teachers, NEW x \in Ids, DeleteNotice(r, u, x)
        PROVE  TypeOK'
    <2>1. PICK n \in notices : Begin(r, IF Owned(u, n) THEN "removeNotice" ELSE "failed",
                                     NewJob(Row("notice", x), u, n.cls))
      BY <1>6 DEF DeleteNotice
    <2>2. NewJob(Row("notice", x), u, n.cls) \in Jobs
      BY <1>0, NewJobType DEF NoticeRows
    <2> QED
      BY <2>1, <2>2, BeginType DEF Steps, Ended
  \* A step of a request that is under way.
  <1>7. ASSUME NEW r \in Requests, Running(r)
        PROVE  /\ job[r] \in Jobs /\ r \in Ids
               /\ job[r].row.id \in Ids /\ job[r].cls \in Ids
    BY <1>0, <1>i, <1>7 DEF ControlType, Jobs, Rows
  <1>8. ASSUME NEW r \in Requests, CodeFree(r) \/ (\E c \in Codes : CodeTaken(r, c))
                                   \/ FindParticipant(r) \/ Abort(r)
        PROVE  TypeOK'
    <2>1. PICK step, j : step \in Steps /\ Continue(r, step, j) /\ (step \in Ended \/ j \in Jobs) /\ UNCHANGED tables
      <3>1. Running(r) /\ job[r] \in Jobs
        BY <1>7, <1>8 DEF CodeFree, CodeTaken, FindParticipant, Abort, Running, Ended
      <3>2. \A c \in Codes : [job[r] EXCEPT !.code = c] \in Jobs
        BY <3>1 DEF Jobs
      <3> QED
        BY <1>8, <3>1, <3>2 DEF CodeFree, CodeTaken, FindParticipant, Abort, Steps, Ended
    <2>2. ControlType' /\ NotesType'
      BY <2>1, ContinueType
    <2> QED
      BY <1>0, <2>1, <2>2, TypeAgain DEF tables
  <1>f. \A r \in Requests : Running(r) => Fits(r)
    BY DEF RowsInv
  <1> DEFINE Tabled == classes' \subseteq ClassRows /\ participants' \subseteq ParticipantRows
                       /\ notices' \subseteq NoticeRows
  <1>9. ASSUME Tabled, NEW r \in Requests, Running(r),
               \/ \E is \in Codes \cup Bodies \cup {None} : Answer(r, is)
               \/ \E step \in Steps : \E j : Continue(r, step, j) /\ (step \in Ended \/ j \in Jobs)
        PROVE  TypeOK'
    <2>1. ControlType' /\ NotesType'
      BY <1>9, AnswerType, ContinueType
    <2> QED
      BY <1>9, <2>1, TypeAgain
  <1>10. ASSUME NEW r \in Requests, InsertClass(r) PROVE TypeOK'
    <2>1. Running(r) /\ pc[r] \in CodeSteps
      BY <1>10 DEF InsertClass, Running, Ended, CodeSteps
    <2>2. job[r].user \in Teachers /\ job[r].code \in Codes
      BY <1>f, <2>1 DEF Fits
    <2>3. [cid |-> r, teacher |-> job[r].user, code |-> job[r].code] \in ClassRows
      BY <1>7, <2>1, <2>2 DEF ClassRows
    <2>4. Tabled
      BY <1>0, <1>10, <2>3 DEF InsertClass
    <2>5. \/ Answer(r, job[r].code)
          \/ Continue(r, "failed", job[r])
      BY <1>10 DEF InsertClass
    <2> QED
      BY <1>9, <2>1, <2>2, <2>4, <2>5 DEF Steps, Ended
  <1>11. ASSUME NEW r \in Requests, SelectCode(r) PROVE TypeOK'
    <2>1. Running(r) /\ pc[r] \in CodeSteps
      BY <1>11 DEF SelectCode, Running, Ended, CodeSteps
    <2>2. job[r].code \in Codes
      BY <1>f, <2>1 DEF Fits
    <2>3. \/ Answer(r, job[r].code)
          \/ Continue(r, "updateCode", job[r])
      BY <1>11 DEF SelectCode
    <2>4. Tabled
      BY <1>0, <1>11 DEF SelectCode, tables
    <2> QED
      BY <1>7, <1>9, <2>1, <2>2, <2>3, <2>4 DEF Steps
  <1>12. ASSUME NEW r \in Requests, UpdateCode(r) PROVE TypeOK'
    <2>1. Running(r) /\ pc[r] \in CodeSteps
      BY <1>12 DEF UpdateCode, Running, Ended, CodeSteps
    <2>2. job[r].code \in Codes
      BY <1>f, <2>1 DEF Fits
    <2>3. \A k \in classes : [k EXCEPT !.code = job[r].code] \in ClassRows
      BY <1>0, <2>2 DEF ClassRows
    <2>4. Tabled
      BY <1>0, <1>12, <2>3 DEF UpdateCode
    <2>5. \/ Answer(r, job[r].code)
          \/ Continue(r, "failed", job[r])
      BY <1>12 DEF UpdateCode
    <2> QED
      BY <1>9, <2>1, <2>2, <2>4, <2>5 DEF Steps, Ended
  <1>13. ASSUME NEW r \in Requests, InsertParticipant(r) PROVE TypeOK'
    <2>1. Running(r) /\ pc[r] \in JoinSteps
      BY <1>13 DEF InsertParticipant, Running, Ended, JoinSteps
    <2>2. job[r].user \in Students
      BY <1>f, <2>1 DEF Fits
    <2>3. [cls |-> job[r].cls, student |-> job[r].user, by |-> r] \in ParticipantRows
      BY <1>7, <2>1, <2>2 DEF ParticipantRows
    <2>4. Tabled
      BY <1>0, <1>13, <2>3 DEF InsertParticipant
    <2>5. Continue(r, "failed", job[r]) \/ Continue(r, "done", job[r])
      BY <1>13 DEF InsertParticipant
    <2> QED
      BY <1>9, <2>1, <2>4, <2>5 DEF Steps, Ended
  <1>14. ASSUME NEW r \in Requests, InsertNotice(r) \/ ReinsertNotice(r) PROVE TypeOK'
    <2>1. Running(r) /\ pc[r] \in {"insertNotice", "reinsertNotice"}
      BY <1>14 DEF InsertNotice, ReinsertNotice, Running, Ended
    <2>2. job[r].body \in Bodies
      BY <1>f, <2>1 DEF Fits, NoticeSteps
    <2>3. /\ [nid |-> r, cls |-> job[r].cls, body |-> job[r].body] \in NoticeRows
          /\ [nid |-> job[r].row.id, cls |-> job[r].cls, body |-> job[r].body] \in NoticeRows
      BY <1>7, <2>1, <2>2 DEF NoticeRows
    <2>4. Tabled
      BY <1>0, <1>14, <2>3 DEF InsertNotice, ReinsertNotice
    <2>5. Answer(r, job[r].body) \/ Continue(r, "failed", job[r])
      BY <1>14 DEF InsertNotice, ReinsertNotice
    <2> QED
      BY <1>9, <2>1, <2>2, <2>4, <2>5 DEF Steps, Ended
  <1>15. ASSUME NEW r \in Requests, SelectNotice(r) PROVE TypeOK'
    <2>1. Running(r) /\ pc[r] = "selectNotice"
      BY <1>15 DEF SelectNotice, Running, Ended
    <2>2. job[r].body \in Bodies
      BY <1>f, <2>1 DEF Fits, NoticeSteps
    <2>3. \A cols \in SUBSET Columns : [job[r] EXCEPT !.cols = cols] \in Jobs
      BY <1>7, <2>1 DEF Jobs
    <2>4. \/ Answer(r, job[r].body) \/ Continue(r, "reinsertNotice", job[r])
          \/ \E cols \in SUBSET Columns : Continue(r, "updateNotice", [job[r] EXCEPT !.cols = cols])
      BY <1>15 DEF SelectNotice
    <2>5. Tabled
      BY <1>0, <1>15 DEF SelectNotice, tables
    <2> QED
      BY <1>7, <1>9, <2>1, <2>2, <2>3, <2>4, <2>5 DEF Steps
  <1>16. ASSUME NEW r \in Requests, WriteNotice(r) PROVE TypeOK'
    <2>1. Running(r) /\ pc[r] = "updateNotice"
      BY <1>16 DEF WriteNotice, Running, Ended
    <2>2. job[r].body \in Bodies
      BY <1>f, <2>1 DEF Fits, NoticeSteps
    <2> DEFINE mixed(n) == [col \in Columns |-> IF col \in job[r].cols THEN job[r].body[col] ELSE n.body[col]]
    <2>3. \A n \in notices : mixed(n) \in Bodies
      BY <1>0, <2>2 DEF NoticeRows, Bodies
    <2> HIDE DEF mixed
    <2>4. \A n \in notices : [n EXCEPT !.body = mixed(n)] \in NoticeRows
      BY <1>0, <2>3 DEF NoticeRows
    <2>5. Tabled
      BY <1>0, <1>16, <2>4 DEF WriteNotice, mixed
    <2>6. Answer(r, job[r].body)
      BY <1>16 DEF WriteNotice
    <2> QED
      BY <1>9, <2>1, <2>2, <2>5, <2>6
  <1>17. ASSUME NEW r \in Requests, RemoveNotice(r) PROVE TypeOK'
    <2>1. Running(r) /\ Answer(r, None) /\ Tabled
      BY <1>0, <1>17 DEF RemoveNotice, Running, Ended
    <2> QED
      BY <1>9, <2>1
  <1>18. CASE UNCHANGED vars
    BY <1>18 DEF vars, tables, notes, TypeOK
  <1> QED
    BY <1>1, <1>2, <1>3, <1>4, <1>5, <1>6, <1>8, <1>10, <1>11, <1>12, <1>13, <1>14, <1>15, <1>16, <1>17,
       <1>18 DEF Next, Start, DrawAgain, OtherSteps
-----------------------------------------------------------------------------
(* Rows and local variables *)

\* A step that is not at an end moves one request, which has not ended, and not back to "idle".
LEMMA OneMoves ==
  ASSUME TypeOK, NEW r \in Requests, NEW step \in Steps, NEW j, Goto(r, step, j),
         pc[r] \notin Ended, step # "idle"
  PROVE  \A x : Born(x) => Born(x)'
  BY GotoMoves, TypeParts DEF Born, Ended

\* The other requests still fit.
LEMMA OthersFit ==
  ASSUME TypeOK, RowsInv, NEW r \in Requests, NEW step \in Steps, NEW j, Goto(r, step, j),
         pc[r] \notin Ended, step # "idle",
         \A x : HasClass(x) => HasClass(x)',
         step \in Ended \/ Fits(r)'
  PROVE  \A q \in Requests : Running(q)' => Fits(q)'
  <1>1. /\ pc'[r] = step
        /\ \A q \in Requests : q # r => pc'[q] = pc[q] /\ job'[q] = job[q]
    BY GotoMoves, TypeParts
  <1>2. \A x : Born(x) => Born(x)'
    BY OneMoves
  <1>3. ASSUME NEW q \in Requests, Running(q)', q # r PROVE Fits(q)'
    <2>1. Running(q) /\ Fits(q) /\ pc'[q] = pc[q] /\ job'[q] = job[q]
      BY <1>1, <1>3 DEF RowsInv, Running
    <2> QED
      BY <1>2, <2>1 DEF Fits
  <1>4. Running(r)' => Fits(r)'
    BY <1>1 DEF Running
  <1> QED
    BY <1>3, <1>4

\* A step that leaves the tables alone.
LEMMA RowsKept ==
  ASSUME TypeOK, RowsInv, NEW r \in Requests, NEW step \in Steps, NEW j, Goto(r, step, j),
         pc[r] \notin Ended, step # "idle", UNCHANGED tables,
         step \in Ended \/ Fits(r)'
  PROVE  RowsInv'
  <1>1. \A x : HasClass(x) => HasClass(x)'
    BY DEF HasClass, tables
  <1>2. \A x : Born(x) => Born(x)'
    BY OneMoves
  <1>3. \A q \in Requests : Running(q)' => Fits(q)'
    BY <1>1, OthersFit
  <1> QED
    BY <1>1, <1>2, <1>3 DEF RowsInv, tables

LEMMA RowsInit == Init => RowsInv
  BY ClassroomAssumption DEF Init, RowsInv, Born, HasClass, Running

LEMMA RowsStep == TypeOK /\ RowsInv /\ [Next]_vars => RowsInv'
  <1> SUFFICES ASSUME TypeOK, RowsInv, [Next]_vars PROVE RowsInv'
    OBVIOUS
  <1>0. /\ classes \subseteq ClassRows /\ notices \subseteq NoticeRows /\ ControlType
        /\ \A r \in Requests : Running(r) => Fits(r)
        /\ None \notin Codes /\ None \notin Ids
    BY TypeParts, ClassroomAssumption DEF RowsInv
  <1>1. ASSUME NEW r \in Requests, NEW u \in Teachers, NEW c \in Codes, CreateClass(r, u, c)
        PROVE  RowsInv'
    <2> DEFINE j == [NewJob(Row("class", r), u, r) EXCEPT !.code = c]
    <2>1. Goto(r, "checkCode", j) /\ pc[r] = "idle" /\ UNCHANGED tables
      BY <1>1 DEF CreateClass, Begin
    <2>2. pc'[r] = "checkCode" /\ job'[r] = j
      BY <1>0, <2>1, GotoMoves DEF Ended
    <2>3. Fits(r)'
      BY <2>2 DEF Fits, NewJob, CodeSteps, JoinSteps, NoticeSteps
    <2> QED
      BY <2>1, <2>3, RowsKept DEF Steps, Ended
  <1>2. ASSUME NEW r \in Requests, NEW u \in Teachers, NEW x \in Ids, NEW c \in Codes,
               RegenerateCode(r, u, x, c)
        PROVE  RowsInv'
    <2>1. PICK k \in classes : k.cid = x /\ Begin(r, IF k.teacher = u THEN "checkCode" ELSE "failed",
             [NewJob(Row("class", x), u, x) EXCEPT !.code = c, !.old = k.code])
      BY <1>2 DEF RegenerateCode
    <2> DEFINE j == [NewJob(Row("class", x), u, x) EXCEPT !.code = c, !.old = k.code]
               step == IF k.teacher = u THEN "checkCode" ELSE "failed"
    <2>2. Goto(r, step, j) /\ pc[r] = "idle" /\ UNCHANGED tables
      BY <2>1 DEF Begin
    <2>3. ASSUME step = "checkCode" PROVE Fits(r)'
      <3>1. pc'[r] = "checkCode" /\ job'[r] = j
        BY <1>0, <2>2, <2>3, GotoMoves DEF Ended
      <3>2. HasClass(x)'
        BY <2>1, <2>2 DEF HasClass, tables
      <3>3. k.code \in Codes
        BY <1>0 DEF ClassRows
      <3> QED
        BY <1>0, <3>1, <3>2, <3>3 DEF Fits, NewJob, CodeSteps, JoinSteps, NoticeSteps
    <2> QED
      BY <2>2, <2>3, RowsKept DEF Steps, Ended
  <1>3. ASSUME NEW r \in Requests, NEW s \in Students, NEW c \in Codes, JoinClass(r, s, c)
        PROVE  RowsInv'
    <2>1. CASE Begin(r, "failed", NoJob)
      BY <2>1, RowsKept DEF Begin, Steps, Ended
    <2>2. ASSUME NEW k \in classes,
                 Begin(r, "findParticipant", [NewJob(Row("participant", r), s, k.cid) EXCEPT !.code = c])
          PROVE  RowsInv'
      <3> DEFINE j == [NewJob(Row("participant", r), s, k.cid) EXCEPT !.code = c]
      <3>1. Goto(r, "findParticipant", j) /\ pc[r] = "idle" /\ UNCHANGED tables
        BY <2>2 DEF Begin
      <3>2. pc'[r] = "findParticipant" /\ job'[r] = j
        BY <1>0, <3>1, GotoMoves DEF Ended
      <3>3. Fits(r)'
        BY <3>2 DEF Fits, NewJob, CodeSteps, JoinSteps, NoticeSteps
      <3> QED
        BY <3>1, <3>3, RowsKept DEF Steps, Ended
    <2> QED
      BY <1>3, <2>1, <2>2 DEF JoinClass
  <1>4. ASSUME NEW r \in Requests, NEW u \in Teachers, NEW x \in Ids, NEW body \in Bodies,
               CreateNotice(r, u, x, body)
        PROVE  RowsInv'
    <2>1. PICK k \in classes : k.cid = x /\ Begin(r, IF k.teacher = u THEN "insertNotice" ELSE "failed",
             [NewJob(Row("notice", r), u, x) EXCEPT !.body = body])
      BY <1>4 DEF CreateNotice
    <2> DEFINE j == [NewJob(Row("notice", r), u, x) EXCEPT !.body = body]
               step == IF k.teacher = u THEN "insertNotice" ELSE "failed"
    <2>2. Goto(r, step, j) /\ pc[r] = "idle" /\ UNCHANGED tables
      BY <2>1 DEF Begin
    <2>3. ASSUME step = "insertNotice" PROVE Fits(r)'
      <3>1. pc'[r] = "insertNotice" /\ job'[r] = j
        BY <1>0, <2>2, <2>3, GotoMoves DEF Ended
      <3>2. HasClass(x)'
        BY <2>1, <2>2 DEF HasClass, tables
      <3> QED
        BY <3>1, <3>2 DEF Fits, NewJob, Row, CodeSteps, JoinSteps, NoticeSteps
    <2> QED
      BY <2>2, <2>3, RowsKept DEF Steps, Ended
  <1>5. ASSUME NEW r \in Requests, NEW u \in Teachers, NEW n \in notices, NEW step, NEW j,
               step \in {"selectNotice", "removeNotice", "failed"},
               j.row = Row("notice", n.nid), j.cls = n.cls, step = "selectNotice" => j.body \in Bodies,
               Begin(r, step, j)
        PROVE  RowsInv'
    <2>1. Goto(r, step, j) /\ pc[r] = "idle" /\ UNCHANGED tables
      BY <1>5 DEF Begin
    <2>2. ASSUME step # "failed" PROVE Fits(r)'
      <3>1. pc'[r] = step /\ job'[r] = j
        BY <1>0, <1>5, <2>1, <2>2, GotoMoves DEF Ended
      <3>2. HasClass(n.cls)' /\ Born(n.nid)'
        <4>1. HasClass(n.cls) /\ Born(n.nid)
          BY DEF RowsInv
        <4>2. \A x : Born(x) => Born(x)'
          BY <1>5, <2>1, OneMoves DEF Steps, Ended
        <4> QED
          BY <2>1, <4>1, <4>2 DEF HasClass, tables
      <3> QED
        BY <1>5, <2>2, <3>1, <3>2 DEF Fits, Row, CodeSteps, JoinSteps, NoticeSteps
    <2> QED
      BY <1>5, <2>1, <2>2, RowsKept DEF Steps, Ended
  <1>6. ASSUME NEW r \in Requests, NEW u \in Teachers, NEW x \in Ids,
               DeleteNotice(r, u, x) \/ \E body \in Bodies : UpdateNotice(r, u, x, body)
        PROVE  RowsInv'
    <2>1. CASE DeleteNotice(r, u, x)
      <3>1. PICK n \in notices : n.nid = x /\ Begin(r, IF Owned(u, n) THEN "removeNotice" ELSE "failed",
                                                   NewJob(Row("notice", x), u, n.cls))
        BY <2>1 DEF DeleteNotice
      <3> QED
        BY <1>5, <3>1 DEF NewJob
    <2>2. ASSUME NEW body \in Bodies, UpdateNotice(r, u, x, body) PROVE RowsInv'
      <3>1. PICK n \in notices : n.nid = x /\ Begin(r, IF Owned(u, n) THEN "selectNotice" ELSE "failed",
                                    [NewJob(Row("notice", x), u, n.cls) EXCEPT !.body = body])
        BY <2>2 DEF UpdateNotice
      <3> DEFINE j == [NewJob(Row("notice", x), u, n.cls) EXCEPT !.body = body]
      <3>2. /\ j.row = Row("notice", n.nid) /\ j.cls = n.cls /\ j.body \in Bodies
            /\ Begin(r, IF Owned(u, n) THEN "selectNotice" ELSE "failed", j)
        BY <3>1 DEF NewJob
      <3> HIDE DEF j
      <3> QED
        BY <1>5, <3>1, <3>2
    <2> QED
      BY <1>6, <2>1, <2>2
  \* A step of a request that is under way, and leaves the tables alone.
  <1>7. ASSUME NEW r \in Requests, Running(r), UNCHANGED tables, NEW step \in Steps, NEW j,
               Goto(r, step, j), step # "idle",
               step \in Ended \/ (job'[r] = j /\ pc'[r] = step => Fits(r)')
        PROVE  RowsInv'
    <2>1. pc[r] \notin Ended
      BY <1>7 DEF Running
    <2>2. step \in Ended \/ (job'[r] = j /\ pc'[r] = step)
      BY <1>0, <1>7, GotoMoves
    <2> QED
      BY <1>7, <2>1, <2>2, RowsKept
  <1>8. \A r \in Requests : Running(r) /\ UNCHANGED tables =>
          /\ Fits(r)
          /\ \A x : HasClass(x) => HasClass(x)'
    BY <1>0 DEF HasClass, tables
  <1>9. ASSUME NEW r \in Requests, CodeFree(r) PROVE RowsInv'
    <2> DEFINE step == IF job[r].old = None THEN "insertClass" ELSE "selectCode"
    <2>1. Running(r) /\ pc[r] \in CodeSteps /\ UNCHANGED tables /\ Goto(r, step, job[r])
      BY <1>9 DEF CodeFree, Continue, Running, Ended, CodeSteps
    <2>2. job'[r] = job[r] /\ pc'[r] = step => Fits(r)'
      BY <1>8, <2>1 DEF Fits, CodeSteps, JoinSteps, NoticeSteps
    <2> QED
      BY <1>7, <2>1, <2>2 DEF Steps
  <1>10. ASSUME NEW r \in Requests, NEW c \in Codes, CodeTaken(r, c) PROVE RowsInv'
    <2> DEFINE j == [job[r] EXCEPT !.code = c]
    <2>1. Running(r) /\ pc[r] = "checkCode" /\ UNCHANGED tables /\ Goto(r, "checkCode", j)
      BY <1>10 DEF CodeTaken, Continue, Running, Ended
    <2>2. job[r] \in Jobs
      BY <1>0, <2>1 DEF ControlType
    <2>3. job'[r] = j /\ pc'[r] = "checkCode" => Fits(r)'
      BY <1>8, <2>1, <2>2 DEF Fits, CodeSteps, JoinSteps, NoticeSteps, Jobs
    <2> QED
      BY <1>7, <2>1, <2>3 DEF Steps
  <1>11. ASSUME NEW r \in Requests, SelectCode(r) PROVE RowsInv'
    <2>1. Running(r) /\ pc[r] \in CodeSteps /\ pc[r] = "selectCode" /\ UNCHANGED tables
      BY <1>11 DEF SelectCode, Running, Ended, CodeSteps
    <2>2. Goto(r, "done", NoJob) \/ Goto(r, "updateCode", job[r])
      BY <1>11 DEF SelectCode, Answer, Continue
    <2>3. job'[r] = job[r] /\ pc'[r] = "updateCode" => Fits(r)'
      BY <1>8, <2>1 DEF Fits, CodeSteps, JoinSteps, NoticeSteps
    <2> QED
      BY <1>7, <2>1, <2>2, <2>3 DEF Steps, Ended
  <1>12. ASSUME NEW r \in Requests, FindParticipant(r) PROVE RowsInv'
    <2>1. Running(r) /\ pc[r] \in JoinSteps /\ UNCHANGED tables
      BY <1>12 DEF FindParticipant, Running, Ended, JoinSteps
    <2>2. Goto(r, "failed", job[r]) \/ Goto(r, "insertParticipant", job[r])
      BY <1>12 DEF FindParticipant, Continue
    <2>3. job'[r] = job[r] /\ pc'[r] = "insertParticipant" => Fits(r)'
      BY <1>8, <2>1 DEF Fits, CodeSteps, JoinSteps, NoticeSteps
    <2> QED
      BY <1>7, <2>1, <2>2, <2>3 DEF Steps, Ended
  <1>13. ASSUME NEW r \in Requests, SelectNotice(r) PROVE RowsInv'
    <2>1. Running(r) /\ pc[r] = "selectNotice" /\ UNCHANGED tables
      BY <1>13 DEF SelectNotice, Running, Ended
    <2>2. \/ Goto(r, "done", NoJob) \/ Goto(r, "reinsertNotice", job[r])
          \/ \E cols : Goto(r, "updateNotice", [job[r] EXCEPT !.cols = cols])
      BY <1>13 DEF SelectNotice, Answer, Continue
    <2>3. job[r] \in Jobs
      BY <1>0, <2>1 DEF ControlType
    <2>4. \A x : Born(x) => Born(x)'
      BY <2>1, <2>2, OneMoves DEF Steps, Ended
    <2>5. ASSUME NEW j, job'[r] = j, pc'[r] \in {"reinsertNotice", "updateNotice"},
                 j.row = job[r].row, j.cls = job[r].cls, j.body = job[r].body
          PROVE  Fits(r)'
      <3>1. /\ j.row.kind = "notice" /\ j.body \in Bodies
            /\ HasClass(j.cls) /\ Born(j.row.id)
        BY <1>8, <2>1, <2>5 DEF Fits, NoticeSteps
      <3>2. HasClass(j.cls)' /\ Born(j.row.id)'
        BY <1>8, <2>1, <2>4, <2>5, <3>1
      <3> QED
        BY <2>5, <3>1, <3>2 DEF Fits, CodeSteps, JoinSteps, NoticeSteps
    <2>6. ASSUME NEW cols, Goto(r, "updateNotice", [job[r] EXCEPT !.cols = cols]) PROVE RowsInv'
      <3> DEFINE j == [job[r] EXCEPT !.cols = cols]
      <3>1. j.row = job[r].row /\ j.cls = job[r].cls /\ j.body = job[r].body /\ Goto(r, "updateNotice", j)
        BY <2>3, <2>6 DEF Jobs
      <3> HIDE DEF j
      <3> QED
        BY <1>7, <2>1, <2>5, <3>1 DEF Steps
    <2> QED
      BY <1>7, <2>1, <2>2, <2>5, <2>6 DEF Steps, Ended
  <1>14. ASSUME NEW r \in Requests, Abort(r) PROVE RowsInv'
    <2>1. Running(r) /\ UNCHANGED tables /\ Goto(r, "failed", NoJob)
      BY <1>14 DEF Abort, Continue, Running
    <2> QED
      BY <1>7, <2>1 DEF Steps, Ended
  \* A request that writes and ends.
  <1>15. ASSUME NEW r \in Requests, Running(r), NEW step \in Ended, NEW j, Goto(r, step, j),
                \A x : HasClass(x) => HasClass(x)'
         PROVE  /\ \A q \in Requests : Running(q)' => Fits(q)'
                /\ \A x : Born(x) => Born(x)'
                /\ pc'[r] = step
    BY <1>0, <1>15, OthersFit, OneMoves, GotoMoves DEF Running, Steps, Ended
  <1>16. ASSUME NEW r \in Requests, InsertClass(r) PROVE RowsInv'
    <2>1. Running(r) /\ pc[r] \in CodeSteps /\ pc[r] = "insertClass"
      BY <1>16 DEF InsertClass, Running, Ended, CodeSteps
    <2>2. \A x : HasClass(x) => HasClass(x)'
      BY <1>16 DEF InsertClass, HasClass
    <2>3. CASE Taken(job[r].code)
      <3>1. UNCHANGED tables /\ Goto(r, "failed", job[r])
        BY <1>16, <2>3 DEF InsertClass, Continue, tables
      <3> QED
        BY <1>7, <2>1, <3>1 DEF Steps, Ended
    <2>4. CASE ~Taken(job[r].code)
      <3> DEFINE new == [cid |-> r, teacher |-> job[r].user, code |-> job[r].code]
      <3>1. Goto(r, "done", NoJob) /\ classes' = classes \cup {new} /\ notices' = notices
        BY <1>16, <2>4 DEF InsertClass, Answer
      <3>2. /\ \A q \in Requests : Running(q)' => Fits(q)'
            /\ \A x : Born(x) => Born(x)'
            /\ pc'[r] = "done"
        BY <1>15, <2>1, <2>2, <3>1 DEF Ended
      <3>3. \A k \in classes : k.cid # r /\ k.code # job[r].code
        BY <2>1, <2>4 DEF Taken, RowsInv, Born
      <3>4. new.cid = r /\ new.code = job[r].code
        OBVIOUS
      <3> HIDE DEF new
      <3>5. \A k \in classes' : Born(k.cid)'
        BY <3>1, <3>2, <3>4 DEF RowsInv, Born
      <3> QED
        BY <2>2, <3>1, <3>2, <3>3, <3>4, <3>5 DEF RowsInv
    <2> QED
      BY <2>3, <2>4
  <1>17. ASSUME NEW r \in Requests, UpdateCode(r) PROVE RowsInv'
    <2>1. Running(r) /\ pc[r] \in CodeSteps
      BY <1>17 DEF UpdateCode, Running, Ended, CodeSteps
    <2> DEFINE clash == \E k \in classes : k.code = job[r].code /\ k.cid # job[r].cls
               new(k) == IF k.cid = job[r].cls THEN [k EXCEPT !.code = job[r].code] ELSE k
    <2>2. CASE clash
      <3>1. UNCHANGED tables /\ Goto(r, "failed", job[r])
        BY <1>17, <2>2 DEF UpdateCode, Continue, tables
      <3> QED
        BY <1>7, <2>1, <3>1 DEF Steps, Ended
    <2>3. CASE ~clash
      <3>1. Goto(r, "done", NoJob) /\ classes' = {new(k) : k \in classes} /\ notices' = notices
        BY <1>17, <2>3 DEF UpdateCode, Answer
      <3>2. \A k \in classes : /\ new(k).cid = k.cid
                               /\ new(k).code = IF k.cid = job[r].cls THEN job[r].code ELSE k.code
        BY <1>0 DEF ClassRows
      <3> HIDE DEF new
      <3>3. \A x : HasClass(x) => HasClass(x)'
        BY <3>1, <3>2 DEF HasClass
      <3>4. /\ \A q \in Requests : Running(q)' => Fits(q)'
            /\ \A x : Born(x) => Born(x)'
        BY <1>15, <2>1, <3>1, <3>3 DEF Ended
      <3>5. \A k \in classes' : Born(k.cid)'
        BY <3>1, <3>2, <3>4 DEF RowsInv
      <3>6. ASSUME NEW k \in classes, NEW l \in classes,
                   new(k).cid = new(l).cid \/ new(k).code = new(l).code
            PROVE  k = l
        BY <2>3, <3>2, <3>6 DEF RowsInv
      <3> QED
        BY <3>1, <3>3, <3>4, <3>5, <3>6 DEF RowsInv
    <2> QED
      BY <2>2, <2>3
  <1>18. ASSUME NEW r \in Requests, InsertParticipant(r) PROVE RowsInv'
    <2>1. /\ Running(r) /\ classes' = classes /\ notices' = notices
          /\ Goto(r, "failed", job[r]) \/ Goto(r, "done", job[r])
      BY <1>18 DEF InsertParticipant, Continue, Running, Ended
    <2>2. \A x : HasClass(x) => HasClass(x)'
      BY <2>1 DEF HasClass
    <2>3. /\ \A q \in Requests : Running(q)' => Fits(q)'
          /\ \A x : Born(x) => Born(x)'
      BY <1>15, <2>1, <2>2 DEF Ended
    <2> QED
      BY <2>1, <2>2, <2>3 DEF RowsInv
  \* A request that adds a notice whose id is not there.
  <1>19. ASSUME NEW r \in Requests, Running(r), Goto(r, "done", NoJob), classes' = classes,
                NEW x \in Ids, x = r \/ Born(x), \A n \in notices : n.nid # x, HasClass(job[r].cls),
                notices' = notices \cup {[nid |-> x, cls |-> job[r].cls, body |-> job[r].body]}
         PROVE  RowsInv'
    <2> DEFINE new == [nid |-> x, cls |-> job[r].cls, body |-> job[r].body]
    <2>1. \A y : HasClass(y) => HasClass(y)'
      BY <1>19 DEF HasClass
    <2>2. /\ \A q \in Requests : Running(q)' => Fits(q)'
          /\ \A y : Born(y) => Born(y)'
          /\ pc'[r] = "done"
      BY <1>15, <1>19, <2>1 DEF Ended
    <2>3. new.nid = x /\ new.cls = job[r].cls /\ notices' = notices \cup {new}
      BY <1>19
    <2> HIDE DEF new
    <2>4. \A n \in notices' : Born(n.nid)' /\ HasClass(n.cls)'
      BY <1>19, <2>1, <2>2, <2>3 DEF RowsInv, Born
    <2>5. \A m, n \in notices' : m.nid = n.nid => m = n
      BY <1>19, <2>3 DEF RowsInv
    <2> QED
      BY <1>19, <2>1, <2>2, <2>4, <2>5 DEF RowsInv
  <1>20. ASSUME NEW r \in Requests, InsertNotice(r) PROVE RowsInv'
    <2>1. Running(r) /\ pc[r] = "insertNotice" /\ r \in Ids
      BY <1>20 DEF InsertNotice, Running, Ended, Ids
    <2>2. HasClass(job[r].cls)
      BY <1>0, <2>1 DEF Fits
    <2>3. \A n \in notices : n.nid # r
      BY <2>1 DEF RowsInv, Born
    <2> QED
      BY <1>19, <1>20, <2>1, <2>2, <2>3 DEF InsertNotice, Answer
  <1>21. ASSUME NEW r \in Requests, ReinsertNotice(r) PROVE RowsInv'
    <2>1. Running(r) /\ pc[r] = "reinsertNotice"
      BY <1>21 DEF ReinsertNotice, Running, Ended
    <2>2. HasClass(job[r].cls) /\ Born(job[r].row.id) /\ job[r].row.id \in Ids
      BY <1>0, <2>1 DEF Fits, NoticeSteps, ControlType, Jobs, Rows
    <2>3. CASE NoticeRow(job[r].row.id) # {}
      <3>1. UNCHANGED tables /\ Goto(r, "failed", job[r])
        BY <1>21, <2>3 DEF ReinsertNotice, Continue, tables
      <3> QED
        BY <1>7, <2>1, <3>1 DEF Steps, Ended
    <2>4. CASE NoticeRow(job[r].row.id) = {}
      <3>1. \A n \in notices : n.nid # job[r].row.id
        BY <2>4 DEF NoticeRow
      <3> QED
        BY <1>19, <1>21, <2>1, <2>2, <2>4, <3>1 DEF ReinsertNotice, Answer
    <2> QED
      BY <2>3, <2>4
  <1>22. ASSUME NEW r \in Requests, WriteNotice(r) \/ RemoveNotice(r) PROVE RowsInv'
    <2>1. Running(r) /\ classes' = classes /\ Goto(r, "done", NoJob)
      BY <1>22 DEF WriteNotice, RemoveNotice, Answer, Running, Ended
    <2>2. \A x : HasClass(x) => HasClass(x)'
      BY <2>1 DEF HasClass
    <2>3. /\ \A q \in Requests : Running(q)' => Fits(q)'
          /\ \A x : Born(x) => Born(x)'
      BY <1>15, <2>1, <2>2 DEF Ended
    <2>4. /\ \A n \in notices' : \E m \in notices : n.nid = m.nid /\ n.cls = m.cls
          /\ \A m, n \in notices' : m.nid = n.nid => m = n
      <3>1. CASE RemoveNotice(r)
        BY <3>1 DEF RemoveNotice, RowsInv
      <3>2. CASE WriteNotice(r)
        <4> DEFINE mixed(n) == [col \in Columns |-> IF col \in job[r].cols THEN job[r].body[col] ELSE n.body[col]]
                   new(n) == IF n.nid = job[r].row.id THEN [n EXCEPT !.body = mixed(n)] ELSE n
        <4>1. notices' = {new(n) : n \in notices}
          BY <3>2 DEF WriteNotice
        <4> HIDE DEF mixed
        <4>2. \A n \in notices : new(n).nid = n.nid /\ new(n).cls = n.cls
          BY <1>0 DEF NoticeRows
        <4> HIDE DEF new
        <4> QED
          BY <4>1, <4>2 DEF RowsInv
      <3> QED
        BY <1>22, <3>1, <3>2
    <2> QED
      BY <2>1, <2>2, <2>3, <2>4 DEF RowsInv
  <1>23. CASE UNCHANGED vars
    BY <1>23 DEF vars, tables, RowsInv, Born, HasClass, Running, Fits
  <1> QED
    BY <1>1, <1>2, <1>3, <1>4, <1>6, <1>9, <1>10, <1>11, <1>12, <1>13, <1>14, <1>16, <1>17, <1>18, <1>20,
       <1>21, <1>22, <1>23 DEF Next, Start, DrawAgain, OtherSteps

\* Every reachable state is well-formed, for any number of requests, teachers, students and codes.
THEOREM ClassroomTypeCorrect == Spec => []TypeOK
  <1>1. TypeOK /\ RowsInv /\ [Next]_vars => (TypeOK /\ RowsInv)'
    BY StepType, RowsStep
  <1> QED
    BY <1>1, InitType, RowsInit, PTL DEF Spec

LEMMA RowsAlways == Spec => [](TypeOK /\ RowsInv)
  <1>1. TypeOK /\ RowsInv /\ [Next]_vars => (TypeOK /\ RowsInv)'
    BY StepType, RowsStep
  <1> QED
    BY <1>1, InitType, RowsInit, PTL DEF Spec
-----------------------------------------------------------------------------
(* Overlaps *)

LEMMA OverlapInit == Init => OverlapInv
  BY ClassroomAssumption DEF Init, OverlapInv, Running, Born, Row

\* A request that begins.
LEMMA OverlapBegin ==
  ASSUME TypeOK, OverlapInv, NEW r \in Requests, NEW step \in Steps, NEW j, Begin(r, step, j),
         step = "failed" \/ step \notin Ended \cup {"idle"}
  PROVE  OverlapInv' /\ shared \subseteq shared' /\ told' \subseteq told
  <1> DEFINE rivals == {q \in Requests : Running(q) /\ job[q].row = j.row}
  <1>1. /\ Goto(r, step, j) /\ pc[r] = "idle"
        /\ \/ (step = "failed" \/ rivals = {}) /\ shared' = shared /\ told' = told
           \/ /\ step # "failed" /\ shared' = shared \cup rivals \cup {r}
              /\ told' = {a \in told : a.row # j.row}
    BY DEF Begin, notes, Running
  <1>2. /\ pc'[r] = step
        /\ job'[r] = IF step \in Ended THEN NoJob ELSE j
        /\ \A q \in Requests : q # r => pc'[q] = pc[q] /\ job'[q] = job[q]
    BY <1>1, GotoMoves, TypeParts
  <1>3. \A q \in rivals : q \in Requests /\ Running(q) /\ job[q].row = j.row /\ q # r
    BY <1>1 DEF Running
  <1>4. \A q \in Requests : Running(q) /\ job[q].row = j.row => q \in rivals
    OBVIOUS
  <1> HIDE DEF rivals
  <1>5. r \notin shared
    BY <1>1 DEF OverlapInv
  <1>6. \A q \in Requests : q # r => (Running(q)' <=> Running(q))
    BY <1>2 DEF Running
  <1>7. Running(r)' => step # "failed" /\ job'[r] = j
    BY <1>2 DEF Running, Ended
  <1>8. \A q \in shared' : pc'[q] # "idle"
    BY <1>1, <1>2, <1>3 DEF OverlapInv, Running, TypeOK
  <1>9. ASSUME NEW p \in Requests, NEW q \in Requests, Running(p)', Running(q)', p # q,
               job'[p].row = job'[q].row
        PROVE  p \in shared'
    <2>1. CASE p # r /\ q # r
      BY <1>1, <1>2, <1>6, <1>9, <2>1 DEF OverlapInv
    <2>2. CASE p = r \/ q = r
      BY <1>1, <1>2, <1>4, <1>6, <1>7, <1>9, <2>2
    <2> QED
      BY <2>1, <2>2
  <1>10. ASSUME NEW q \in shared', NEW a \in told', Running(q)' PROVE a.row # job'[q].row
    <2>1. q \in Requests
      BY <1>1, <1>3 DEF TypeOK
    <2>2. CASE q \in shared
      BY <1>1, <1>2, <1>5, <1>6, <1>10, <2>1, <2>2 DEF OverlapInv
    <2>3. CASE q \notin shared
      BY <1>1, <1>2, <1>3, <1>7, <1>10, <2>1, <2>3
    <2> QED
      BY <2>2, <2>3
  <1>11. told' \subseteq told /\ shared \subseteq shared'
    BY <1>1
  <1>12. \A a \in told' : Born(a.row.id)'
    BY <1>1, <1>11, OneMoves DEF OverlapInv, Ended
  <1> QED
    BY <1>8, <1>9, <1>10, <1>11, <1>12 DEF OverlapInv

\* A request that goes on, or ends without an answer.
LEMMA OverlapContinue ==
  ASSUME TypeOK, OverlapInv, NEW r \in Requests, NEW step \in Steps, NEW j, Continue(r, step, j),
         Running(r), step # "idle", step \in Ended \/ j.row = job[r].row
  PROVE  OverlapInv'
  <1>1. /\ pc'[r] = step
        /\ job'[r] = IF step \in Ended THEN NoJob ELSE j
        /\ \A q \in Requests : q # r => pc'[q] = pc[q] /\ job'[q] = job[q]
        /\ shared' = shared /\ told' = told
    BY GotoMoves, TypeParts DEF Continue, notes
  <1>2. \A q \in Requests : Running(q)' => Running(q) /\ job'[q].row = job[q].row
    BY <1>1 DEF Running
  <1>3. \A q \in shared' : q \in Requests /\ pc'[q] # "idle"
    BY <1>1 DEF OverlapInv, TypeOK
  <1>4. \A a \in told' : Born(a.row.id)'
    BY <1>1, OneMoves DEF OverlapInv, Continue, Running
  <1> QED
    BY <1>1, <1>2, <1>3, <1>4 DEF OverlapInv

\* A request that ends with an answer.
LEMMA OverlapAnswer ==
  ASSUME TypeOK, OverlapInv, NEW r \in Requests, NEW is, Answer(r, is), Running(r),
         job[r].row.id = r \/ Born(job[r].row.id)
  PROVE  OverlapInv'
  <1>1. /\ pc'[r] = "done"
        /\ \A q \in Requests : q # r => pc'[q] = pc[q] /\ job'[q] = job[q]
        /\ shared' = shared
    BY GotoMoves, TypeParts DEF Answer
  <1>2. \A q \in Requests : Running(q)' => q # r /\ Running(q) /\ job'[q].row = job[q].row
    BY <1>1 DEF Running, Ended
  <1>3. \A q \in shared' : q \in Requests /\ pc'[q] # "idle"
    BY <1>1 DEF OverlapInv, TypeOK
  <1>4. \A a \in told' : a \in told \/ (a.row = job[r].row /\ r \notin shared)
    BY DEF Answer
  <1>5. \A x : Born(x) => Born(x)'
    BY OneMoves DEF Answer, Running, Steps, Ended
  <1>6. \A a \in told' : Born(a.row.id)'
    BY <1>1, <1>4, <1>5 DEF OverlapInv, Born
  <1>7. ASSUME NEW q \in shared', NEW a \in told', Running(q)' PROVE a.row # job'[q].row
    BY <1>1, <1>2, <1>3, <1>4, <1>7 DEF OverlapInv
  <1> QED
    BY <1>1, <1>2, <1>3, <1>6, <1>7 DEF OverlapInv

\* What a request writes, once it has found what it needs.
LEMMA StartBegins ==
  ASSUME NEW r \in Requests, Start(r)
  PROVE  \E step \in Steps : \E j :
           /\ Begin(r, step, j)
           /\ \/ step = "failed"
              \/ step \in {"checkCode", "findParticipant"} /\ j.row.kind # "notice"
              \/ step = "insertNotice" /\ j.row = Row("notice", r)
              \/ step \in {"selectNotice", "removeNotice"} /\ \E n \in notices : j.row = Row("notice", n.nid)
  <1> DEFINE Kind(step, j) ==
        \/ step = "failed"
        \/ step \in {"checkCode", "findParticipant"} /\ j.row.kind # "notice"
        \/ step = "insertNotice" /\ j.row = Row("notice", r)
        \/ step \in {"selectNotice", "removeNotice"} /\ \E n \in notices : j.row = Row("notice", n.nid)
  <1>1. {"failed", "checkCode", "findParticipant", "insertNotice", "selectNotice", "removeNotice"} \subseteq Steps
    BY DEF Steps, Ended
  <1>2. ASSUME NEW u \in Teachers, NEW c \in Codes, CreateClass(r, u, c)
        PROVE  \E step \in Steps : \E j : Begin(r, step, j) /\ Kind(step, j)
    <2> DEFINE j == [NewJob(Row("class", r), u, r) EXCEPT !.code = c]
    <2>1. Begin(r, "checkCode", j) /\ j.row.kind # "notice"
      BY <1>2 DEF CreateClass, NewJob, Row
    <2> HIDE DEF j
    <2> QED
      BY <1>1, <2>1
  <1>3. ASSUME NEW u \in Teachers, NEW x \in Ids, NEW c \in Codes, RegenerateCode(r, u, x, c)
        PROVE  \E step \in Steps : \E j : Begin(r, step, j) /\ Kind(step, j)
    <2>1. PICK k \in classes : Begin(r, IF k.teacher = u THEN "checkCode" ELSE "failed",
             [NewJob(Row("class", x), u, x) EXCEPT !.code = c, !.old = k.code])
      BY <1>3 DEF RegenerateCode
    <2> DEFINE j == [NewJob(Row("class", x), u, x) EXCEPT !.code = c, !.old = k.code]
    <2>2. Begin(r, IF k.teacher = u THEN "checkCode" ELSE "failed", j) /\ j.row.kind # "notice"
      BY <2>1 DEF NewJob, Row
    <2> HIDE DEF j
    <2> QED
      BY <1>1, <2>2
  <1>4. ASSUME NEW s \in Students, NEW c \in Codes, JoinClass(r, s, c)
        PROVE  \E step \in Steps : \E j : Begin(r, step, j) /\ Kind(step, j)
    <2>1. CASE Begin(r, "failed", NoJob)
      BY <1>1, <2>1
    <2>2. ASSUME NEW k \in classes,
                 Begin(r, "findParticipant", [NewJob(Row("participant", r), s, k.cid) EXCEPT !.code = c])
          PROVE  \E step \in Steps : \E j : Begin(r, step, j) /\ Kind(step, j)
      <3> DEFINE j == [NewJob(Row("participant", r), s, k.cid) EXCEPT !.code = c]
      <3>1. Begin(r, "findParticipant", j) /\ j.row.kind # "notice"
        BY <2>2 DEF NewJob, Row
      <3> HIDE DEF j
      <3> QED
        BY <1>1, <3>1
    <2> QED
      BY <1>4, <2>1, <2>2 DEF JoinClass
  <1>5. ASSUME NEW u \in Teachers, NEW x \in Ids, NEW body \in Bodies, CreateNotice(r, u, x, body)
        PROVE  \E step \in Steps : \E j : Begin(r, step, j) /\ Kind(step, j)
    <2>1. PICK k \in classes : Begin(r, IF k.teacher = u THEN "insertNotice" ELSE "failed",
             [NewJob(Row("notice", r), u, x) EXCEPT !.body = body])
      BY <1>5 DEF CreateNotice
    <2> DEFINE j == [NewJob(Row("notice", r), u, x) EXCEPT !.body = body]
    <2>2. Begin(r, IF k.teacher = u THEN "insertNotice" ELSE "failed", j) /\ j.row = Row("notice", r)
      BY <2>1 DEF NewJob
    <2> HIDE DEF j
    <2> QED
      BY <1>1, <2>2
  <1>6. ASSUME NEW u \in Teachers, NEW x \in Ids, NEW body \in Bodies, UpdateNotice(r, u, x, body)
        PROVE  \E step \in Steps : \E j : Begin(r, step, j) /\ Kind(step, j)
    <2>1. PICK n \in notices : n.nid = x /\ Begin(r, IF Owned(u, n) THEN "selectNotice" ELSE "failed",
             [NewJob(Row("notice", x), u, n.cls) EXCEPT !.body = body])
      BY <1>6 DEF UpdateNotice
    <2> DEFINE j == [NewJob(Row("notice", x), u, n.cls) EXCEPT !.body = body]
    <2>2. Begin(r, IF Owned(u, n) THEN "selectNotice" ELSE "failed", j) /\ j.row = Row("notice", n.nid)
      BY <2>1 DEF NewJob
    <2> HIDE DEF j
    <2> QED
      BY <1>1, <2>2
  <1>7. ASSUME NEW u \in Teachers, NEW x \in Ids, DeleteNotice(r, u, x)
        PROVE  \E step \in Steps : \E j : Begin(r, step, j) /\ Kind(step, j)
    <2>1. PICK n \in notices : n.nid = x /\ Begin(r, IF Owned(u, n) THEN "removeNotice" ELSE "failed",
                                                 NewJob(Row("notice", x), u, n.cls))
      BY <1>7 DEF DeleteNotice
    <2>2. NewJob(Row("notice", x), u, n.cls).row = Row("notice", n.nid)
      BY <2>1 DEF NewJob
    <2> QED
      BY <1>1, <2>1, <2>2
  <1> HIDE DEF Kind
  <1>8. \E step \in Steps : \E j : Begin(r, step, j) /\ Kind(step, j)
    BY <1>2, <1>3, <1>4, <1>5, <1>6, <1>7 DEF Start
  <1> QED
    BY <1>8 DEF Kind

\* The steps that write neither a class nor a notice, nor answer.
LEMMA StepContinues ==
  ASSUME TypeOK, NEW r \in Requests,
         CodeFree(r) \/ DrawAgain(r) \/ FindParticipant(r) \/ InsertParticipant(r) \/ Abort(r)
  PROVE  /\ Running(r) /\ UNCHANGED <<classes, notices>>
         /\ \E step \in Steps \ ({"idle"} \cup NoticeSteps) : \E j :
              Continue(r, step, j) /\ (step \in Ended \/ j.row = job[r].row)
  <1>1. Running(r) /\ UNCHANGED <<classes, notices>>
    BY DEF CodeFree, DrawAgain, CodeTaken, FindParticipant, InsertParticipant, Abort, Running, Ended, tables
  <1>2. job[r] \in Jobs
    BY <1>1, TypeParts DEF ControlType
  <1>3. CASE CodeFree(r) \/ FindParticipant(r) \/ InsertParticipant(r) \/ Abort(r)
    <2>1. \E step \in {"insertClass", "selectCode", "insertParticipant"} : Continue(r, step, job[r])
          \/ \E end \in Ended : \E j : Continue(r, end, j)
      BY <1>3 DEF CodeFree, FindParticipant, InsertParticipant, Abort, Ended
    <2> QED
      BY <1>1, <2>1 DEF Steps, NoticeSteps, Ended
  <1>4. CASE DrawAgain(r)
    <2>1. PICK c \in Codes : Continue(r, "checkCode", [job[r] EXCEPT !.code = c])
      BY <1>4 DEF DrawAgain, CodeTaken
    <2> DEFINE j == [job[r] EXCEPT !.code = c]
    <2>2. Continue(r, "checkCode", j) /\ j.row = job[r].row
      BY <1>2, <2>1 DEF Jobs
    <2> HIDE DEF j
    <2> QED
      BY <1>1, <2>2 DEF Steps, NoticeSteps
  <1> QED
    BY <1>3, <1>4

LEMMA OverlapStep == TypeOK /\ RowsInv /\ OverlapInv /\ [Next]_vars => OverlapInv'
  <1> SUFFICES ASSUME TypeOK, RowsInv, OverlapInv, [Next]_vars PROVE OverlapInv'
    OBVIOUS
  <1>1. ASSUME NEW r \in Requests, Start(r) PROVE OverlapInv'
    <2>1. PICK step, j :
            step \in Steps /\ Begin(r, step, j) /\ (step = "failed" \/ step \notin Ended \cup {"idle"})
      BY <1>1, StartBegins DEF Ended
    <2> QED
      BY <2>1, OverlapBegin
  <1>2. ASSUME NEW r \in Requests,
               CodeFree(r) \/ DrawAgain(r) \/ FindParticipant(r) \/ InsertParticipant(r) \/ Abort(r)
        PROVE  OverlapInv'
    <2>1. /\ Running(r)
          /\ \E step \in Steps \ ({"idle"} \cup NoticeSteps) : \E j :
               Continue(r, step, j) /\ (step \in Ended \/ j.row = job[r].row)
      BY <1>2, StepContinues
    <2> QED
      BY <2>1, OverlapContinue
  \* The row of a request that answers is its own, or there.
  <1>3. ASSUME NEW r \in Requests, Running(r)
        PROVE  /\ job[r] \in Jobs /\ Fits(r)
               /\ pc[r] \in CodeSteps \cup {"insertNotice"} \cup NoticeSteps =>
                    job[r].row.id = r \/ Born(job[r].row.id)
    <2>1. job[r] \in Jobs /\ Fits(r)
      BY <1>3, TypeParts DEF ControlType, RowsInv
    <2>2. CASE pc[r] \in CodeSteps
      <3>1. job[r].row.id = job[r].cls /\ (job[r].cls = r \/ HasClass(job[r].cls))
        BY <2>1, <2>2 DEF Fits, Row
      <3>2. HasClass(job[r].cls) => Born(job[r].cls)
        BY DEF HasClass, RowsInv
      <3> QED
        BY <2>1, <3>1, <3>2
    <2> QED
      BY <2>1, <2>2 DEF Fits
  <1>4. ASSUME NEW r \in Requests, InsertClass(r) \/ SelectCode(r) \/ UpdateCode(r) PROVE OverlapInv'
    <2>1. Running(r) /\ pc[r] \in CodeSteps
      BY <1>4 DEF InsertClass, SelectCode, UpdateCode, Running, Ended, CodeSteps
    <2>2. \/ Answer(r, job[r].code)
          \/ \E step \in {"failed", "updateCode"} : Continue(r, step, job[r])
      BY <1>4 DEF InsertClass, SelectCode, UpdateCode
    <2> QED
      BY <1>3, <2>1, <2>2, OverlapAnswer, OverlapContinue DEF Steps, Ended
  <1>5. ASSUME NEW r \in Requests,
               InsertNotice(r) \/ WriteNotice(r) \/ ReinsertNotice(r) \/ RemoveNotice(r)
        PROVE  OverlapInv'
    <2>1. Running(r) /\ pc[r] \in {"insertNotice"} \cup NoticeSteps
      BY <1>5 DEF InsertNotice, WriteNotice, ReinsertNotice, RemoveNotice, Running, Ended, NoticeSteps
    <2>2. (\E is : Answer(r, is)) \/ Continue(r, "failed", job[r])
      BY <1>5 DEF InsertNotice, WriteNotice, ReinsertNotice, RemoveNotice
    <2> QED
      BY <1>3, <2>1, <2>2, OverlapAnswer, OverlapContinue DEF Steps, Ended
  <1>6. ASSUME NEW r \in Requests, SelectNotice(r) PROVE OverlapInv'
    <2>1. Running(r) /\ pc[r] \in NoticeSteps
      BY <1>6 DEF SelectNotice, Running, Ended, NoticeSteps
    <2>2. \/ Answer(r, job[r].body) \/ Continue(r, "reinsertNotice", job[r])
          \/ \E cols : Continue(r, "updateNotice", [job[r] EXCEPT !.cols = cols])
      BY <1>6 DEF SelectNotice
    <2>3. \A cols : [job[r] EXCEPT !.cols = cols].row = job[r].row
      BY <1>3, <2>1 DEF Jobs
    <2>4. ASSUME NEW cols, Continue(r, "updateNotice", [job[r] EXCEPT !.cols = cols]) PROVE OverlapInv'
      <3> DEFINE j == [job[r] EXCEPT !.cols = cols]
      <3>1. Continue(r, "updateNotice", j) /\ j.row = job[r].row
        BY <2>3, <2>4
      <3> HIDE DEF j
      <3> QED
        BY <2>1, <3>1, OverlapContinue DEF Steps
    <2> QED
      BY <1>3, <2>1, <2>2, <2>4, OverlapAnswer, OverlapContinue DEF Steps
  <1>7. CASE UNCHANGED vars
    BY <1>7 DEF vars, notes, OverlapInv, Running, Born
  <1> QED
    BY <1>1, <1>2, <1>4, <1>5, <1>6, <1>7 DEF Next, OtherSteps
-----------------------------------------------------------------------------
(* What teachers were told *)

LEMMA RowsByParts == \A x, y \in Rows : x.kind = y.kind /\ x.id = y.id => x = y
  BY DEF Rows

LEMMA TruthInit == Init => TruthInv
  <1> SUFFICES ASSUME Init PROVE TruthInv
    OBVIOUS
  <1>1. ASSUME NEW k \in OldClasses PROVE CodeTold([row |-> Row("class", k.cid), is |-> k.code])
    BY DEF Init, CodeTold, Row
  <1>2. ASSUME NEW n \in OldNotices PROVE BodyTold([row |-> Row("notice", n.nid), is |-> n.body])
    BY DEF Init, BodyTold, Row
  <1>3. \A r \in Requests : AsLeft(r)
    BY DEF Init, AsLeft, NoticeSteps
  <1> QED
    BY <1>1, <1>2, <1>3 DEF Init, TruthInv

\* A step that leaves classes and notices alone, and tells nothing new.
LEMMA TruthKept ==
  ASSUME TypeOK, TruthInv, NEW r \in Requests, NEW step \in Steps, NEW j, Goto(r, step, j),
         UNCHANGED <<classes, notices>>, told' \subseteq told, shared \subseteq shared',
         step \in Ended \/ \A a \in told' : GoneTold(a) => j.row # a.row,
         step \in Ended \/ r \in shared' \/ (job'[r] = j /\ pc'[r] = step => AsLeft(r)')
  PROVE  TruthInv'
  <1>1. /\ pc'[r] = step
        /\ job'[r] = IF step \in Ended THEN NoJob ELSE j
        /\ \A q \in Requests : q # r => pc'[q] = pc[q] /\ job'[q] = job[q]
    BY GotoMoves, TypeParts
  <1>2. ASSUME NEW a \in told' PROVE (CodeTold(a) \/ BodyTold(a) \/ GoneTold(a))'
    <2>1. CodeTold(a) \/ BodyTold(a) => (CodeTold(a) \/ BodyTold(a))'
      BY DEF CodeTold, BodyTold
    <2>2. ASSUME GoneTold(a) PROVE GoneTold(a)'
      <3>1. ASSUME NEW q \in Requests, Running(q)' PROVE job'[q].row # a.row
        <4>1. CASE q = r
          BY <1>1, <1>2, <2>2, <3>1, <4>1 DEF Running
        <4>2. CASE q # r
          BY <1>1, <2>2, <3>1, <4>2 DEF Running, GoneTold
        <4> QED
          BY <4>1, <4>2
      <3> QED
        BY <2>2, <3>1 DEF GoneTold
    <2> QED
      BY <2>1, <2>2 DEF TruthInv
  <1>3. ASSUME NEW q \in Requests \ shared' PROVE AsLeft(q)'
    <2>1. CASE q # r
      BY <1>1, <1>3, <2>1 DEF TruthInv, AsLeft
    <2>2. CASE q = r /\ step \in Ended
      BY <1>1, <2>2 DEF AsLeft, NoticeSteps, Ended
    <2>3. CASE q = r /\ step \notin Ended
      BY <1>1, <1>3, <2>3
    <2> QED
      BY <2>1, <2>2, <2>3
  <1> QED
    BY <1>2, <1>3 DEF TruthInv

\* A step that writes the row of r, and answers.
LEMMA TruthAnswer ==
  ASSUME TypeOK, OverlapInv, TruthInv, NEW r \in Requests, Running(r), NEW is, Answer(r, is),
         NEW new, new = [row |-> job[r].row, is |-> is],
         r \notin shared => (CodeTold(new) \/ BodyTold(new) \/ GoneTold(new))',
         \A a \in told : a.row # job[r].row =>
           /\ CodeTold(a) => CodeTold(a)'
           /\ BodyTold(a) => BodyTold(a)'
           /\ GoneTold(a) => \A n \in notices' : n.nid # a.row.id,
         \A q \in Requests \ shared :
           pc[q] \in NoticeSteps /\ AsLeft(q) /\ q # r /\ job[q].row # job[r].row => AsLeft(q)'
  PROVE  TruthInv'
  <1>1. /\ pc'[r] = "done"
        /\ \A q \in Requests : q # r => pc'[q] = pc[q] /\ job'[q] = job[q]
        /\ shared' = shared
    BY GotoMoves, TypeParts DEF Answer
  <1>2. ASSUME NEW a \in told, r \in shared \/ a.row # job[r].row \/ a.is = None
        PROVE  (CodeTold(a) \/ BodyTold(a) \/ GoneTold(a))'
    <2>1. a.row # job[r].row
      <3>1. CASE r \in shared
        BY <3>1 DEF OverlapInv
      <3>2. CASE a.is = None
        <4>1. ~CodeTold(a) /\ ~BodyTold(a)
          BY <3>2, ClassroomAssumption DEF CodeTold, BodyTold, TypeOK, ClassRows, NoticeRows
        <4> QED
          BY <4>1 DEF TruthInv, GoneTold
      <3> QED
        BY <1>2, <3>1, <3>2
    <2>2. GoneTold(a) => GoneTold(a)'
      BY <1>1, <2>1 DEF GoneTold, Running, Ended
    <2> QED
      BY <2>1, <2>2 DEF TruthInv
  <1>3. ASSUME NEW a \in told' PROVE (CodeTold(a) \/ BodyTold(a) \/ GoneTold(a))'
    <2>1. \/ a \in told /\ (r \in shared \/ a.row # job[r].row \/ a.is = None)
          \/ r \notin shared /\ a = new
      BY <1>3 DEF Answer
    <2> QED
      BY <1>2, <2>1
  <1>4. ASSUME NEW q \in Requests \ shared' PROVE AsLeft(q)'
    <2>1. CASE q = r \/ pc[q] \notin NoticeSteps
      BY <1>1, <2>1 DEF AsLeft, NoticeSteps
    <2>2. CASE q # r /\ pc[q] \in NoticeSteps
      <3>1. job[q].row # job[r].row
        BY <1>1, <2>2 DEF OverlapInv, Running, NoticeSteps, Ended
      <3> QED
        BY <1>1, <2>2, <3>1 DEF TruthInv
    <2> QED
      BY <2>1, <2>2
  <1> QED
    BY <1>3, <1>4 DEF TruthInv

LEMMA TruthStep == TypeOK /\ RowsInv /\ OverlapInv /\ TruthInv /\ [Next]_vars => TruthInv'
  <1> SUFFICES ASSUME TypeOK, RowsInv, OverlapInv, TruthInv, [Next]_vars PROVE TruthInv'
    OBVIOUS
  <1>0. classes \subseteq ClassRows /\ notices \subseteq NoticeRows /\ told \subseteq Answers
    BY DEF TypeOK
  <1>1. ASSUME NEW r \in Requests, Start(r) PROVE TruthInv'
    <2>1. PICK step, j :
            /\ step \in Steps /\ Begin(r, step, j)
            /\ \/ step = "failed"
               \/ step \in {"checkCode", "findParticipant"} /\ j.row.kind # "notice"
               \/ step = "insertNotice" /\ j.row = Row("notice", r)
               \/ step \in {"selectNotice", "removeNotice"} /\ \E n \in notices : j.row = Row("notice", n.nid)
      BY <1>1, StartBegins
    <2>2. /\ Goto(r, step, j) /\ pc[r] = "idle" /\ UNCHANGED <<classes, notices>>
          /\ told' \subseteq told /\ shared \subseteq shared'
      BY <2>1 DEF Begin, tables, notes
    <2>3. ASSUME step # "failed", NEW a \in told', GoneTold(a) PROVE j.row # a.row
      <3>1. a \in told /\ Born(a.row.id) /\ a.row.kind = "notice"
        BY <2>2, <2>3 DEF OverlapInv, GoneTold
      <3>2. a.row.id # r
        BY <2>2, <3>1 DEF Born
      <3>3. \A id : Row("notice", id).id = id
        BY DEF Row
      <3>4. CASE j.row.kind # "notice"
        BY <3>1, <3>4
      <3>5. CASE j.row = Row("notice", r)
        BY <3>2, <3>3, <3>5
      <3>6. CASE \E n \in notices : j.row = Row("notice", n.nid)
        BY <2>3, <3>3, <3>6 DEF GoneTold
      <3> QED
        BY <2>1, <2>3, <3>4, <3>5, <3>6
    <2>4. ASSUME step # "failed", job'[r] = j, pc'[r] = step PROVE AsLeft(r)'
      <3>1. CASE step \in {"checkCode", "findParticipant", "insertNotice"}
        BY <2>4, <3>1 DEF AsLeft, NoticeSteps
      <3>2. CASE step \in {"selectNotice", "removeNotice"}
        <4>1. PICK n \in notices : j.row = Row("notice", n.nid)
          BY <2>1, <3>2
        <4>2. j.row.id = n.nid
          BY <4>1 DEF Row
        <4> QED
          BY <2>2, <2>4, <3>2, <4>2 DEF AsLeft
      <3> QED
        BY <2>1, <2>4, <3>1, <3>2
    <2> QED
      BY <2>1, <2>2, <2>3, <2>4, TruthKept DEF Ended
  <1>2. ASSUME NEW r \in Requests,
               CodeFree(r) \/ DrawAgain(r) \/ FindParticipant(r) \/ InsertParticipant(r) \/ Abort(r)
        PROVE  TruthInv'
    <2>1. Running(r) /\ UNCHANGED <<classes, notices>>
      BY <1>2, StepContinues
    <2>2. PICK step, j :
            /\ step \in Steps \ ({"idle"} \cup NoticeSteps)
            /\ Continue(r, step, j) /\ (step \in Ended \/ j.row = job[r].row)
      BY <1>2, StepContinues
    <2>3. Goto(r, step, j) /\ told' = told /\ shared' = shared
      BY <2>2 DEF Continue, notes
    <2>4. step \in Ended \/ \A a \in told' : GoneTold(a) => j.row # a.row
      BY <2>1, <2>2 DEF GoneTold
    <2>5. pc'[r] = step => AsLeft(r)'
      BY <2>2 DEF AsLeft
    <2> QED
      BY <2>1, <2>2, <2>3, <2>4, <2>5, TruthKept
  <1>3. ASSUME NEW r \in Requests, Running(r)
        PROVE  job[r] \in Jobs /\ job[r].row \in Rows /\ Fits(r)
    BY <1>3, TypeParts DEF ControlType, RowsInv, Jobs
  \* A step that ends in failure, or in an answer that was already so.
  <1>4. ASSUME NEW r \in Requests, Continue(r, "failed", job[r]), UNCHANGED <<classes, notices>>
        PROVE  TruthInv'
    BY <1>4, TruthKept DEF Continue, notes, Steps, Ended
  <1>5. ASSUME NEW r \in Requests, Running(r), NEW is, Answer(r, is), UNCHANGED <<classes, notices>>,
               NEW new, new = [row |-> job[r].row, is |-> is], CodeTold(new) \/ BodyTold(new)
        PROVE  TruthInv'
    <2>1. \A a : /\ CodeTold(a) => CodeTold(a)'
                 /\ BodyTold(a) => BodyTold(a)'
      BY <1>5 DEF CodeTold, BodyTold
    <2>2. \A q \in Requests : q # r => pc'[q] = pc[q] /\ job'[q] = job[q]
      BY <1>5, GotoMoves, TypeParts DEF Answer
    <2>3. \A q \in Requests : AsLeft(q) /\ q # r => AsLeft(q)'
      BY <1>5, <2>2 DEF AsLeft
    <2>4. \A a \in told : GoneTold(a) => \A n \in notices' : n.nid # a.row.id
      BY <1>5 DEF GoneTold
    <2> QED
      BY <1>5, <2>1, <2>3, <2>4, TruthAnswer
  <1>6. ASSUME NEW r \in Requests, InsertClass(r) PROVE TruthInv'
    <2>1. Running(r) /\ pc[r] \in CodeSteps /\ pc[r] = "insertClass"
      BY <1>6 DEF InsertClass, Running, Ended, CodeSteps
    <2>2. CASE Taken(job[r].code)
      BY <1>4, <1>6, <2>2 DEF InsertClass
    <2>3. CASE ~Taken(job[r].code)
      <3> DEFINE k == [cid |-> r, teacher |-> job[r].user, code |-> job[r].code]
      <3>1. Answer(r, job[r].code) /\ classes' = classes \cup {k} /\ notices' = notices
        BY <1>6, <2>3 DEF InsertClass
      <3>2. k.cid = r /\ k.code = job[r].code
        OBVIOUS
      <3> HIDE DEF k
      <3>3. PICK new : new = [row |-> job[r].row, is |-> job[r].code]
        OBVIOUS
      <3>4. job[r].row = Row("class", r)
        BY <1>3, <2>1 DEF Fits, CodeSteps
      <3>5. CodeTold(new)'
        BY <3>1, <3>2, <3>3, <3>4 DEF CodeTold, Row
      <3>6. \A a : /\ CodeTold(a) => CodeTold(a)'
                   /\ BodyTold(a) => BodyTold(a)'
                   /\ GoneTold(a) => \A n \in notices' : n.nid # a.row.id
        BY <3>1 DEF CodeTold, BodyTold, GoneTold
      <3>7. \A q \in Requests : q # r => pc'[q] = pc[q] /\ job'[q] = job[q]
        BY <3>1, GotoMoves, TypeParts DEF Answer
      <3>8. \A q \in Requests : AsLeft(q) /\ q # r => AsLeft(q)'
        BY <3>1, <3>7 DEF AsLeft
      <3> QED
        BY <2>1, <3>1, <3>3, <3>5, <3>6, <3>8, TruthAnswer
    <2> QED
      BY <2>2, <2>3
  <1>7. ASSUME NEW r \in Requests, SelectCode(r) PROVE TruthInv'
    <2>1. Running(r) /\ pc[r] \in CodeSteps /\ UNCHANGED <<classes, notices>>
      BY <1>7 DEF SelectCode, Running, Ended, CodeSteps, tables
    <2>2. CASE \E k \in classes : k.cid = job[r].cls /\ k.code = job[r].code
      <3>1. PICK new : new = [row |-> job[r].row, is |-> job[r].code]
        OBVIOUS
      <3>2. job[r].row = Row("class", job[r].cls)
        BY <1>3, <2>1 DEF Fits
      <3>3. CodeTold(new)
        BY <2>2, <3>1, <3>2 DEF CodeTold, Row
      <3> QED
        BY <1>5, <1>7, <2>1, <2>2, <3>1, <3>3 DEF SelectCode
    <2>3. CASE ~\E k \in classes : k.cid = job[r].cls /\ k.code = job[r].code
      <3>1. Goto(r, "updateCode", job[r]) /\ told' = told /\ shared' = shared
        BY <1>7, <2>3 DEF SelectCode, Continue, notes
      <3>2. \A a \in told' : GoneTold(a) => job[r].row # a.row
        BY <2>1 DEF GoneTold
      <3>3. pc'[r] = "updateCode" => AsLeft(r)'
        BY DEF AsLeft, NoticeSteps
      <3> QED
        BY <2>1, <3>1, <3>2, <3>3, TruthKept DEF Steps
    <2> QED
      BY <2>2, <2>3
  <1>8. ASSUME NEW r \in Requests, UpdateCode(r) PROVE TruthInv'
    <2>1. Running(r) /\ pc[r] \in CodeSteps /\ pc[r] = "updateCode" /\ notices' = notices
      BY <1>8 DEF UpdateCode, Running, Ended, CodeSteps
    <2> DEFINE clash == \E k \in classes : k.code = job[r].code /\ k.cid # job[r].cls
               upd(k) == IF k.cid = job[r].cls THEN [k EXCEPT !.code = job[r].code] ELSE k
    <2>2. CASE clash
      BY <1>4, <1>8, <2>2 DEF UpdateCode
    <2>3. CASE ~clash
      <3>1. Answer(r, job[r].code) /\ classes' = {upd(k) : k \in classes}
        BY <1>8, <2>3 DEF UpdateCode
      <3>2. \A k \in classes : /\ upd(k).cid = k.cid
                               /\ upd(k).code = IF k.cid = job[r].cls THEN job[r].code ELSE k.code
        BY <1>0 DEF ClassRows
      <3> HIDE DEF upd
      <3>3. PICK new : new = [row |-> job[r].row, is |-> job[r].code]
        OBVIOUS
      <3>4. job[r].row = Row("class", job[r].cls) /\ HasClass(job[r].cls)
        BY <1>3, <2>1 DEF Fits
      <3>5. CodeTold(new)'
        BY <3>1, <3>2, <3>3, <3>4 DEF CodeTold, HasClass, Row
      <3>6. ASSUME NEW a \in told, a.row # job[r].row, CodeTold(a) PROVE CodeTold(a)'
        <4>1. a.row.id # job[r].cls
          <5>1. a.row \in Rows /\ job[r].row \in Rows
            BY <1>0, <1>3, <2>1 DEF Answers
          <5> QED
            BY <3>4, <3>6, <5>1, RowsByParts DEF CodeTold, Row
        <4> QED
          BY <3>1, <3>2, <3>6, <4>1 DEF CodeTold
      <3>7. \A a : /\ BodyTold(a) => BodyTold(a)'
                   /\ GoneTold(a) => \A n \in notices' : n.nid # a.row.id
        BY <2>1 DEF BodyTold, GoneTold
      <3>8. \A q \in Requests : q # r => pc'[q] = pc[q] /\ job'[q] = job[q]
        BY <3>1, GotoMoves, TypeParts DEF Answer
      <3>9. \A q \in Requests : AsLeft(q) /\ q # r => AsLeft(q)'
        BY <2>1, <3>8 DEF AsLeft
      <3> QED
        BY <2>1, <3>1, <3>3, <3>5, <3>6, <3>7, <3>9, TruthAnswer
    <2> QED
      BY <2>2, <2>3
  \* A step that writes or removes the notice of r: the other notices are as before.
  <1>9. ASSUME NEW r \in Requests, Running(r), job[r].row.kind = "notice", NEW is, Answer(r, is),
               classes' = classes,
               \A n \in notices : n.nid # job[r].row.id => n \in notices',
               \A n \in notices' : n.nid # job[r].row.id => n \in notices,
               NEW new, new = [row |-> job[r].row, is |-> is],
               r \notin shared => (BodyTold(new) \/ GoneTold(new))'
        PROVE  TruthInv'
    <2>1. ASSUME NEW row \in Rows, row.kind = "notice", row # job[r].row PROVE row.id # job[r].row.id
      BY <1>3, <1>9, <2>1, RowsByParts
    <2>2. ASSUME NEW a \in told, a.row # job[r].row
          PROVE  /\ CodeTold(a) => CodeTold(a)'
                 /\ BodyTold(a) => BodyTold(a)'
                 /\ GoneTold(a) => \A n \in notices' : n.nid # a.row.id
      <3>1. a.row.kind = "notice" => a.row.id # job[r].row.id
        BY <1>0, <2>1, <2>2 DEF Answers
      <3> QED
        BY <1>9, <3>1 DEF CodeTold, BodyTold, GoneTold
    <2>3. \A q \in Requests : q # r => pc'[q] = pc[q] /\ job'[q] = job[q]
      BY <1>9, GotoMoves, TypeParts DEF Answer
    <2>4. ASSUME NEW q \in Requests, pc[q] \in NoticeSteps, AsLeft(q), q # r, job[q].row # job[r].row
          PROVE  AsLeft(q)'
      <3>1. job[q].row.id # job[r].row.id
        BY <1>3, <2>1, <2>4 DEF Fits, Running, NoticeSteps, Ended
      <3> QED
        BY <1>9, <2>3, <2>4, <3>1 DEF AsLeft
    <2> QED
      BY <1>9, <2>2, <2>4, TruthAnswer
  <1>10. ASSUME NEW r \in Requests, InsertNotice(r) PROVE TruthInv'
    <2>1. Running(r) /\ pc[r] = "insertNotice" /\ classes' = classes /\ Answer(r, job[r].body)
      BY <1>10 DEF InsertNotice, Running, Ended
    <2>2. job[r].row.kind = "notice" /\ job[r].row.id = r
      BY <1>3, <2>1 DEF Fits
    <2> DEFINE n1 == [nid |-> r, cls |-> job[r].cls, body |-> job[r].body]
    <2>3. notices' = notices \cup {n1} /\ n1.nid = r /\ n1.body = job[r].body
      BY <1>10 DEF InsertNotice
    <2> HIDE DEF n1
    <2>4. PICK new : new = [row |-> job[r].row, is |-> job[r].body]
      OBVIOUS
    <2>5. BodyTold(new)'
      BY <2>2, <2>3, <2>4 DEF BodyTold
    <2> QED
      BY <1>9, <2>1, <2>2, <2>3, <2>4, <2>5
  <1>11. ASSUME NEW r \in Requests, SelectNotice(r) PROVE TruthInv'
    <2>1. Running(r) /\ pc[r] = "selectNotice" /\ UNCHANGED <<classes, notices>>
      BY <1>11 DEF SelectNotice, Running, Ended, tables
    <2>2. job[r] \in Jobs /\ job[r].row.kind = "notice" /\ job[r].body \in Bodies
      BY <1>3, <2>1 DEF Fits, NoticeSteps
    <2>3. \A a \in told : GoneTold(a) => job[r].row # a.row
      BY <2>1 DEF GoneTold
    <2> DEFINE gone == NoticeRow(job[r].row.id) = {}
               differ == {col \in Columns : \E n \in NoticeRow(job[r].row.id) : n.body[col] # job[r].body[col]}
               j == [job[r] EXCEPT !.cols = differ]
    <2>4. CASE gone
      <3>1. Goto(r, "reinsertNotice", job[r]) /\ told' = told /\ shared' = shared
        BY <1>11, <2>4 DEF SelectNotice, Continue, notes
      <3>2. r \in shared
        BY <2>1, <2>4 DEF TruthInv, AsLeft, NoticeSteps, NoticeRow
      <3> QED
        BY <2>1, <2>3, <3>1, <3>2, TruthKept DEF Steps
    <2>5. CASE ~gone /\ differ = {}
      <3>1. Answer(r, job[r].body)
        BY <1>11, <2>5 DEF SelectNotice
      <3>2. PICK n \in notices : n.nid = job[r].row.id
        BY <2>5 DEF NoticeRow
      <3>3. \A col \in Columns : n.body[col] = job[r].body[col]
        BY <2>5, <3>2 DEF NoticeRow
      <3>4. n.body = job[r].body
        BY <1>0, <2>2, <3>3 DEF NoticeRows, Bodies
      <3>5. PICK new : new = [row |-> job[r].row, is |-> job[r].body]
        OBVIOUS
      <3>6. BodyTold(new)
        BY <2>2, <3>2, <3>4, <3>5 DEF BodyTold
      <3> QED
        BY <1>5, <2>1, <3>1, <3>5, <3>6
    <2>6. CASE ~gone /\ differ # {}
      <3>1. Continue(r, "updateNotice", j)
        BY <1>11, <2>6 DEF SelectNotice
      <3>2. j.row = job[r].row /\ j.body = job[r].body /\ j.cols = differ
        BY <2>2 DEF Jobs
      <3>3. \A n \in notices : n.nid = job[r].row.id =>
              \A col \in Columns \ differ : n.body[col] = job[r].body[col]
        BY DEF NoticeRow
      <3>4. \E n \in notices : n.nid = job[r].row.id
        BY <2>6 DEF NoticeRow
      <3> HIDE DEF j, differ
      <3>5. job'[r] = j /\ pc'[r] = "updateNotice" => AsLeft(r)'
        BY <2>1, <3>2, <3>3, <3>4 DEF AsLeft
      <3> QED
        BY <2>1, <2>3, <3>1, <3>2, <3>5, TruthKept DEF Continue, notes, Steps
    <2> QED
      BY <2>4, <2>5, <2>6
  <1>12. ASSUME NEW r \in Requests, WriteNotice(r) PROVE TruthInv'
    <2>1. Running(r) /\ pc[r] = "updateNotice" /\ classes' = classes /\ Answer(r, job[r].body)
      BY <1>12 DEF WriteNotice, Running, Ended
    <2>2. job[r].row.kind = "notice" /\ job[r].body \in Bodies
      BY <1>3, <2>1 DEF Fits, NoticeSteps
    <2> DEFINE mixed(n) == [col \in Columns |-> IF col \in job[r].cols THEN job[r].body[col] ELSE n.body[col]]
               upd(n) == IF n.nid = job[r].row.id THEN [n EXCEPT !.body = mixed(n)] ELSE n
    <2>3. notices' = {upd(n) : n \in notices}
      BY <1>12 DEF WriteNotice
    <2>4. ASSUME NEW n \in notices, \A col \in Columns \ job[r].cols : n.body[col] = job[r].body[col]
          PROVE  mixed(n) = job[r].body
      BY <2>2, <2>4 DEF Bodies
    <2> HIDE DEF mixed
    <2>5. \A n \in notices : /\ upd(n).nid = n.nid
                             /\ IF n.nid = job[r].row.id THEN upd(n).body = mixed(n) ELSE upd(n) = n
      BY <1>0 DEF NoticeRows
    <2> HIDE DEF upd
    <2>6. PICK new : new = [row |-> job[r].row, is |-> job[r].body]
      OBVIOUS
    <2>7. ASSUME r \notin shared PROVE BodyTold(new)'
      <3>1. PICK n \in notices : /\ n.nid = job[r].row.id
                                 /\ \A col \in Columns \ job[r].cols : n.body[col] = job[r].body[col]
        BY <2>1, <2>7 DEF TruthInv, AsLeft, NoticeSteps
      <3> QED
        BY <2>2, <2>3, <2>4, <2>5, <2>6, <3>1 DEF BodyTold
    <2> QED
      BY <1>9, <2>1, <2>2, <2>3, <2>5, <2>6, <2>7
  <1>13. ASSUME NEW r \in Requests, ReinsertNotice(r) PROVE TruthInv'
    <2>1. Running(r) /\ pc[r] = "reinsertNotice" /\ classes' = classes
      BY <1>13 DEF ReinsertNotice, Running, Ended
    <2>2. job[r].row.kind = "notice" /\ r \in shared
      BY <1>3, <2>1 DEF Fits, TruthInv, AsLeft, NoticeSteps
    <2>3. CASE NoticeRow(job[r].row.id) # {}
      BY <1>4, <1>13, <2>1, <2>3 DEF ReinsertNotice
    <2>4. CASE NoticeRow(job[r].row.id) = {}
      <3> DEFINE n1 == [nid |-> job[r].row.id, cls |-> job[r].cls, body |-> job[r].body]
      <3>1. Answer(r, job[r].body) /\ notices' = notices \cup {n1} /\ n1.nid = job[r].row.id
        BY <1>13, <2>4 DEF ReinsertNotice
      <3> HIDE DEF n1
      <3>2. PICK new : new = [row |-> job[r].row, is |-> job[r].body]
        OBVIOUS
      <3> QED
        BY <1>9, <2>1, <2>2, <3>1, <3>2
    <2> QED
      BY <2>3, <2>4
  <1>14. ASSUME NEW r \in Requests, RemoveNotice(r) PROVE TruthInv'
    <2>1. Running(r) /\ pc[r] = "removeNotice" /\ classes' = classes /\ Answer(r, None)
          /\ notices' = {n \in notices : n.nid # job[r].row.id}
      BY <1>14 DEF RemoveNotice, NoticeRow, Running, Ended
    <2>2. job[r].row.kind = "notice"
      BY <1>3, <2>1 DEF Fits, NoticeSteps
    <2>3. PICK new : new = [row |-> job[r].row, is |-> None]
      OBVIOUS
    <2>4. /\ pc'[r] = "done"
          /\ \A q \in Requests : q # r => pc'[q] = pc[q] /\ job'[q] = job[q]
      BY <2>1, GotoMoves, TypeParts DEF Answer
    <2>5. ASSUME r \notin shared PROVE GoneTold(new)'
      <3>1. ASSUME NEW q \in Requests, Running(q)' PROVE job'[q].row # new.row
        BY <2>1, <2>3, <2>4, <2>5, <3>1 DEF OverlapInv, Running, Ended
      <3> QED
        BY <2>1, <2>2, <2>3, <3>1 DEF GoneTold
    <2> QED
      BY <1>9, <2>1, <2>2, <2>3, <2>5
  <1>15. CASE UNCHANGED vars
    BY <1>15 DEF vars, tables, notes, TruthInv, CodeTold, BodyTold, GoneTold, AsLeft, Running
  <1> QED
    BY <1>1, <1>2, <1>6, <1>7, <1>8, <1>10, <1>11, <1>12, <1>13, <1>14, <1>15 DEF Next, OtherSteps

LEMMA TruthAlways == Spec => [](TypeOK /\ RowsInv /\ TruthInv)
  <1>1. TypeOK /\ RowsInv /\ OverlapInv /\ TruthInv /\ [Next]_vars
          => (TypeOK /\ RowsInv /\ OverlapInv /\ TruthInv)'
    BY StepType, RowsStep, OverlapStep, TruthStep
  <1>2. Init => TypeOK /\ RowsInv /\ OverlapInv /\ TruthInv
    BY InitType, RowsInit, OverlapInit, TruthInit
  <1> QED
    BY <1>1, <1>2, PTL DEF Spec

\* The code a teacher was told last finds the class, and no other, while no two regenerations of it
\* overlap, however many teachers, classes and codes there are.
THEOREM ToldCodes == Spec => []ToldCodesLeadHome
  <1>1. TypeOK /\ RowsInv /\ TruthInv => ToldCodesLeadHome
    <2> SUFFICES ASSUME RowsInv, TruthInv, NEW a \in told, a.row.kind = "class"
                 PROVE  {k.cid : k \in {k \in classes : k.code = a.is}} = {a.row.id}
      BY DEF ToldCodesLeadHome
    <2>1. PICK k \in classes : k.cid = a.row.id /\ k.code = a.is
      BY DEF TruthInv, CodeTold, BodyTold, GoneTold
    <2>2. \A l \in classes : l.code = a.is => l = k
      BY <2>1 DEF RowsInv
    <2> QED
      BY <2>1, <2>2
  <1> QED
    BY <1>1, TruthAlways, PTL

\* A notice reads as its teacher was told last while no two writers of it overlap.
THEOREM ToldNotices == Spec => []ToldNoticesShown
  <1>1. TypeOK /\ RowsInv /\ TruthInv => ToldNoticesShown
    <2> SUFFICES ASSUME TypeOK, RowsInv, TruthInv, NEW a \in told, a.row.kind = "notice"
                 PROVE  /\ a.is # None => \E k \in classes : \E n \in NoticeList(k) : n.nid = a.row.id
                        /\ \A n \in notices : n.nid = a.row.id => n.body = a.is
      BY DEF ToldNoticesShown, NoticeList
    <2>1. BodyTold(a) \/ GoneTold(a)
      BY DEF TruthInv, CodeTold
    <2>2. CASE GoneTold(a)
      BY <2>2 DEF GoneTold
    <2>3. CASE BodyTold(a)
      <3>1. PICK n \in notices : n.nid = a.row.id /\ n.body = a.is
        BY <2>3 DEF BodyTold
      <3>2. \A m \in notices : m.nid = a.row.id => m = n
        BY <3>1 DEF RowsInv
      <3>3. PICK k \in classes : k.cid = n.cls
        BY DEF RowsInv, HasClass
      <3> QED
        BY <3>1, <3>2, <3>3 DEF NoticeList
    <2> QED
      BY <2>1, <2>2, <2>3
  <1> QED
    BY <1>1, TruthAlways, PTL
====
