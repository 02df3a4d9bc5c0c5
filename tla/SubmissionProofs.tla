--------------------------- MODULE SubmissionProofs ---------------------------
(***************************************************************************)
(* Machine-checked proofs about Submissions, for any number of requests,   *)
(* groups and students, and about the file URLs that are submitted, for    *)
(* any uploads, foreign URLs and environments.                             *)
(***************************************************************************)
EXTENDS Submissions, FileUrls, FiniteSetTheorems, TLAPS

\* The steps at which a request holds the row it has read or made.
RowSteps == {"insert", "saveSelect", "saveUpdate", "saveInsert"}

ControlType ==
  /\ pc \in [Requests -> Steps]
  /\ job \in [Requests -> Jobs \cup {NoJob}]
  /\ \A r \in Requests :
       /\ pc[r] \notin Ended \cup {"idle"} => job[r] \in Jobs /\ Fits(job[r].owner, job[r].asked)
       /\ pc[r] \in RowSteps => job[r].row \in Rows /\ Fits(job[r].owner, job[r].row.has)

TableType ==
  /\ groups \subseteq Groups
  /\ members \subseteq groups \X Students
  /\ rows \in [Owners -> Rows \cup {None}]
  /\ \A o \in Owners : rows[o] # None => (o \in Groups => o \in groups) /\ Fits(o, rows[o].has)

HistoryType == shared \subseteq Requests /\ late \subseteq shared /\ kept \subseteq Owners

Typed == ControlType /\ TableType /\ HistoryType

\* Whoever is about to answer that its row is updated saw a row that only a deletion removes.
Stored ==
  /\ AnsweredIsStored
  /\ \A r \in Requests : pc[r] = "saveUpdate" /\ r \notin late => rows[job[r].owner] # None

\* How far a request that no other has overlapped has come with the row of its owner.
Undisturbed(r) ==
  LET o == job[r].owner
  IN  /\ pc[r] \in RowSteps \cup {"find"} => (o \in Groups => o \in groups)
      /\ pc[r] \in RowSteps => job[r].row.has = job[r].asked
      /\ pc[r] = "insert" => rows[o] = None
      /\ pc[r] \in {"saveSelect", "saveUpdate"} => Present(r)
      /\ pc[r] = "saveUpdate" => \A f \in Columns \ job[r].columns : job[r].row.has[f] = rows[o].has[f]
      /\ pc[r] # "saveInsert"

Alone ==
  \A r \in Running \ shared : At(job[r].owner) = {r} /\ Undisturbed(r)

\* The type invariant follows from its parts.
LEMMA TypedImpliesTypeOK == Typed => TypeOK
  BY DEF Typed, ControlType, TableType, HistoryType, TypeOK

\* A step to well-formed locals keeps the requests and the history well-formed.
LEMMA GotoType ==
  ASSUME Typed, NEW r \in Requests, NEW step \in Steps, NEW j, Goto(r, step, j),
         step \in Ended \/ (/\ j \in Jobs /\ Fits(j.owner, j.asked)
                            /\ (step \in RowSteps => j.row \in Rows /\ Fits(j.owner, j.row.has))),
         step = "done" => job[r] \in Jobs
  PROVE  ControlType' /\ kept' \subseteq Owners
  <1>1. job' = [job EXCEPT ![r] = IF step \in Ended THEN NoJob ELSE j] /\ pc' = [pc EXCEPT ![r] = step]
    BY DEF Goto
  <1>2. \A o, has : Fits(o, has)' = Fits(o, has)
    BY DEF Fits
  <1>3. ControlType'
    BY <1>1, <1>2 DEF Typed, ControlType, RowSteps, Ended
  <1>4. kept' \subseteq Owners
    BY DEF Goto, Typed, HistoryType, Jobs
  <1> QED
    BY <1>3, <1>4

\* Well-formed locals stay so with another row, or other changed columns, in them.
LEMMA JobParts ==
  ASSUME NEW j \in Jobs, NEW w \in Rows \cup {None}, NEW S \in SUBSET Columns
  PROVE  /\ [j EXCEPT !.row = w] \in Jobs
         /\ [j EXCEPT !.row = w].row = w
         /\ [j EXCEPT !.row = w].owner = j.owner
         /\ [j EXCEPT !.row = w].asked = j.asked
         /\ [j EXCEPT !.columns = S] \in Jobs
         /\ [j EXCEPT !.columns = S].row = j.row
         /\ [j EXCEPT !.columns = S].columns = S
         /\ [j EXCEPT !.columns = S].owner = j.owner
         /\ [j EXCEPT !.columns = S].asked = j.asked
  BY DEF Jobs

\* What a request asks for fits the table of its owner.
LEMMA AskedFits ==
  ASSUME NEW o \in Owners, NEW s \in Students, NEW form \in Forms(o)
  PROVE  Fits(o, Asked(o, s, form))
  <1>1. PICK fs \in SUBSET Fields(o) \ {{}}, v \in [Fields(o) -> Values] :
          form = [f \in Columns |-> IF f \in fs THEN v[f] ELSE None]
    BY DEF Forms
  <1>2. Fields(o) \subseteq Columns /\ "submittedBy" \in Columns /\ "submittedBy" \notin Fields(o)
    BY DEF Fields, Columns
  <1>3. /\ form \in Contents /\ form["submittedBy"] = None
        /\ \A f \in Columns \ Fields(o) : form[f] = None
    BY <1>1, <1>2 DEF Contents
  <1>4. CASE o \in Groups
    <2>1. Asked(o, s, form) = [form EXCEPT !["submittedBy"] = s]
      BY <1>4 DEF Asked
    <2>2. [form EXCEPT !["submittedBy"] = s] \in Contents
      BY <1>2, <1>3 DEF Contents
    <2>3. /\ [form EXCEPT !["submittedBy"] = s]["submittedBy"] = s
          /\ \A f \in Columns \ {"submittedBy"} : [form EXCEPT !["submittedBy"] = s][f] = form[f]
      BY <1>2, <1>3 DEF Contents
    <2> QED
      BY <1>3, <1>4, <2>1, <2>2, <2>3 DEF Fits
  <1>5. CASE o \notin Groups
    BY <1>3, <1>5 DEF Asked, Fits
  <1> QED
    BY <1>4, <1>5

\* A row that takes some columns from another one that fits the same table fits it, too.
LEMMA MixedFits ==
  ASSUME NEW o \in Owners, NEW w \in Rows, NEW v \in Rows, Fits(o, w.has), Fits(o, v.has), NEW S
  PROVE  /\ [w EXCEPT !.has = [f \in Columns |-> IF f \in S THEN v.has[f] ELSE @[f]]] \in Rows
         /\ Fits(o, [w EXCEPT !.has = [f \in Columns |-> IF f \in S THEN v.has[f] ELSE @[f]]].has)
  <1> DEFINE mixed == [f \in Columns |-> IF f \in S THEN v.has[f] ELSE w.has[f]]
  <1>1. mixed \in Contents
    BY DEF Fits, Contents
  <1>2. \A f \in Columns : mixed[f] = v.has[f] \/ mixed[f] = w.has[f]
    OBVIOUS
  <1>3. "submittedBy" \in Columns
    BY DEF Columns
  <1>4. [w EXCEPT !.has = [f \in Columns |-> IF f \in S THEN v.has[f] ELSE @[f]]] = [w EXCEPT !.has = mixed]
    BY DEF Rows
  <1> HIDE DEF mixed
  <1>5. [w EXCEPT !.has = mixed] \in Rows /\ [w EXCEPT !.has = mixed].has = mixed
    BY <1>1 DEF Rows
  <1>6. Fits(o, mixed)
    BY <1>1, <1>2, <1>3 DEF Fits
  <1> QED
    BY <1>4, <1>5, <1>6
-----------------------------------------------------------------------------
(* Type correctness *)

\* The initial state is well-formed, and no request is under way.
LEMMA InitTyped == Init => Typed /\ Stored /\ Alone
  <1> SUFFICES ASSUME Init PROVE Typed /\ Stored /\ Alone
    OBVIOUS
  <1>1. ControlType
    BY DEF Init, ControlType, Steps, Ended, RowSteps
  <1>2. TableType
    BY DEF Init, TableType
  <1>3. HistoryType
    BY DEF Init, HistoryType
  <1>4. Stored
    BY DEF Init, Stored, AnsweredIsStored
  <1>5. Alone
    BY DEF Init, Alone, Running
  <1> QED
    BY <1>1, <1>2, <1>3, <1>4, <1>5 DEF Typed

\* What the group service does keeps the state well-formed.
LEMMA GroupTyped ==
  ASSUME Typed, NEW g \in Groups,
         DeleteGroup(g) \/ ReinsertGroup(g) \/ \E s \in Students : AddMember(g, s) \/ RemoveMember(g, s)
  PROVE  Typed'
  <1>1. UNCHANGED <<pc, job>>
    BY DEF DeleteGroup, ReinsertGroup, AddMember, RemoveMember
  <1>2. ControlType'
    BY <1>1 DEF Typed, ControlType, Fits
  <1>3. TableType'
    <2>1. CASE DeleteGroup(g)
      <3>1. members' \subseteq groups' \X Students
        BY <2>1 DEF DeleteGroup, Typed, TableType
      <3>2. rows' \in [Owners -> Rows \cup {None}] /\ \A o \in Owners : rows'[o] = IF o = g THEN None ELSE rows[o]
        BY <2>1 DEF DeleteGroup, Typed, TableType, Owners
      <3> QED
        BY <2>1, <3>1, <3>2 DEF DeleteGroup, Typed, TableType, Fits
    <2>2. CASE ~ DeleteGroup(g)
      BY <2>2 DEF ReinsertGroup, AddMember, RemoveMember, Typed, TableType, Fits
    <2> QED
      BY <2>1, <2>2
  <1>4. HistoryType'
    BY DEF DeleteGroup, ReinsertGroup, AddMember, RemoveMember, Typed, HistoryType, At, Running, aux
  <1> QED
    BY <1>2, <1>3, <1>4 DEF Typed

\* The row a request is about to save is well-formed and has what was asked for.
LEMMA FindRow ==
  ASSUME Typed, NEW r \in Requests, Find(r)
  PROVE  \E w \in Rows, step \in {"insert", "saveSelect"} :
           Goto(r, step, [job[r] EXCEPT !.row = w]) /\ w.has = job[r].asked
  <1> DEFINE o == job[r].owner
  <1>1. job[r].asked \in Contents /\ o \in Owners
    BY DEF Find, Typed, ControlType, Ended, Jobs
  <1>2. CASE rows[o] = None
    <2> DEFINE w == [id |-> r, has |-> job[r].asked]
    <2>1. w \in Rows /\ w.has = job[r].asked
      BY <1>1 DEF Rows
    <2>2. Goto(r, "insert", [job[r] EXCEPT !.row = w])
      BY <1>2 DEF Find
    <2> HIDE DEF w
    <2> QED
      BY <2>1, <2>2
  <1>3. CASE rows[o] # None
    <2>1. Entity(r) \in Rows /\ Entity(r).has = job[r].asked
      BY <1>1, <1>3 DEF Entity, Resubmitted, Rows, Typed, TableType
    <2>2. Goto(r, "saveSelect", [job[r] EXCEPT !.row = Entity(r)])
      BY <1>3 DEF Find
    <2> QED
      BY <2>1, <2>2
  <1> QED
    BY <1>2, <1>3

\* The steps before the save keep the state well-formed.
LEMMA SubmitTyped ==
  ASSUME Typed, NEW r \in Requests,
         \/ \E o \in Owners, s \in Students : \E form \in Forms(o) : Submit(r, o, s, form)
         \/ Refuse(r) \/ Access(r) \/ Find(r) \/ Abort(r)
  PROVE  Typed'
  <1>1. ASSUME NEW o \in Owners, NEW s \in Students, NEW form \in Forms(o), Submit(r, o, s, form) PROVE Typed'
    <2> DEFINE j == [NoJob EXCEPT !.owner = o, !.student = s, !.asked = Asked(o, s, form)]
    <2>1. Fits(o, Asked(o, s, form))
      BY AskedFits
    <2>2. j \in Jobs /\ j.owner = o /\ j.asked = Asked(o, s, form)
      BY <2>1 DEF NoJob, Jobs, Fits
    <2>3. Goto(r, IF o \in Groups THEN "access" ELSE "find", j)
      BY <1>1 DEF Submit
    <2> HIDE DEF j
    <2>4. ControlType' /\ kept' \subseteq Owners
      BY <2>1, <2>2, <2>3, GotoType DEF Steps, RowSteps
    <2>5. late' \subseteq shared' /\ shared' \subseteq Requests
      BY <1>1 DEF Submit, Typed, HistoryType, At, Running
    <2> QED
      BY <1>1, <2>4, <2>5 DEF Submit, Typed, TableType, HistoryType, Fits
  <1>2. CASE Refuse(r) \/ Abort(r)
    <2>1. ControlType' /\ kept' \subseteq Owners
      BY <1>2, GotoType DEF Refuse, Abort, Steps, Ended
    <2> QED
      BY <1>2, <2>1 DEF Refuse, Abort, Typed, TableType, HistoryType, Fits
  <1>3. CASE Access(r)
    <2>1. job[r] \in Jobs /\ Fits(job[r].owner, job[r].asked)
      BY <1>3 DEF Access, Typed, ControlType, Ended
    <2>2. ControlType' /\ kept' \subseteq Owners
      BY <1>3, <2>1, GotoType DEF Access, Steps, Ended, RowSteps
    <2> QED
      BY <1>3, <2>2 DEF Access, Typed, TableType, HistoryType, Fits
  <1>4. CASE Find(r)
    <2> DEFINE o == job[r].owner
    <2>1. job[r] \in Jobs /\ Fits(o, job[r].asked) /\ o \in Owners
      BY <1>4 DEF Find, Typed, ControlType, Ended, Jobs
    <2>2. PICK w \in Rows, step \in {"insert", "saveSelect"} :
            Goto(r, step, [job[r] EXCEPT !.row = w]) /\ w.has = job[r].asked
      BY <1>4, FindRow
    <2> DEFINE j == [job[r] EXCEPT !.row = w]
    <2>3. j \in Jobs /\ j.row = w /\ j.owner = o /\ j.asked = job[r].asked
      BY <2>1, <2>2, JobParts
    <2>4. Goto(r, step, j)
      BY <2>2
    <2> HIDE DEF j
    <2>5. ControlType' /\ kept' \subseteq Owners
      BY <2>1, <2>2, <2>3, <2>4, GotoType DEF Steps
    <2> QED
      BY <1>4, <2>5 DEF Find, Typed, TableType, HistoryType, Fits
  <1> QED
    BY <1>1, <1>2, <1>3, <1>4

\* What SaveUpdate makes of the row of the owner.
LEMMA UpdatedRows ==
  ASSUME Typed, NEW r \in Requests, SaveUpdate(r), Present(r)
  PROVE  /\ rows' \in [Owners -> Rows \cup {None}]
         /\ \A o \in Owners \ {job[r].owner} : rows'[o] = rows[o]
         /\ rows'[job[r].owner] \in Rows
         /\ Fits(job[r].owner, rows'[job[r].owner].has)
         /\ rows'[job[r].owner].has =
              [f \in Columns |-> IF f \in job[r].columns THEN job[r].row.has[f] ELSE rows[job[r].owner].has[f]]
  <1> DEFINE o == job[r].owner
             w == [rows[o] EXCEPT !.has = [f \in Columns |-> IF f \in job[r].columns THEN job[r].row.has[f] ELSE @[f]]]
  <1>1. o \in Owners /\ job[r].row \in Rows /\ Fits(o, job[r].row.has)
    BY DEF SaveUpdate, Typed, ControlType, Ended, RowSteps, Jobs
  <1>2. rows[o] \in Rows /\ Fits(o, rows[o].has)
    BY <1>1 DEF Present, Typed, TableType
  <1>3. rows' = [rows EXCEPT ![o] = w]
    BY DEF SaveUpdate
  <1>4. w \in Rows /\ Fits(o, w.has)
    BY <1>1, <1>2, MixedFits
  <1>5. w.has = [f \in Columns |-> IF f \in job[r].columns THEN job[r].row.has[f] ELSE rows[o].has[f]]
    BY <1>2 DEF Rows
  <1> HIDE DEF w
  <1> QED
    BY <1>1, <1>3, <1>4, <1>5 DEF Typed, TableType

\* repository.save keeps the state well-formed.
LEMMA SaveTyped ==
  ASSUME Typed, NEW r \in Requests, Insert(r) \/ SaveSelect(r) \/ SaveUpdate(r)
  PROVE  Typed'
  <1> DEFINE o == job[r].owner
  <1>1. /\ job[r] \in Jobs /\ Fits(o, job[r].asked) /\ o \in Owners
        /\ job[r].row \in Rows /\ Fits(o, job[r].row.has)
    BY DEF Insert, SaveSelect, SaveUpdate, Typed, ControlType, Ended, RowSteps, Jobs
  <1>2. CASE Insert(r)
    <2>1. ControlType' /\ kept' \subseteq Owners
      BY <1>1, <1>2, GotoType DEF Insert, Steps, Ended, RowSteps
    <2>2. TableType'
      BY <1>1, <1>2 DEF Insert, Insertable, Typed, TableType, Fits
    <2> QED
      BY <1>2, <2>1, <2>2 DEF Insert, Typed, HistoryType
  <1>3. CASE SaveSelect(r)
    <2> DEFINE changed == {f \in Columns : job[r].row.has[f] # rows[o].has[f]}
               j == [job[r] EXCEPT !.columns = changed]
    <2>1. j \in Jobs /\ j.row = job[r].row /\ j.owner = o /\ j.asked = job[r].asked
      BY <1>1, JobParts
    <2>2. Goto(r, "saveInsert", job[r]) \/ Goto(r, "done", job[r]) \/ Goto(r, "saveUpdate", j)
      BY <1>3 DEF SaveSelect
    <2> HIDE DEF j
    <2>3. ControlType' /\ kept' \subseteq Owners
      BY <1>1, <2>1, <2>2, GotoType DEF Steps, Ended, RowSteps
    <2> QED
      BY <1>3, <2>3 DEF SaveSelect, Typed, TableType, HistoryType, Fits
  <1>4. CASE SaveUpdate(r)
    <2>1. ControlType' /\ kept' \subseteq Owners
      BY <1>1, <1>4, GotoType DEF SaveUpdate, Steps, Ended
    <2>2. TableType'
      <3>1. CASE Present(r)
        <4>1. UNCHANGED <<groups, members>> /\ rows' \in [Owners -> Rows \cup {None}]
          BY <1>4, <3>1, UpdatedRows DEF SaveUpdate
        <4>2. ASSUME NEW p \in Owners, rows'[p] # None
              PROVE  (p \in Groups => p \in groups) /\ Fits(p, rows'[p].has)
          <5>1. CASE p = o
            BY <1>4, <3>1, <4>2, <5>1, UpdatedRows DEF Present, Typed, TableType
          <5>2. CASE p # o
            <6>1. rows'[p] = rows[p]
              BY <1>4, <3>1, <5>2, UpdatedRows
            <6> QED
              BY <4>2, <6>1 DEF Typed, TableType
          <5> QED
            BY <5>1, <5>2
        <4>3. \A q, has : Fits(q, has)' = Fits(q, has)
          BY DEF Fits
        <4> QED
          BY <4>1, <4>2, <4>3 DEF Typed, TableType
      <3>2. CASE ~ Present(r)
        BY <1>4, <3>2 DEF SaveUpdate, Typed, TableType, Fits
      <3> QED
        BY <3>1, <3>2
    <2> QED
      BY <1>4, <2>1, <2>2 DEF SaveUpdate, Typed, HistoryType
  <1> QED
    BY <1>2, <1>3, <1>4

\* Every step keeps the state well-formed.
LEMMA NextTyped == Typed /\ [Next]_vars => Typed'
  <1> SUFFICES ASSUME Typed, [Next]_vars PROVE Typed'
    OBVIOUS
  <1>1. ASSUME NEW g \in Groups,
               DeleteGroup(g) \/ ReinsertGroup(g) \/ \E s \in Students : AddMember(g, s) \/ RemoveMember(g, s)
        PROVE Typed'
    BY <1>1, GroupTyped
  <1>2. ASSUME NEW r \in Requests,
               \/ \E o \in Owners, s \in Students : \E form \in Forms(o) : Submit(r, o, s, form)
               \/ Refuse(r) \/ Access(r) \/ Find(r) \/ Abort(r)
        PROVE Typed'
    BY <1>2, SubmitTyped
  <1>3. ASSUME NEW r \in Requests, Insert(r) \/ SaveSelect(r) \/ SaveUpdate(r) PROVE Typed'
    BY <1>3, SaveTyped
  <1>4. CASE UNCHANGED vars
    BY <1>4 DEF vars, aux, Typed, ControlType, TableType, HistoryType, Fits
  <1> QED
    BY <1>1, <1>2, <1>3, <1>4 DEF Next

\* However submissions, saves of stale rows and deletions of groups mix, each table keeps rows of its
\* own columns, and every submission is of a group that is there.
THEOREM SubmissionTypeCorrect == Spec => []TypeOK
  BY InitTyped, NextTyped, TypedImpliesTypeOK, PTL DEF Spec
-----------------------------------------------------------------------------
(* Answered submissions are stored *)

\* A step that answers nothing, and keeps rows and deletions as they are, keeps what is stored.
LEMMA QuietStored ==
  ASSUME Typed, Stored, NEW r \in Requests, NEW step, NEW j, Goto(r, step, j),
         step \notin {"done", "saveUpdate"}, UNCHANGED <<rows, late>>
  PROVE  Stored'
  <1>1. kept' = kept /\ \A q \in Requests : pc'[q] = "saveUpdate" => pc[q] = "saveUpdate" /\ job'[q] = job[q]
    BY DEF Goto, Typed, ControlType
  <1> QED
    BY <1>1 DEF Stored, AnsweredIsStored

\* A step that answers with the row there, and removes none, keeps what is stored.
LEMMA AnswerStored ==
  ASSUME Typed, Stored, NEW r \in Requests, NEW j, Goto(r, "done", j), UNCHANGED late,
         \A o \in Owners : rows[o] # None => rows'[o] # None,
         r \notin late => rows'[job[r].owner] # None,
         job[r] \in Jobs
  PROVE  Stored'
  <1>1. kept' \subseteq kept \cup (IF r \in late THEN {} ELSE {job[r].owner})
    BY DEF Goto
  <1>2. AnsweredIsStored'
    BY <1>1 DEF AnsweredIsStored, Stored, Typed, HistoryType
  <1>3. ASSUME NEW q \in Requests, pc'[q] = "saveUpdate", q \notin late PROVE rows'[job'[q].owner] # None
    <2>1. q # r /\ pc[q] = "saveUpdate" /\ job'[q] = job[q]
      BY <1>3 DEF Goto, Typed, ControlType
    <2>2. job[q] \in Jobs /\ job[q].owner \in Owners
      BY <2>1 DEF Typed, ControlType, Ended, Jobs
    <2> QED
      BY <1>3, <2>1, <2>2 DEF Stored
  <1> QED
    BY <1>2, <1>3 DEF Stored

\* Every step keeps what is stored: only a deletion removes rows, and it makes those late that
\* were about to answer.
LEMMA NextStored == Typed /\ Stored /\ [Next]_vars => Stored'
  <1> SUFFICES ASSUME Typed, Stored, [Next]_vars PROVE Stored'
    OBVIOUS
  <1>1. ASSUME NEW g \in Groups, DeleteGroup(g) PROVE Stored'
    <2>1. \A o \in Owners \ {g} : rows'[o] = rows[o]
      BY <1>1 DEF DeleteGroup, Typed, TableType
    <2>2. AnsweredIsStored'
      BY <1>1, <2>1 DEF DeleteGroup, Stored, AnsweredIsStored, Typed, HistoryType
    <2>3. ASSUME NEW q \in Requests, pc'[q] = "saveUpdate", q \notin late' PROVE rows'[job'[q].owner] # None
      <3>1. pc[q] = "saveUpdate" /\ job'[q] = job[q] /\ q \notin late /\ q \notin At(g)
        BY <1>1, <2>3 DEF DeleteGroup
      <3>2. job[q] \in Jobs /\ job[q].owner \in Owners /\ job[q].owner # g
        BY <3>1 DEF Typed, ControlType, Ended, Jobs, At, Running
      <3> QED
        BY <2>1, <3>1, <3>2 DEF Stored
    <2> QED
      BY <2>2, <2>3 DEF Stored
  <1>2. CASE \/ UNCHANGED vars
             \/ \E g \in Groups : ReinsertGroup(g) \/ \E s \in Students : AddMember(g, s) \/ RemoveMember(g, s)
    BY <1>2 DEF vars, aux, ReinsertGroup, AddMember, RemoveMember, Stored, AnsweredIsStored
  <1>3. ASSUME NEW r \in Requests,
               \/ \E o \in Owners, s \in Students : \E form \in Forms(o) : Submit(r, o, s, form)
               \/ Refuse(r) \/ Access(r) \/ Find(r) \/ Abort(r)
        PROVE Stored'
    <2>1. UNCHANGED <<rows, late>>
      BY <1>3 DEF Submit, Refuse, Access, Find, Abort
    <2>2. \E step, j : Goto(r, step, j) /\ step \notin {"done", "saveUpdate"}
      <3>1. CASE \E o \in Owners, s \in Students : \E form \in Forms(o) : Submit(r, o, s, form)
        BY <3>1 DEF Submit
      <3>2. CASE Refuse(r) \/ Abort(r)
        BY <3>2 DEF Refuse, Abort
      <3>3. CASE Access(r)
        BY <3>3 DEF Access
      <3>4. CASE Find(r)
        BY <3>4 DEF Find
      <3> QED
        BY <1>3, <3>1, <3>2, <3>3, <3>4
    <2> QED
      BY <2>1, <2>2, QuietStored
  <1>4. ASSUME NEW r \in Requests, Insert(r) PROVE Stored'
    <2> DEFINE o == job[r].owner
    <2>1. job[r] \in Jobs /\ o \in Owners /\ job[r].row \in Rows /\ job[r].row # None
      BY <1>4, SubmissionAssumption DEF Insert, Typed, ControlType, Ended, RowSteps, Jobs
    <2>2. CASE Insertable(o)
      <3>1. Goto(r, "done", job[r]) /\ rows' = [rows EXCEPT ![o] = job[r].row] /\ late' = late
        BY <1>4, <2>2 DEF Insert
      <3>2. rows'[o] # None /\ \A p \in Owners : rows[p] # None => rows'[p] # None
        BY <2>1, <3>1 DEF Typed, TableType
      <3> QED
        BY <2>1, <3>1, <3>2, AnswerStored
    <2>3. CASE ~ Insertable(o)
      BY <1>4, <2>3, QuietStored DEF Insert
    <2> QED
      BY <2>2, <2>3
  <1>5. ASSUME NEW r \in Requests, SaveSelect(r) PROVE Stored'
    <2> DEFINE changed == {f \in Columns : job[r].row.has[f] # rows[job[r].owner].has[f]}
               j == [job[r] EXCEPT !.columns = changed]
    <2>1. job[r] \in Jobs /\ UNCHANGED <<rows, late>>
      BY <1>5 DEF SaveSelect, Typed, ControlType, Ended
    <2>2. CASE ~ Present(r)
      <3>1. Goto(r, "saveInsert", job[r])
        BY <1>5, <2>2 DEF SaveSelect
      <3> QED
        BY <2>1, <3>1, QuietStored
    <2>3. CASE Present(r) /\ changed = {}
      <3>1. Goto(r, "done", job[r])
        BY <1>5, <2>3 DEF SaveSelect
      <3> QED
        BY <2>1, <2>3, <3>1, AnswerStored DEF Present
    <2>4. CASE Present(r) /\ changed # {}
      <3>1. Goto(r, "saveUpdate", j)
        BY <1>5, <2>4 DEF SaveSelect
      <3>2. j.owner = job[r].owner
        BY <2>1 DEF Jobs
      <3> HIDE DEF j
      <3>3. /\ kept' = kept /\ job'[r] = j
            /\ \A q \in Requests \ {r} : pc'[q] = pc[q] /\ job'[q] = job[q]
        BY <3>1 DEF Goto, Typed, ControlType, Ended
      <3> QED
        BY <2>1, <2>4, <3>2, <3>3 DEF Stored, AnsweredIsStored, Present
    <2> QED
      BY <2>2, <2>3, <2>4
  <1>6. ASSUME NEW r \in Requests, SaveUpdate(r) PROVE Stored'
    <2>1. job[r] \in Jobs /\ Goto(r, "done", job[r]) /\ UNCHANGED late /\ pc[r] = "saveUpdate"
      BY <1>6 DEF SaveUpdate, Typed, ControlType, Ended
    <2>2. CASE Present(r)
      <3>1. rows'[job[r].owner] # None
        BY <1>6, <2>2, UpdatedRows, SubmissionAssumption
      <3>2. \A p \in Owners : rows[p] # None => rows'[p] # None
        BY <1>6, <2>2, <3>1, UpdatedRows
      <3> QED
        BY <2>1, <3>1, <3>2, AnswerStored
    <2>3. CASE ~ Present(r)
      <3>1. rows' = rows
        BY <1>6, <2>3 DEF SaveUpdate
      <3> QED
        BY <2>1, <3>1, AnswerStored DEF Stored
    <2> QED
      BY <2>2, <2>3
  <1> QED
    BY <1>1, <1>2, <1>3, <1>4, <1>5, <1>6 DEF Next

\* Whoever was told that a submission or survey is stored finds one as long as the group is not
\* deleted, for any number of requests that overlap, fail or break off.
THEOREM AnsweredStored == Spec => []AnsweredIsStored
  <1>1. Stored => AnsweredIsStored
    BY DEF Stored
  <1> QED
    BY <1>1, InitTyped, NextTyped, NextStored, PTL DEF Spec
-----------------------------------------------------------------------------
(* A submission nobody overlaps is stored as it was asked for *)

\* What Undisturbed says of a request depends on its locals, its owner's row and its group.
LEMMA SameUndisturbed ==
  ASSUME NEW q \in Requests, Undisturbed(q), pc'[q] = pc[q], job'[q] = job[q],
         rows'[job[q].owner] = rows[job[q].owner],
         job[q].owner \in groups => job[q].owner \in groups'
  PROVE  Undisturbed(q)'
  BY DEF Undisturbed, Present

\* A step of a request changes nothing for requests of other owners.
LEMMA StepAlone ==
  ASSUME Typed, Alone, NEW r \in Running, NEW step \in Steps \ {"idle"}, NEW j, Goto(r, step, j),
         step \in Ended \/ j.owner = job[r].owner,
         UNCHANGED <<groups, shared>>,
         \A o \in Owners \ {job[r].owner} : rows'[o] = rows[o],
         step \notin Ended /\ r \notin shared /\ pc'[r] = step /\ job'[r] = j => Undisturbed(r)'
  PROVE  Alone'
  <1> SUFFICES ASSUME NEW q \in (Running \ shared)' PROVE At(job[q].owner)' = {q} /\ Undisturbed(q)'
    BY DEF Alone
  <1>1. /\ r \in Requests /\ pc[r] \notin Ended \cup {"idle"} /\ q \notin shared /\ q \in Requests
        /\ pc'[r] = step /\ (step \notin Ended => job'[r] = j)
        /\ \A p \in Requests \ {r} : pc'[p] = pc[p] /\ job'[p] = job[p]
        /\ pc'[q] \notin Ended \cup {"idle"}
    BY DEF Goto, Typed, ControlType, Running
  <1>2. Running' \subseteq Running /\ \A p \in Running' : job'[p].owner = job[p].owner
    BY <1>1 DEF Running
  <1>3. q \in Running /\ At(job[q].owner) = {q} /\ Undisturbed(q)
    BY <1>1, <1>2 DEF Alone
  <1>4. At(job[q].owner)' = {q}
    BY <1>2, <1>3 DEF At
  <1>5. CASE q = r
    BY <1>1, <1>4, <1>5
  <1>6. CASE q # r
    <2>1. job[q].owner # job[r].owner
      BY <1>3, <1>6 DEF At
    <2>2. job[q] \in Jobs /\ job[q].owner \in Owners
      BY <1>1, <1>3 DEF Typed, ControlType, Running, Jobs
    <2>3. rows'[job[q].owner] = rows[job[q].owner]
      BY <2>1, <2>2
    <2>4. Undisturbed(q)'
      BY <1>1, <1>3, <1>6, <2>3, SameUndisturbed
    <2> QED
      BY <1>4, <2>4
  <1> QED
    BY <1>5, <1>6

\* A request that begins has overlapped the others for its owner, or there are none.
LEMMA SubmitAlone ==
  ASSUME Typed, Alone, NEW r \in Requests, NEW o \in Owners, NEW s \in Students, NEW form \in Forms(o),
         Submit(r, o, s, form)
  PROVE  Alone'
  <1> DEFINE j == [NoJob EXCEPT !.owner = o, !.student = s, !.asked = Asked(o, s, form)]
             step == IF o \in Groups THEN "access" ELSE "find"
  <1>1. /\ Goto(r, step, j) /\ pc[r] = "idle" /\ UNCHANGED <<groups, members, rows>>
        /\ shared' = IF At(o) = {} THEN shared ELSE shared \cup At(o) \cup {r}
    BY DEF Submit
  <1>2. j.owner = o /\ step \in {"access", "find"} /\ (step = "find" => o \notin Groups)
    BY DEF NoJob
  <1> HIDE DEF j, step
  <1>3. /\ pc'[r] = step /\ job'[r] = j /\ r \notin Running
        /\ \A p \in Requests \ {r} : pc'[p] = pc[p] /\ job'[p] = job[p]
    BY <1>1, <1>2 DEF Goto, Typed, ControlType, Ended, Running
  <1>4. Running' = Running \cup {r}
    BY <1>2, <1>3 DEF Running, Ended
  <1>5. ASSUME NEW q \in Running' \ shared' PROVE At(job[q].owner)' = {q} /\ Undisturbed(q)'
    <2>1. CASE q = r
      <3>1. At(o) = {} /\ job'[q].owner = o
        BY <1>1, <1>2, <1>3, <1>5, <2>1
      <3>2. At(job[q].owner)' = {q}
        BY <1>3, <1>4, <2>1, <3>1 DEF At, Running
      <3>3. Undisturbed(q)'
        BY <1>2, <1>3, <2>1 DEF Undisturbed, RowSteps
      <3> QED
        BY <3>2, <3>3
    <2>2. CASE q # r
      <3>1. q \in Running \ shared /\ q \in Requests
        BY <1>1, <1>4, <1>5, <2>2 DEF Running
      <3>2. At(job[q].owner) = {q} /\ Undisturbed(q)
        BY <3>1 DEF Alone
      <3>3. job[q].owner # o
        BY <1>1, <1>5, <3>1 DEF At
      <3>4. At(job[q].owner)' = {q}
        BY <1>2, <1>3, <1>4, <2>2, <3>1, <3>2, <3>3 DEF At, Running
      <3>5. Undisturbed(q)'
        BY <1>1, <1>3, <2>2, <3>1, <3>2, SameUndisturbed
      <3> QED
        BY <3>4, <3>5
    <2> QED
      BY <2>1, <2>2
  <1> QED
    BY <1>5 DEF Alone

\* The group service disturbs only requests for a group it deletes, and records them.
LEMMA GroupAlone ==
  ASSUME Typed, Alone, NEW g \in Groups,
         DeleteGroup(g) \/ ReinsertGroup(g) \/ \E s \in Students : AddMember(g, s) \/ RemoveMember(g, s)
  PROVE  Alone'
  <1>1. UNCHANGED <<pc, job>> /\ shared \subseteq shared'
    BY DEF DeleteGroup, ReinsertGroup, AddMember, RemoveMember, aux
  <1>2. Running' = Running /\ \A o : At(o)' = At(o)
    BY <1>1 DEF Running, At
  <1>3. ASSUME NEW q \in Running' \ shared' PROVE At(job[q].owner)' = {q} /\ Undisturbed(q)'
    <2>1. q \in Requests /\ At(job[q].owner) = {q} /\ Undisturbed(q) /\ job[q].owner \in Owners
      BY <1>1, <1>2, <1>3 DEF Alone, Running, Typed, ControlType, Jobs
    <2>2. CASE DeleteGroup(g)
      <3>1. job[q].owner # g
        BY <1>2, <1>3, <2>1, <2>2 DEF DeleteGroup
      <3>2. rows'[job[q].owner] = rows[job[q].owner] /\ (job[q].owner \in groups => job[q].owner \in groups')
        BY <2>1, <2>2, <3>1 DEF DeleteGroup, Typed, TableType
      <3> QED
        BY <1>1, <1>2, <2>1, <3>2, SameUndisturbed
    <2>3. CASE ~ DeleteGroup(g)
      <3>1. rows' = rows /\ groups \subseteq groups'
        BY <2>3 DEF ReinsertGroup, AddMember, RemoveMember
      <3> QED
        BY <1>1, <1>2, <2>1, <3>1, SameUndisturbed
    <2> QED
      BY <2>2, <2>3
  <1> QED
    BY <1>3 DEF Alone

\* A refused request was not under way.
LEMMA RefuseAlone ==
  ASSUME Typed, Alone, NEW r \in Requests, Refuse(r)
  PROVE  Alone'
  <1>1. UNCHANGED <<groups, rows, shared>> /\ Goto(r, "failed", NoJob) /\ pc[r] = "idle"
    BY DEF Refuse
  <1>2. r \notin Running /\ Running' = Running /\ \A q \in Running : pc'[q] = pc[q] /\ job'[q] = job[q]
    BY <1>1 DEF Goto, Typed, ControlType, Running, Ended
  <1>3. ASSUME NEW q \in Running' \ shared' PROVE At(job[q].owner)' = {q} /\ Undisturbed(q)'
    <2>1. q \in Requests /\ At(job[q].owner) = {q} /\ Undisturbed(q)
      BY <1>1, <1>2, <1>3 DEF Alone, Running
    <2>2. At(job[q].owner)' = At(job[q].owner)
      BY <1>2, <1>3 DEF At
    <2> QED
      BY <1>1, <1>2, <1>3, <2>1, <2>2, SameUndisturbed
  <1> QED
    BY <1>3 DEF Alone

\* The steps of a request under way keep the invariant.
LEMMA RunAlone ==
  ASSUME Typed, Alone, NEW r \in Requests, Access(r) \/ Find(r) \/ Insert(r) \/ SaveSelect(r) \/ Abort(r)
  PROVE  Alone'
  <1> DEFINE o == job[r].owner
  <1>1. r \in Running /\ UNCHANGED <<groups, shared>>
    BY DEF Access, Find, Insert, SaveSelect, Abort, Running, Ended
  <1>2. job[r] \in Jobs /\ o \in Owners
    BY <1>1 DEF Typed, ControlType, Running, Jobs
  <1>3. r \notin shared => Undisturbed(r)
    BY <1>1 DEF Alone
  <1>4. CASE Access(r)
    <2> DEFINE step == IF o \in groups /\ <<o, job[r].student>> \in members THEN "find" ELSE "failed"
    <2>1. Goto(r, step, job[r]) /\ UNCHANGED rows
      BY <1>4 DEF Access
    <2>2. step \in {"find", "failed"} /\ (step = "find" => o \in groups)
      OBVIOUS
    <2> HIDE DEF step
    <2>3. step \notin Ended /\ pc'[r] = step /\ job'[r] = job[r] => Undisturbed(r)'
      BY <1>1, <2>2 DEF Undisturbed, RowSteps, Ended
    <2> QED
      BY <1>1, <2>1, <2>2, <2>3, StepAlone DEF Steps, Ended
  <1>5. CASE Abort(r)
    BY <1>1, <1>5, StepAlone DEF Abort, Steps, Ended
  <1>6. CASE Find(r)
    <2>1. UNCHANGED rows /\ (r \notin shared /\ o \in Groups => o \in groups)
      BY <1>3, <1>6 DEF Find, Undisturbed
    <2>2. CASE rows[o] = None
      <3> DEFINE w == [id |-> r, has |-> job[r].asked]
                 j == [job[r] EXCEPT !.row = w]
      <3>1. Goto(r, "insert", j)
        BY <1>6, <2>2 DEF Find
      <3>2. j.owner = o /\ j.row.has = j.asked
        BY <1>2 DEF Jobs
      <3> HIDE DEF j
      <3>3. r \notin shared /\ pc'[r] = "insert" /\ job'[r] = j => Undisturbed(r)'
        BY <1>1, <2>1, <2>2, <3>2 DEF Undisturbed
      <3> QED
        BY <1>1, <2>1, <3>1, <3>2, <3>3, StepAlone DEF Steps, Ended
    <2>3. CASE rows[o] # None
      <3> DEFINE j == [job[r] EXCEPT !.row = Entity(r)]
      <3>1. Goto(r, "saveSelect", j)
        BY <1>6, <2>3 DEF Find
      <3>2. j.owner = o /\ j.row.has = j.asked /\ j.row.id = rows[o].id
        BY <1>2 DEF Jobs, Entity, Resubmitted
      <3> HIDE DEF j
      <3>3. r \notin shared /\ pc'[r] = "saveSelect" /\ job'[r] = j => Undisturbed(r)'
        BY <1>1, <2>1, <2>3, <3>2 DEF Undisturbed, Present
      <3> QED
        BY <1>1, <2>1, <3>1, <3>2, <3>3, StepAlone DEF Steps, Ended
    <2> QED
      BY <2>2, <2>3
  <1>7. CASE Insert(r)
    <2>1. \A p \in Owners \ {o} : rows'[p] = rows[p]
      BY <1>7 DEF Insert, Typed, TableType
    <2>2. Goto(r, "done", job[r]) \/ Goto(r, "failed", job[r])
      BY <1>7 DEF Insert
    <2> QED
      BY <1>1, <2>1, <2>2, StepAlone DEF Steps, Ended
  <1>8. CASE SaveSelect(r)
    <2> DEFINE changed == {f \in Columns : job[r].row.has[f] # rows[o].has[f]}
               j == [job[r] EXCEPT !.columns = changed]
    <2>1. UNCHANGED rows /\ pc[r] = "saveSelect"
      BY <1>8 DEF SaveSelect
    <2>2. CASE ~ Present(r)
      <3>1. Goto(r, "saveInsert", job[r]) /\ r \in shared
        BY <1>3, <1>8, <2>1, <2>2 DEF SaveSelect, Undisturbed
      <3> QED
        BY <1>1, <2>1, <3>1, StepAlone DEF Steps
    <2>3. CASE Present(r) /\ changed = {}
      <3>1. Goto(r, "done", job[r])
        BY <1>8, <2>3 DEF SaveSelect
      <3> QED
        BY <1>1, <2>1, <3>1, StepAlone DEF Steps, Ended
    <2>4. CASE Present(r) /\ changed # {}
      <3>1. Goto(r, "saveUpdate", j)
        BY <1>8, <2>4 DEF SaveSelect
      <3>2. /\ j.owner = o /\ j.row = job[r].row /\ j.asked = job[r].asked
            /\ \A f \in Columns \ j.columns : job[r].row.has[f] = rows[o].has[f]
        BY <1>2 DEF Jobs
      <3> HIDE DEF j
      <3>3. ASSUME r \notin shared, pc'[r] = "saveUpdate", job'[r] = j PROVE Undisturbed(r)'
        BY <1>1, <1>3, <2>1, <2>4, <3>2, <3>3 DEF Undisturbed, Present, RowSteps
      <3> QED
        BY <1>1, <2>1, <3>1, <3>2, <3>3, StepAlone DEF Steps, Ended
    <2> QED
      BY <2>2, <2>3, <2>4
  <1> QED
    BY <1>4, <1>5, <1>6, <1>7, <1>8

\* Every step keeps the invariant.
LEMMA NextAlone == Typed /\ Alone /\ [Next]_vars => Alone'
  <1> SUFFICES ASSUME Typed, Alone, [Next]_vars PROVE Alone'
    OBVIOUS
  <1>1. CASE UNCHANGED vars
    <2>1. UNCHANGED <<groups, rows, pc, job, shared>>
      BY <1>1 DEF vars, aux
    <2> QED
      BY <2>1 DEF Alone, Running, At, Undisturbed, Present
  <1>2. ASSUME NEW g \in Groups,
               DeleteGroup(g) \/ ReinsertGroup(g) \/ \E s \in Students : AddMember(g, s) \/ RemoveMember(g, s)
        PROVE Alone'
    BY <1>2, GroupAlone
  <1>3. ASSUME NEW r \in Requests, NEW o \in Owners, NEW s \in Students, NEW form \in Forms(o), Submit(r, o, s, form)
        PROVE Alone'
    BY <1>3, SubmitAlone
  <1>4. ASSUME NEW r \in Requests, Refuse(r) PROVE Alone'
    BY <1>4, RefuseAlone
  <1>5. ASSUME NEW r \in Requests, Access(r) \/ Find(r) \/ Insert(r) \/ SaveSelect(r) \/ Abort(r) PROVE Alone'
    BY <1>5, RunAlone
  <1>6. ASSUME NEW r \in Requests, SaveUpdate(r) PROVE Alone'
    <2>1. r \in Running /\ Goto(r, "done", job[r]) /\ UNCHANGED <<groups, shared>>
      BY <1>6 DEF SaveUpdate, Running, Ended
    <2>2. \A p \in Owners \ {job[r].owner} : rows'[p] = rows[p]
      <3>1. CASE Present(r)
        BY <1>6, <3>1, UpdatedRows
      <3>2. CASE ~ Present(r)
        BY <1>6, <3>2 DEF SaveUpdate
      <3> QED
        BY <3>1, <3>2
    <2> QED
      BY <2>1, <2>2, StepAlone DEF Steps, Ended
  <1> QED
    BY <1>1, <1>2, <1>3, <1>4, <1>5, <1>6 DEF Next

\* The answer of a request nobody has overlapped finds the row as it was asked for.
LEMMA AnswerExact ==
  ASSUME Typed, Alone, [Next]_vars, NEW r \in Requests, pc[r] # "done", pc'[r] = "done", r \notin shared
  PROVE  rows'[job[r].owner] # None /\ rows'[job[r].owner].has = job[r].asked
  <1> DEFINE o == job[r].owner
  <1>1. Insert(r) \/ SaveSelect(r) \/ SaveUpdate(r)
    <2>1. pc' # pc
      OBVIOUS
    <2>2. PICK q \in Requests :
            \/ \E p \in Owners, s \in Students : \E form \in Forms(p) : Submit(q, p, s, form)
            \/ Refuse(q) \/ Access(q) \/ Find(q) \/ Insert(q) \/ SaveSelect(q) \/ SaveUpdate(q) \/ Abort(q)
      BY <2>1 DEF Next, vars, DeleteGroup, ReinsertGroup, AddMember, RemoveMember
    <2>3. \E step, j : Goto(q, step, j) /\ (step = "done" => Insert(q) \/ SaveSelect(q) \/ SaveUpdate(q))
      <3>1. CASE \E p \in Owners, s \in Students : \E form \in Forms(p) : Submit(q, p, s, form)
        BY <3>1 DEF Submit
      <3>2. CASE Refuse(q) \/ Abort(q)
        BY <3>2 DEF Refuse, Abort
      <3>3. CASE Access(q)
        BY <3>3 DEF Access
      <3>4. CASE Find(q)
        BY <3>4 DEF Find
      <3>5. CASE Insert(q)
        BY <3>5 DEF Insert
      <3>6. CASE SaveSelect(q)
        BY <3>6 DEF SaveSelect
      <3>7. CASE SaveUpdate(q)
        BY <3>7 DEF SaveUpdate
      <3> QED
        BY <2>2, <3>1, <3>2, <3>3, <3>4, <3>5, <3>6, <3>7
    <2>4. q = r
      BY <2>3 DEF Goto, Typed, ControlType
    <2> QED
      BY <2>3, <2>4 DEF Goto, Typed, ControlType
  <1>2. r \in Running
    BY <1>1 DEF Insert, SaveSelect, SaveUpdate, Running, Ended
  <1>3. /\ Undisturbed(r) /\ pc[r] \in RowSteps /\ o \in Owners /\ job[r].asked \in Contents
        /\ job[r].row \in Rows /\ job[r].row.has = job[r].asked /\ job[r].row # None
    BY <1>1, <1>2, SubmissionAssumption
       DEF Alone, Undisturbed, Insert, SaveSelect, SaveUpdate, RowSteps, Typed, ControlType, Running, Jobs
  <1>4. CASE Insert(r)
    <2>1. Insertable(o)
      BY <1>3, <1>4 DEF Undisturbed, Insert, Insertable, RowSteps
    <2> QED
      BY <1>3, <1>4, <2>1 DEF Insert, Typed, TableType
  <1>5. CASE SaveSelect(r)
    <2> DEFINE changed == {f \in Columns : job[r].row.has[f] # rows[o].has[f]}
               j == [job[r] EXCEPT !.columns = changed]
    <2>1. Present(r) /\ UNCHANGED rows
      BY <1>3, <1>5 DEF SaveSelect, Undisturbed
    <2>2. changed = {}
      <3> SUFFICES ASSUME changed # {} PROVE FALSE
        OBVIOUS
      <3>1. Goto(r, "saveUpdate", j)
        BY <1>5, <2>1 DEF SaveSelect
      <3> HIDE DEF j
      <3> QED
        BY <3>1 DEF Goto, Typed, ControlType
    <2>3. rows[o] \in Rows /\ rows[o] # None
      BY <1>3, <2>1 DEF Present, Typed, TableType
    <2>4. rows[o].has \in Contents /\ \A f \in Columns : rows[o].has[f] = job[r].asked[f]
      BY <1>3, <2>2, <2>3 DEF Rows
    <2>5. rows[o].has = job[r].asked
      BY <1>3, <2>4 DEF Contents
    <2> QED
      BY <2>1, <2>3, <2>5
  <1>6. CASE SaveUpdate(r)
    <2>1. Present(r) /\ \A f \in Columns \ job[r].columns : job[r].row.has[f] = rows[o].has[f]
      BY <1>3, <1>6 DEF SaveUpdate, Undisturbed
    <2>2. /\ rows'[o] \in Rows
          /\ rows'[o].has = [f \in Columns |-> IF f \in job[r].columns THEN job[r].row.has[f] ELSE rows[o].has[f]]
      BY <1>6, <2>1, UpdatedRows
    <2>3. rows'[o].has = [f \in Columns |-> job[r].asked[f]]
      BY <1>3, <2>1, <2>2
    <2>4. [f \in Columns |-> job[r].asked[f]] = job[r].asked
      BY <1>3 DEF Contents
    <2> QED
      BY <2>2, <2>3, <2>4, SubmissionAssumption
  <1> QED
    BY <1>1, <1>4, <1>5, <1>6

\* After a submission or survey that no other request for the same owner overlapped, the row says
\* exactly what was asked for, whatever mixture of answers it held before.
THEOREM SubmissionsExact == Spec => ExactAlone
  <1>1. Typed /\ Alone /\ [Next]_vars =>
          [\A r \in Requests : pc[r] # "done" /\ pc'[r] = "done" /\ r \notin shared =>
             rows'[job[r].owner] # None /\ rows'[job[r].owner].has = job[r].asked]_vars
    BY AnswerExact
  <1> QED
    BY <1>1, InitTyped, NextTyped, NextAlone, PTL DEF Spec, ExactAlone
-----------------------------------------------------------------------------
(* FileUrls *)

UploadNames == [upload : Nat, name : {"safe"}]

\* What is known of an upload: its key is two segments, and its URL is made of the key.
Upload(i) ==
  /\ i.under \in Configs /\ i.under.complete
  /\ i.url = FileUrl(i.key, i.under)
  /\ \E purpose \in Purposes, file \in UploadNames : i.key = <<Dir(purpose), file>>

\* What a stored URL has, whatever the environment it was accepted under.
AssignmentPath(url) == Len(url.path) > 1 /\ url.path[1] = Dir("assignments")

\* The answers remembered were given by the code, each under the environment of its moment.
FileInv ==
  /\ config \in Configs
  /\ IsFiniteSet(issued)
  /\ \A i \in issued : Upload(i)
  /\ stored # Absent => AssignmentPath(stored)
  /\ \A a \in answers : a.key = ExtractedKey(a.url) /\ AssignmentPath(a.url)
  /\ judged # Absent =>
       /\ judged.under \in Configs
       /\ judged.accepted = Accepted(judged.url, judged.under)

\* The invariant holds before anything was uploaded.
LEMMA FileInitInv == FileInit => FileInv
  BY FS_EmptySet DEF FileInit, FileInv

\* An upload gets a key of two segments and the URL that createFileUrl makes of it.
LEMMA IssueInv ==
  ASSUME FileInv, NEW purpose \in Purposes, NEW name \in FileNames, IssueUpload(purpose, name)
  PROVE  FileInv'
  <1> DEFINE n == Cardinality(issued)
  <1> DEFINE key == ObjectKey(purpose, name, n)
  <1> DEFINE new == [key |-> key, url |-> FileUrl(key, config), under |-> config]
  <1>1. n \in Nat
    BY FS_CardinalityType DEF FileInv
  <1>2. [upload |-> n, name |-> "safe"] \in UploadNames
    BY <1>1 DEF UploadNames
  <1>3. Upload(new)
    BY <1>2 DEF Upload, ObjectKey, SafeName, IssueUpload, FileInv
  <1>4. issued' = issued \cup {new} /\ UNCHANGED <<config, stored, answers, judged>>
    BY DEF IssueUpload
  <1>5. IsFiniteSet(issued')
    BY <1>4, FS_AddElement DEF FileInv
  <1> HIDE DEF new
  <1>6. \A i \in issued' : Upload(i)
    BY <1>3, <1>4 DEF FileInv
  <1> QED
    BY <1>4, <1>5, <1>6 DEF FileInv

\* Every step keeps the invariant.
LEMMA FileNextInv == FileInv /\ [FileNext]_fileVars => FileInv'
  <1> SUFFICES ASSUME FileInv, [FileNext]_fileVars PROVE FileInv'
    OBVIOUS
  <1>1. ASSUME NEW purpose \in Purposes, NEW name \in FileNames, IssueUpload(purpose, name) PROVE FileInv'
    BY <1>1, IssueInv
  <1>2. ASSUME NEW url, SubmitFile(url) PROVE FileInv'
    <2>1. Accepted(url, config) => AssignmentPath(url)
      BY DEF Accepted, AssignmentPath
    <2>2. Accepted(url, config) \in BOOLEAN
      BY DEF Accepted
    <2> QED
      BY <1>2, <2>1 DEF SubmitFile, FileInv
  <1>3. CASE SubmitLink
    BY <1>3 DEF SubmitLink, FileInv
  <1>4. CASE Download
    BY <1>4 DEF Download, FileInv
  <1>5. ASSUME NEW c \in Configs, Redeploy(c) PROVE FileInv'
    BY <1>5 DEF Redeploy, FileInv
  <1>6. CASE UNCHANGED fileVars
    BY <1>6 DEF fileVars, FileInv
  <1> QED
    BY <1>1, <1>2, <1>3, <1>4, <1>5, <1>6 DEF FileNext

\* The invariant holds for ever.
LEMMA FileInvariant == FileSpec => []FileInv
  BY FileInitInv, FileNextInv, PTL DEF FileSpec

\* A path without its final slash is a sequence of directories.
LEMMA WithoutSlashType ==
  ASSUME NEW path \in Seq([dir : STRING])
  PROVE  /\ WithoutSlash(path) \in Seq([dir : STRING])
         /\ WithoutSlash(path) # <<>> => path # <<>> /\ WithoutSlash(path)[1] = path[1]
  BY DEF WithoutSlash, Front, Last

\* A key is two segments.
LEMMA KeyShape ==
  ASSUME NEW i, Upload(i)
  PROVE  i.key \in Seq({i.key[1], i.key[2]}) /\ Len(i.key) = 2 /\ i.key[2] \in UploadNames
  <1>1. PICK purpose \in Purposes, file \in UploadNames : i.key = <<Dir(purpose), file>>
    BY DEF Upload
  <1> QED
    BY <1>1

\* The URL of an upload under a base without a path has the key as its path.
LEMMA OriginPath ==
  ASSUME NEW i, Upload(i), IsOrigin(i.under)
  PROVE  i.url.path = i.key
  <1>1. <<>> \o i.key = i.key
    BY KeyShape
  <1>2. CASE i.under.base = Absent
    BY <1>2 DEF Upload, FileUrl
  <1>3. CASE i.under.base # Absent
    <2>1. i.url.path = WithoutSlash(i.under.base.path) \o i.key
      BY <1>3 DEF Upload, FileUrl
    <2> QED
      BY <1>1, <1>3, <2>1 DEF IsOrigin
  <1> QED
    BY <1>2, <1>3

\* A path of two segments extends the empty path.
LEMMA EmptyPrefix ==
  ASSUME NEW s, NEW S, s \in Seq(S), Len(s) = 2
  PROVE  IsStrictPrefix(<<>>, s)
  BY DEF IsStrictPrefix, IsPrefix

\* docs/file-upload-flow.md: of the URLs issued under an address without a path, those for
\* assignments are accepted, and no other: createFileUrl and getAllowedAssignmentFileUrlPrefixes
\* agree on every environment.
THEOREM IssuedAccepted == FileSpec => []IssuedUrlsAccepted
  <1>1. ASSUME FileInv PROVE IssuedUrlsAccepted
    <2> SUFFICES ASSUME judged # Absent, NEW i \in issued, i.url = judged.url, IsOrigin(i.under)
                 PROVE  /\ judged.accepted => i.key[1] = Dir("assignments")
                        /\ /\ i.key[1] = Dir("assignments")
                           /\ \/ i.under = judged.under
                              \/ /\ i.under.base = Absent /\ i.under.bucket = judged.under.bucket
                                 /\ judged.under.located
                           => judged.accepted
      BY DEF IssuedUrlsAccepted
    <2>1. Upload(i) /\ i.url.path = i.key
      BY <1>1, OriginPath DEF FileInv
    <2>2. judged.accepted = Accepted(judged.url, judged.under)
      BY <1>1 DEF FileInv
    <2>3. judged.accepted => i.key[1] = Dir("assignments")
      BY <2>1, <2>2 DEF Accepted
    <2>4. ASSUME i.key[1] = Dir("assignments"),
                 \/ i.under = judged.under
                 \/ /\ i.under.base = Absent /\ i.under.bucket = judged.under.bucket
                    /\ judged.under.located
          PROVE  judged.accepted
      <3>1. Len(i.key) = 2 /\ IsStrictPrefix(<<>>, i.key)
        BY <2>1, KeyShape, EmptyPrefix
      <3>2. \E prefix \in AllowedPrefixes(judged.under) : prefix = [host |-> i.url.host, path |-> <<>>]
        <4>1. CASE i.under.base = Absent
          <5>1. i.url.host = i.under.bucket /\ i.under.located /\ i.under.bucket = judged.under.bucket
            BY <2>1, <2>4, <4>1, FileAssumption DEF Upload, FileUrl
          <5> QED
            BY <5>1, <2>4, <4>1 DEF AllowedPrefixes
        <4>2. CASE i.under.base # Absent
          <5>1. i.url.host = i.under.base.host /\ WithoutSlash(i.under.base.path) = <<>>
            BY <2>1, <4>2 DEF Upload, FileUrl, IsOrigin
          <5> QED
            BY <5>1, <2>4, <4>2 DEF AllowedPrefixes
        <4> QED
          BY <4>1, <4>2
      <3>3. \E prefix \in AllowedPrefixes(judged.under) : StartsWith(judged.url, prefix)
        BY <2>1, <3>1, <3>2 DEF StartsWith
      <3>4. Len(judged.url.path) > 1 /\ judged.url.path[1] = Dir("assignments")
        BY <2>1, <2>4, <3>1
      <3>5. Accepted(judged.url, judged.under)
        BY <3>3, <3>4 DEF Accepted
      <3> QED
        BY <2>2, <3>5
    <2> QED
      BY <2>3, <2>4
  <1> QED
    BY <1>1, FileInvariant, PTL

\* extractObjectKey takes a key of an assignment for what it is.
LEMMA KeyExtracted ==
  ASSUME NEW url, NEW file \in UploadNames, url.path = <<Dir("assignments"), file>>
  PROVE  ExtractedKey(url) = url.path
  <1> DEFINE I == {k \in 1..Len(url.path) : url.path[k] # Slash}
  <1>1. Len(url.path) = 2 /\ url.path[1] = Dir("assignments") /\ url.path[2] = file
    OBVIOUS
  <1>2. Dir("assignments") # Slash
    BY DEF Slash, Dir
  <1>3. 1 \in I /\ \A k \in I : k \in Int /\ 1 <= k
    BY <1>1, <1>2
  <1>4. Beginning(url.path) = 1
    <2>1. Beginning(url.path) = Min(I)
      BY <1>3 DEF Beginning, SelectInSeq
    <2> HIDE DEF I
    <2>2. Min(I) \in I /\ \A k \in I : Min(I) <= k
      BY <1>3 DEF Min
    <2> QED
      BY <1>3, <2>1, <2>2
  <1>5. Decoded(Dir("assignments")) = Dir("assignments") /\ Decoded(file) = file
    BY DEF Decoded, Dir, UploadNames
  <1> DEFINE key == [k \in 1..2 |-> Decoded(url.path[k])]
  <1>6. key = url.path
    BY <1>1, <1>5
  <1>7. ExtractedKey(url) = IF Len(key) > 1 /\ key[1] = Dir("assignments") THEN key ELSE Absent
    <2>1. \A k \in 1..2 : 1 + k - 1 = k
      OBVIOUS
    <2>2. key = [k \in 1..(Len(url.path) - 1 + 1) |-> Decoded(url.path[1 + k - 1])]
      BY <1>1, <2>1
    <2> QED
      BY <1>4, <2>2 DEF ExtractedKey
  <1> QED
    BY <1>1, <1>6, <1>7

\* A file that was submitted is found again under the key it was uploaded with: the key is in its URL
\* unharmed (normalizeFileName), and extractObjectKey takes it out, whatever the environment is by then.
THEOREM DownloadsFound == FileSpec => []DownloadsNameUploads
  <1>1. ASSUME FileInv PROVE DownloadsNameUploads
    <2> SUFFICES ASSUME NEW a \in answers, NEW i \in issued, i.url = a.url, BaseApart(i.under)
                 PROVE  a.key = i.key
      BY DEF DownloadsNameUploads
    <2>1. Upload(i) /\ AssignmentPath(i.url) /\ a.key = ExtractedKey(i.url)
      BY <1>1 DEF FileInv
    <2>2. PICK purpose \in Purposes, file \in UploadNames : i.key = <<Dir(purpose), file>>
      BY <2>1 DEF Upload
    <2>3. i.url.path = i.key
      <3>1. CASE i.under.base = Absent
        BY <2>1, <3>1 DEF Upload, FileUrl
      <3>2. CASE i.under.base # Absent
        <4> DEFINE base == WithoutSlash(i.under.base.path)
        <4>1. i.under.base.path \in Seq([dir : STRING])
          BY <2>1, <3>2, FileAssumption DEF Upload
        <4>2. base \in Seq([dir : STRING]) /\ (base # <<>> => base[1] # Dir("assignments"))
          BY <3>2, <4>1, WithoutSlashType DEF BaseApart
        <4>3. i.url.path = base \o i.key
          BY <2>1, <3>2 DEF Upload, FileUrl
        <4>4. base = <<>>
          <5> HIDE DEF base
          <5> SUFFICES ASSUME base # <<>> PROVE FALSE
            OBVIOUS
          <5>1. i.key \in Seq({i.key[1], i.key[2]})
            BY <2>1, KeyShape
          <5>2. Len(base) > 0
            BY <4>2
          <5>3. (base \o i.key)[1] = base[1]
            BY <4>2, <5>1, <5>2
          <5> QED
            BY <2>1, <4>2, <4>3, <5>3 DEF AssignmentPath
        <4> QED
          BY <2>1, <4>3, <4>4, KeyShape
      <3> QED
        BY <3>1, <3>2
    <2>4. i.key = <<Dir("assignments"), file>>
      BY <2>1, <2>2, <2>3 DEF AssignmentPath
    <2> QED
      BY <2>1, <2>3, <2>4, KeyExtracted
  <1> QED
    BY <1>1, FileInvariant, PTL
=============================================================================
