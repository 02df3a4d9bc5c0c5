---------------------------- MODULE SessionProofs ----------------------------
(***************************************************************************)
(* Machine-checked proofs about Sessions, for any number of requests and   *)
(* any lifetime of the tokens.                                             *)
(***************************************************************************)
EXTENDS Sessions, TLAPS

\* The steps at which a request holds the row it has read or made, and those after it has signed.
RowSteps    == {"insert", "saveSelect", "saveUpdate", "saveInsert"}
SignedSteps == RowSteps \cup {"find", "answer"}

ControlType ==
  /\ pc \in [Requests -> Steps]
  /\ job \in [Requests -> Jobs \cup {NoJob}]
  /\ exp \in [Requests -> Expiry \cup {None}]
  /\ \A r \in Requests : /\ pc[r] \notin Ended \cup {"idle"} => job[r] \in Jobs
                         /\ pc[r] \in RowSteps => job[r].row \in Rows
                         /\ pc[r] \in SignedSteps => exp[r] \in Expiry

DataType ==
  /\ now \in Time
  /\ row \in Rows \cup {None}
  /\ given \subseteq Requests /\ \A t \in given : exp[t] \in Expiry
  /\ newest \in given \cup {None}
  /\ quiet \in BOOLEAN
  /\ over \in {"open", "racing", "closed"}

Typed == ControlType /\ DataType

\* After a final logout nobody is left who could store a token.
Final == over = "closed" => row = None /\ \A r \in Requests : pc[r] \notin Storing

\* The row has the expiry of the newest token, as long as that has not passed.
Kept == newest # None /\ now < exp[newest] => row # None /\ row.expiresAt = exp[newest]

\* How far a request that runs alone has come with replacing that token.
Undisturbed(r) ==
  /\ pc[r] \in {"validate", "removeExpired", "remove", "sign"} => Kept
  /\ pc[r] = "removeExpired" /\ row # None => row.expiresAt <= now
  /\ pc[r] # "saveInsert"
  /\ pc[r] = "insert" => row = None /\ job[r].row.expiresAt = exp[r]
  /\ pc[r] \in {"saveSelect", "saveUpdate"} =>
       row # None /\ job[r].row.id = row.id /\ job[r].row.expiresAt = exp[r]
  /\ pc[r] = "saveUpdate" => "expiresAt" \in job[r].columns \/ job[r].row.expiresAt = row.expiresAt
  /\ pc[r] = "answer" => row # None /\ row.expiresAt = exp[r]

\* While it is quiet at most one request runs, and it finds what it has left behind.
Alone ==
  /\ \A t \in given : pc[t] = "done"
  /\ quiet => /\ \A q, r \in Running : q = r
              /\ Running = {} => Kept
              /\ \A r \in Running : Undisturbed(r)

\* The type invariant follows from its parts.
LEMMA TypedImpliesTypeOK == Typed => TypeOK
  BY DEF Typed, ControlType, DataType, TypeOK

\* A step to well-formed locals that signs nothing keeps the requests well-formed.
LEMMA GotoType ==
  ASSUME ControlType, NEW r \in Requests, NEW step \in Steps, NEW j, Goto(r, step, j), UNCHANGED exp,
         step \in Ended \/ (j \in Jobs /\ (step \in RowSteps => j.row \in Rows)),
         step \in SignedSteps => exp[r] \in Expiry
  PROVE  ControlType'
  BY DEF ControlType, Goto, RowSteps, SignedSteps, Ended

\* So does one that signs a token.
LEMMA SignType ==
  ASSUME Typed, NEW r \in Requests, NEW j \in Jobs, Goto(r, "find", j), Sign(r)
  PROVE  ControlType' /\ quiet' \in BOOLEAN /\ \A t \in given : exp'[t] \in Expiry
  <1>1. now + Lifetime \in Expiry
    BY SessionAssumption DEF Typed, DataType, Time, Expiry
  <1>2. ControlType'
    BY <1>1 DEF Typed, ControlType, Sign, Goto, Steps, Storing, RowSteps, SignedSteps, Ended
  <1>3. quiet' \in BOOLEAN
    BY DEF Sign, OthersIdle
  <1>4. \A t \in given : exp'[t] \in Expiry
    BY <1>1 DEF Sign, Typed, ControlType, DataType
  <1> QED
    BY <1>2, <1>3, <1>4

\* Well-formed locals stay so with another row in them.
LEMMA JobRow ==
  ASSUME NEW j \in Jobs, NEW w \in Rows \cup {None}
  PROVE  [j EXCEPT !.row = w] \in Jobs /\ [j EXCEPT !.row = w].row = w
  BY DEF Jobs

\* The row of a token is well-formed, whether it is new or takes the place of another token's.
LEMMA TokenRows ==
  ASSUME Typed, NEW r \in Requests, pc[r] = "find"
  PROVE  NewRow(r) \in Rows /\ (row # None => Renewed(r) \in Rows)
  <1>1. ExpiresAt(r) \in Expiry /\ Hash(r) \in Hashes
    BY DEF Typed, ControlType, SignedSteps, ExpiresAt, Hash, Bytes, Hashes
  <1> QED
    BY <1>1 DEF NewRow, Renewed, Rows, Typed, DataType

\* A row that takes some columns from another one is well-formed.
LEMMA MixedRow ==
  ASSUME NEW w \in Rows, NEW v \in Rows, NEW S
  PROVE  [c \in DOMAIN w |-> IF c \in S THEN v[c] ELSE w[c]] \in Rows
  <1> DEFINE u == [c \in DOMAIN w |-> IF c \in S THEN v[c] ELSE w[c]]
  <1>1. DOMAIN w = {"id", "hash", "expiresAt"}
    BY DEF Rows
  <1>2. u = [id |-> u.id, hash |-> u.hash, expiresAt |-> u.expiresAt]
    BY <1>1
  <1>3. u.id \in Requests /\ u.hash \in Hashes /\ u.expiresAt \in Expiry
    BY <1>1 DEF Rows
  <1> HIDE DEF u
  <1>4. u \in Rows
    BY <1>2, <1>3 DEF Rows
  <1> QED
    BY <1>4 DEF u
-----------------------------------------------------------------------------
(* Type correctness *)

\* The initial state is well-formed, and there is no session.
LEMMA InitTyped == Init => Typed /\ Final
  <1> SUFFICES ASSUME Init PROVE Typed /\ Final
    OBVIOUS
  <1>1. ControlType
    BY DEF Init, ControlType, Steps, Storing, Ended, RowSteps, SignedSteps
  <1>2. DataType
    <2>1. now \in Time
      BY SessionAssumption DEF Init, Time
    <2>2. quiet \in BOOLEAN
      BY DEF Init
    <2> QED
      BY <2>1, <2>2 DEF Init, DataType
  <1>3. Final
    BY DEF Init, Final, Storing
  <1> QED
    BY <1>1, <1>2, <1>3 DEF Typed

\* The first steps of the handlers keep the state well-formed.
LEMMA BeginTyped ==
  ASSUME Typed, NEW r \in Requests,
         Login(r) \/ \E op \in {"refresh", "logout"}, token \in given : Begin(r, op, token)
  PROVE  Typed'
  <1>1. CASE Login(r)
    <2>1. CASE Goto(r, "failed", NoJob) /\ UNCHANGED <<exp, aux>>
      <3>1. ControlType'
        BY <2>1, GotoType DEF Typed, Steps, Ended, SignedSteps, RowSteps
      <3> QED
        BY <1>1, <2>1, <3>1 DEF Login, Typed, DataType, aux
    <2>2. CASE Sign(r) /\ over' = "open" /\ Goto(r, "find", [NoJob EXCEPT !.op = "login"]) /\ UNCHANGED newest
      <3>1. [NoJob EXCEPT !.op = "login"] \in Jobs
        BY DEF NoJob, Jobs
      <3>2. ControlType' /\ quiet' \in BOOLEAN /\ \A t \in given : exp'[t] \in Expiry
        BY <2>2, <3>1, SignType
      <3> QED
        BY <1>1, <2>2, <3>2 DEF Login, Typed, DataType
    <2> QED
      BY <1>1, <2>1, <2>2 DEF Login
  <1>2. ASSUME NEW op \in {"refresh", "logout"}, NEW token \in given, Begin(r, op, token) PROVE Typed'
    <2>1. [NoJob EXCEPT !.op = op, !.token = token] \in Jobs
      BY DEF NoJob, Jobs, Typed, DataType
    <2>2. ControlType'
      BY <1>2, <2>1, GotoType DEF Begin, Typed, Steps, Ended, RowSteps, SignedSteps
    <2>3. quiet' \in BOOLEAN
      BY <1>2 DEF Begin, OthersIdle, Typed, DataType
    <2> QED
      BY <1>2, <2>2, <2>3 DEF Begin, Typed, DataType
  <1> QED
    BY <1>1, <1>2

\* The other steps outside save keep the state well-formed.
LEMMA HandlerTyped ==
  ASSUME Typed, NEW r \in Requests,
         Validate(r) \/ RemoveExpired(r) \/ SignAgain(r) \/ Remove(r) \/ Answer(r) \/ Abort(r)
  PROVE  Typed'
  <1>1. CASE Validate(r)
    <2>1. job[r] \in Jobs /\ Judge(r) \in {"failed", "removeExpired", "sign", "remove"}
      BY <1>1 DEF Validate, Judge, Typed, ControlType, Ended
    <2>2. ControlType'
      BY <1>1, <2>1, GotoType DEF Validate, Typed, Steps, Storing, Ended, RowSteps, SignedSteps
    <2> QED
      BY <1>1, <2>2 DEF Validate, Typed, DataType, aux
  <1>2. CASE SignAgain(r)
    <2>1. job[r] \in Jobs
      BY <1>2 DEF SignAgain, Typed, ControlType, Ended
    <2>2. ControlType' /\ quiet' \in BOOLEAN /\ \A t \in given : exp'[t] \in Expiry
      BY <1>2, <2>1, SignType DEF SignAgain
    <2> QED
      BY <1>2, <2>2 DEF SignAgain, Typed, DataType
  <1>3. CASE RemoveExpired(r) \/ Remove(r) \/ Answer(r) \/ Abort(r)
    <2>1. ControlType'
      BY <1>3, GotoType DEF RemoveExpired, Remove, Answer, Abort, Typed, Steps, Ended, RowSteps, SignedSteps
    <2>2. After(r) \in {"open", "racing", "closed"}
      BY DEF After
    <2>3. Answer(r) => exp[r] \in Expiry
      BY DEF Answer, Typed, ControlType, SignedSteps
    <2> QED
      BY <1>3, <2>1, <2>2, <2>3 DEF RemoveExpired, Remove, Answer, Abort, Typed, DataType, aux
  <1> QED
    BY <1>1, <1>2, <1>3

\* save keeps the state well-formed.
LEMMA SaveTyped ==
  ASSUME Typed, NEW r \in Requests, Find(r) \/ Insert(r) \/ SaveSelect(r) \/ SaveUpdate(r)
  PROVE  Typed'
  <1>1. job[r] \in Jobs /\ exp[r] \in Expiry
    BY DEF Find, Insert, SaveSelect, SaveUpdate, Typed, ControlType, Ended, SignedSteps, RowSteps
  <1>2. CASE Find(r)
    <2>1. NewRow(r) \in Rows /\ (row # None => Renewed(r) \in Rows)
      BY <1>2, TokenRows DEF Find
    <2>2. ControlType'
      <3>1. CASE row = None
        <4> DEFINE j == [job[r] EXCEPT !.row = NewRow(r)]
        <4>1. j \in Jobs /\ j.row \in Rows /\ Goto(r, "insert", j) /\ UNCHANGED exp
          BY <1>1, <1>2, <2>1, <3>1, JobRow DEF Find
        <4> HIDE DEF j
        <4> QED
          BY <1>1, <4>1, GotoType DEF Typed, Steps, Storing
      <3>2. CASE row # None
        <4> DEFINE j == [job[r] EXCEPT !.row = Renewed(r)]
        <4>1. j \in Jobs /\ j.row \in Rows /\ Goto(r, "saveSelect", j) /\ UNCHANGED exp
          BY <1>1, <1>2, <2>1, <3>2, JobRow DEF Find
        <4> HIDE DEF j
        <4> QED
          BY <1>1, <4>1, GotoType DEF Typed, Steps, Storing
      <3> QED
        BY <3>1, <3>2
    <2> QED
      BY <1>2, <2>2 DEF Find, Typed, DataType, aux
  <1>3. CASE Insert(r)
    <2>1. job[r].row \in Rows
      BY <1>3 DEF Insert, Typed, ControlType, RowSteps
    <2>2. ControlType'
      BY <1>1, <1>3, GotoType DEF Insert, Typed, Steps, Ended, RowSteps, SignedSteps
    <2> QED
      BY <1>3, <2>1, <2>2 DEF Insert, Typed, DataType, aux
  <1>4. CASE SaveSelect(r)
    <2> DEFINE j == [job[r] EXCEPT !.columns = {c \in Columns : job[r].row[c] # row[c]}]
    <2>1. job[r].row \in Rows
      BY <1>4 DEF SaveSelect, Typed, ControlType, RowSteps
    <2>2. j \in Jobs /\ j.row \in Rows
      BY <1>1, <2>1 DEF Jobs
    <2>3. Goto(r, "saveUpdate", j) \/ Goto(r, "saveInsert", job[r])
      BY <1>4 DEF SaveSelect
    <2> HIDE DEF j
    <2>4. ControlType'
      BY <1>1, <1>4, <2>1, <2>2, <2>3, GotoType DEF SaveSelect, Typed, Steps, Storing
    <2> QED
      BY <1>4, <2>4 DEF SaveSelect, Typed, DataType, aux
  <1>5. CASE SaveUpdate(r)
    <2>1. job[r].row \in Rows
      BY <1>5 DEF SaveUpdate, Typed, ControlType, RowSteps
    <2>2. ControlType'
      BY <1>1, <1>5, GotoType DEF SaveUpdate, Typed, Steps, RowSteps
    <2>3. CASE Present(r)
      <3>1. row \in Rows
        BY <2>3 DEF Present, Typed, DataType
      <3>2. row' \in Rows
        BY <1>5, <2>1, <2>3, <3>1, MixedRow DEF SaveUpdate
      <3> QED
        BY <1>5, <2>2, <3>2 DEF SaveUpdate, Typed, DataType, aux
    <2>4. CASE ~ Present(r)
      BY <1>5, <2>2, <2>4 DEF SaveUpdate, Typed, DataType, aux
    <2> QED
      BY <2>3, <2>4
  <1> QED
    BY <1>2, <1>3, <1>4, <1>5

\* Every step keeps the state well-formed.
LEMMA NextTyped == Typed /\ [Next]_vars => Typed'
  <1> SUFFICES ASSUME Typed, [Next]_vars PROVE Typed'
    OBVIOUS
  <1>1. CASE Tick
    BY <1>1, SessionAssumption DEF Tick, Typed, ControlType, DataType, Time, aux
  <1>2. ASSUME NEW r \in Requests,
               Login(r) \/ \E op \in {"refresh", "logout"}, token \in given : Begin(r, op, token)
        PROVE Typed'
    BY <1>2, BeginTyped
  <1>3. ASSUME NEW r \in Requests,
               Validate(r) \/ RemoveExpired(r) \/ SignAgain(r) \/ Remove(r) \/ Answer(r) \/ Abort(r)
        PROVE Typed'
    BY <1>3, HandlerTyped
  <1>4. ASSUME NEW r \in Requests, Find(r) \/ Insert(r) \/ SaveSelect(r) \/ SaveUpdate(r) PROVE Typed'
    BY <1>4, SaveTyped
  <1>5. CASE UNCHANGED vars
    BY <1>5 DEF vars, aux, Typed, ControlType, DataType
  <1> QED
    BY <1>1, <1>2, <1>3, <1>4, <1>5 DEF Next

\* However logins, refreshes, logouts and saves of stale rows mix, the row stays one of a token
\* that was signed, with an expiry that some token had.
THEOREM SessionTypeCorrect == Spec => []TypeOK
  BY InitTyped, NextTyped, TypedImpliesTypeOK, PTL DEF Spec
-----------------------------------------------------------------------------
(* A logout is final *)

\* Every step leaves a session that is over as it is, or logs in.
LEMMA NextFinal == Typed /\ Final /\ [Next]_vars => Final'
  <1> SUFFICES ASSUME Typed, Final, [Next]_vars PROVE Final'
    OBVIOUS
  <1>1. CASE Tick \/ UNCHANGED vars
    BY <1>1 DEF Tick, vars, aux, Final
  <1>2. ASSUME NEW r \in Requests, Login(r) PROVE Final'
    <2>1. CASE Goto(r, "failed", NoJob) /\ UNCHANGED <<exp, aux>>
      BY <1>2, <2>1 DEF Login, Goto, Final, Typed, ControlType, Storing, aux
    <2>2. CASE over' = "open"
      BY <2>2 DEF Final
    <2> QED
      BY <1>2, <2>1, <2>2 DEF Login
  <1>3. ASSUME NEW r \in Requests,
               \/ \E op \in {"refresh", "logout"}, token \in given : Begin(r, op, token)
               \/ RemoveExpired(r) \/ Answer(r) \/ Abort(r)
        PROVE Final'
    <2>1. \E step, j : Goto(r, step, j) /\ step \notin Storing
      <3>1. CASE RemoveExpired(r) \/ Answer(r) \/ Abort(r)
        BY <3>1 DEF RemoveExpired, Answer, Abort, Storing
      <3>2. CASE \E op \in {"refresh", "logout"}, token \in given : Begin(r, op, token)
        BY <3>2 DEF Begin, Storing
      <3> QED
        BY <1>3, <3>1, <3>2
    <2>2. over' = over /\ (row' = None \/ row' = row)
      BY <1>3 DEF Begin, RemoveExpired, Answer, Abort, aux
    <2> QED
      BY <2>1, <2>2 DEF Goto, Final, Typed, ControlType
  <1>4. ASSUME NEW r \in Requests, Validate(r) PROVE Final'
    <2>1. over = "closed" => Judge(r) = "failed"
      BY DEF Final, Judge
    <2> QED
      BY <1>4, <2>1 DEF Validate, Goto, Final, Typed, ControlType, Storing, aux
  <1>5. ASSUME NEW r \in Requests, Remove(r) PROVE Final'
    <2> SUFFICES ASSUME over' = "closed" PROVE row' = None /\ \A q \in Requests : pc'[q] \notin Storing
      BY DEF Final
    <2>1. \A q \in Running \ {r} : pc[q] \notin Storing
      BY <1>5 DEF Remove, After
    <2>2. \A q \in Requests \ {r} : pc[q] \notin Storing
      BY <2>1 DEF Running, Storing, Ended
    <2> QED
      BY <1>5, <2>2 DEF Remove, Goto, Typed, ControlType, Storing
  <1>6. ASSUME NEW r \in Requests, SignAgain(r) \/ Find(r) \/ Insert(r) \/ SaveSelect(r) \/ SaveUpdate(r)
        PROVE Final'
    <2>1. pc[r] \in Storing /\ over' = over
      BY <1>6 DEF SignAgain, Find, Insert, SaveSelect, SaveUpdate, Storing, aux
    <2> QED
      BY <2>1 DEF Final
  <1> QED
    BY <1>1, <1>2, <1>3, <1>4, <1>5, <1>6 DEF Next

\* Once a logout has removed the row and nobody was about to store a token, no request brings the
\* session back but a login, for any number of requests under way and of older tokens.
THEOREM LogoutIsFinal == Spec => []LogoutFinal
  <1>1. Final => LogoutFinal
    BY DEF Final, LogoutFinal
  <1> QED
    BY <1>1, InitTyped, NextTyped, NextFinal, PTL DEF Spec
-----------------------------------------------------------------------------
(* The newest token works *)

\* A step of a request that has not ended keeps the received tokens those of ended requests.
LEMMA GivenStep ==
  ASSUME Typed, Alone, NEW r \in Requests, NEW step, NEW j, Goto(r, step, j), pc[r] # "done",
         given' = given
  PROVE  \A t \in given' : pc'[t] = "done"
  BY DEF Typed, ControlType, DataType, Alone, Goto

\* When no other request runs, a step leaves the one that takes it, or none, running.
LEMMA OneRuns ==
  ASSUME Typed, NEW r \in Requests, NEW step \in Steps, NEW j, Goto(r, step, j),
         \A q \in Running : q = r
  PROVE  /\ step \in Ended => Running' = {}
         /\ \A q \in Running' : q = r
         /\ pc'[r] = step
         /\ step \notin Ended => job'[r] = j
  BY DEF Typed, ControlType, Goto, Running

\* The steps that begin to store a token need nothing of what was there before.
LEMMA SignAlone ==
  ASSUME Typed, Alone, NEW r \in Requests, NEW j, Goto(r, "find", j), Sign(r), pc[r] # "done", given' = given
  PROVE  Alone'
  <1>1. \A t \in given' : pc'[t] = "done"
    BY GivenStep
  <1>2. ASSUME quiet' PROVE (\A q \in Running' : q = r) /\ pc'[r] = "find"
    <2>1. \A q \in Running : q = r
      BY <1>2 DEF Sign, OthersIdle
    <2> QED
      BY <2>1, OneRuns DEF Steps, Storing
  <1>3. r \in Running' \/ ~ quiet'
    BY <1>2 DEF Running, Ended
  <1>4. quiet' => Undisturbed(r)'
    BY <1>2 DEF Undisturbed
  <1> QED
    BY <1>1, <1>2, <1>3, <1>4 DEF Alone

\* login keeps the invariant.
LEMMA LoginAlone ==
  ASSUME Typed, Alone, NEW r \in Requests, Login(r)
  PROVE  Alone'
  <1>1. CASE Goto(r, "failed", NoJob) /\ UNCHANGED <<exp, aux>>
    <2>1. UNCHANGED <<now, row, exp, given, newest, quiet>> /\ pc[r] = "idle"
      BY <1>1 DEF Login, aux
    <2>2. \A t \in given' : pc'[t] = "done"
      BY <1>1, <2>1, GivenStep
    <2>3. Running' = Running /\ \A q \in Running : pc'[q] = pc[q] /\ job'[q] = job[q]
      BY <1>1, <2>1 DEF Running, Goto, Typed, ControlType, Ended
    <2>4. Kept' = Kept /\ \A q \in Running : Undisturbed(q) => Undisturbed(q)'
      BY <2>1, <2>3 DEF Kept, Undisturbed
    <2> QED
      BY <2>1, <2>2, <2>3, <2>4 DEF Alone
  <1>2. CASE Sign(r) /\ Goto(r, "find", [NoJob EXCEPT !.op = "login"])
    BY <1>2, SignAlone DEF Login
  <1> QED
    BY <1>1, <1>2 DEF Login

\* A step of a request that runs alone keeps the invariant if it finds the token kept when it ends,
\* and is undisturbed when it goes on.
LEMMA StepAlone ==
  ASSUME Typed, Alone, NEW r \in Requests, NEW step \in Steps \ {"idle"}, NEW j, Goto(r, step, j), pc[r] # "done",
         given' = given, quiet' => \A q \in Running : q = r,
         quiet' /\ pc'[r] = step => IF step \in Ended THEN Kept' ELSE Undisturbed(r)'
  PROVE  Alone'
  <1>1. \A t \in given' : pc'[t] = "done"
    BY GivenStep
  <1> SUFFICES ASSUME quiet' PROVE /\ \A p, q \in Running' : p = q
                                   /\ Running' = {} => Kept'
                                   /\ \A q \in Running' : Undisturbed(q)'
    BY <1>1 DEF Alone
  <1>2. /\ step \in Ended => Running' = {}
        /\ \A q \in Running' : q = r
        /\ pc'[r] = step
    BY OneRuns
  <1>3. CASE step \in Ended
    BY <1>2, <1>3
  <1>4. CASE step \notin Ended
    <2>1. r \in Running'
      BY <1>2, <1>4 DEF Running
    <2> QED
      BY <1>2, <1>4, <2>1
  <1> QED
    BY <1>3, <1>4

\* refresh and logout keep the invariant up to the step that stores or removes.
LEMMA CheckAlone ==
  ASSUME Typed, Alone, NEW r \in Requests,
         \/ \E op \in {"refresh", "logout"}, token \in given : Begin(r, op, token)
         \/ Validate(r) \/ RemoveExpired(r)
  PROVE  Alone'
  <1>1. ASSUME NEW op \in {"refresh", "logout"}, NEW token \in given, Begin(r, op, token) PROVE Alone'
    <2> DEFINE step == IF Verified(token) THEN "validate" ELSE "failed"
    <2>1. /\ Goto(r, step, [NoJob EXCEPT !.op = op, !.token = token])
          /\ pc[r] = "idle" /\ UNCHANGED <<now, row, exp, given, newest>>
      BY <1>1 DEF Begin
    <2>2. step \in {"validate", "failed"}
      OBVIOUS
    <2>3. quiet' => quiet /\ \A q \in Running : q = r
      BY <1>1 DEF Begin, OthersIdle
    <2>4. quiet' => Kept'
      <3>1. r \notin Running
        BY <2>1 DEF Running
      <3> QED
        BY <2>1, <2>3, <3>1 DEF Alone, Kept
    <2>5. quiet' /\ pc'[r] = step => IF step \in Ended THEN Kept' ELSE Undisturbed(r)'
      BY <2>2, <2>4 DEF Undisturbed
    <2> HIDE DEF step
    <2> QED
      BY <2>1, <2>2, <2>3, <2>5, StepAlone DEF Steps, Ended
  <1>2. CASE Validate(r)
    <2>1. Goto(r, Judge(r), job[r]) /\ pc[r] = "validate" /\ UNCHANGED <<now, row, exp, given, newest, quiet>>
      BY <1>2 DEF Validate, aux
    <2>2. Judge(r) \in {"failed", "removeExpired", "sign", "remove"}
      BY DEF Judge
    <2>3. r \in Running
      BY <2>1 DEF Running, Ended
    <2>4. quiet' => Kept' /\ \A q \in Running : q = r
      BY <2>1, <2>3 DEF Alone, Undisturbed, Kept
    <2>5. Judge(r) = "removeExpired" => row.expiresAt <= now
      BY DEF Judge
    <2>6. quiet' /\ pc'[r] = Judge(r) => IF Judge(r) \in Ended THEN Kept' ELSE Undisturbed(r)'
      BY <2>1, <2>2, <2>4, <2>5 DEF Undisturbed, Ended
    <2> QED
      BY <2>1, <2>2, <2>4, <2>6, StepAlone DEF Steps, Storing, Ended
  <1>3. CASE RemoveExpired(r)
    <2>1. /\ Goto(r, "failed", NoJob) /\ pc[r] = "removeExpired" /\ row' = None
          /\ UNCHANGED <<now, exp, given, newest, quiet>>
      BY <1>3 DEF RemoveExpired, aux
    <2>2. r \in Running
      BY <2>1 DEF Running, Ended
    <2>3. quiet' => \A q \in Running : q = r
      BY <2>1, <2>2 DEF Alone
    <2>4. quiet' => Kept'
      <3> SUFFICES ASSUME quiet', newest # None, now < exp[newest] PROVE FALSE
        BY <2>1 DEF Kept
      <3>1. row # None /\ row.expiresAt = exp[newest] /\ row.expiresAt <= now
        BY <2>1, <2>2 DEF Alone, Undisturbed, Kept
      <3>2. row.expiresAt \in Nat /\ now \in Nat
        BY <3>1, SessionAssumption DEF Typed, DataType, Rows, Expiry, Time
      <3> QED
        BY <3>1, <3>2
    <2> QED
      BY <2>1, <2>3, <2>4, StepAlone DEF Steps, Ended
  <1> QED
    BY <1>1, <1>2, <1>3

\* What ends a session, or breaks a request off, keeps the invariant.
LEMMA EndAlone ==
  ASSUME Typed, Alone, NEW r \in Requests, Remove(r) \/ Answer(r) \/ Abort(r)
  PROVE  Alone'
  <1>1. CASE Remove(r)
    <2>1. /\ Goto(r, "done", NoJob) /\ pc[r] = "remove" /\ newest' = None /\ UNCHANGED <<given, quiet>>
      BY <1>1 DEF Remove
    <2>2. r \in Running
      BY <2>1 DEF Running, Ended
    <2>3. (quiet' => \A q \in Running : q = r) /\ Kept'
      BY <2>1, <2>2 DEF Alone, Kept
    <2> QED
      BY <2>1, <2>3, StepAlone DEF Steps, Ended
  <1>2. CASE Answer(r)
    <2>1. /\ Goto(r, "done", NoJob) /\ pc[r] = "answer" /\ newest' = r /\ given' = given \cup {r}
          /\ UNCHANGED <<now, row, exp, quiet>>
      BY <1>2 DEF Answer
    <2>2. r \in Running
      BY <2>1 DEF Running, Ended
    <2>3. \A t \in given' : pc'[t] = "done"
      BY <2>1 DEF Alone, Goto, Typed, ControlType, DataType
    <2>4. quiet => (\A q \in Running : q = r) /\ Kept'
      BY <2>1, <2>2 DEF Alone, Undisturbed, Kept
    <2>5. quiet => Running' = {}
      BY <2>1, <2>4, OneRuns DEF Steps, Ended
    <2> QED
      BY <2>1, <2>3, <2>4, <2>5 DEF Alone
  <1>3. CASE Abort(r)
    <2>1. \A t \in given' : pc'[t] = "done"
      BY <1>3 DEF Abort, Running, Ended, Goto, Alone, Typed, ControlType, DataType
    <2> QED
      BY <1>3, <2>1 DEF Abort, Alone
  <1> QED
    BY <1>1, <1>2, <1>3

\* save keeps the invariant: alone, it leaves the row with the expiry of the token it stores.
LEMMA SaveAlone ==
  ASSUME Typed, Alone, NEW r \in Requests, Find(r) \/ Insert(r) \/ SaveSelect(r) \/ SaveUpdate(r)
  PROVE  Alone'
  <1>1. UNCHANGED <<now, exp, given, newest, quiet>> /\ pc[r] # "done" /\ r \in Running
    BY DEF Find, Insert, SaveSelect, SaveUpdate, aux, Running, Ended
  <1>2. quiet => Undisturbed(r) /\ \A q \in Running : q = r
    BY <1>1 DEF Alone
  <1>3. job[r] \in Jobs /\ (pc[r] \in RowSteps => job[r].row \in Rows)
    BY <1>1 DEF Typed, ControlType, Running
  <1>4. CASE Find(r)
    <2>1. CASE row = None
      <3> DEFINE j == [job[r] EXCEPT !.row = NewRow(r)]
      <3>1. Goto(r, "insert", j) /\ row' = None /\ j.row = NewRow(r) /\ NewRow(r).expiresAt = exp[r]
        BY <1>3, <1>4, <2>1 DEF Find, Jobs, NewRow, ExpiresAt
      <3> HIDE DEF j
      <3>2. quiet' /\ pc'[r] = "insert" => Undisturbed(r)'
        BY <1>1, <3>1 DEF Undisturbed, Goto, Typed, ControlType, Ended
      <3> QED
        BY <1>1, <1>2, <3>1, <3>2, StepAlone DEF Steps, Storing, Ended
    <2>2. CASE row # None
      <3> DEFINE j == [job[r] EXCEPT !.row = Renewed(r)]
      <3>1. /\ Goto(r, "saveSelect", j) /\ row' = row /\ j.row = Renewed(r)
            /\ Renewed(r).expiresAt = exp[r] /\ Renewed(r).id = row.id
        BY <1>3, <1>4, <2>2 DEF Find, Jobs, Renewed, ExpiresAt, Typed, DataType, Rows
      <3> HIDE DEF j
      <3>2. quiet' /\ pc'[r] = "saveSelect" => Undisturbed(r)'
        BY <1>1, <2>2, <3>1 DEF Undisturbed, Goto, Typed, ControlType, Ended
      <3> QED
        BY <1>1, <1>2, <3>1, <3>2, StepAlone DEF Steps, Storing, Ended
    <2> QED
      BY <2>1, <2>2
  <1>5. CASE Insert(r)
    <2>1. quiet => pc[r] = "insert" /\ row = None /\ job[r].row.expiresAt = exp[r]
      BY <1>2, <1>5 DEF Insert, Undisturbed
    <2>2. job[r].row # None
      BY <1>3, <1>5, SessionAssumption DEF Insert, RowSteps
    <2>3. CASE row = None
      <3>1. Goto(r, "answer", job[r]) /\ row' = job[r].row
        BY <1>5, <2>3 DEF Insert
      <3>2. quiet' /\ pc'[r] = "answer" => Undisturbed(r)'
        BY <1>1, <2>1, <2>2, <3>1 DEF Undisturbed
      <3> QED
        BY <1>1, <1>2, <3>1, <3>2, StepAlone DEF Steps, Ended
    <2>4. CASE row # None
      <3>1. Goto(r, "failed", job[r]) /\ ~ quiet'
        BY <1>1, <1>5, <2>1, <2>4 DEF Insert, Typed, DataType
      <3> QED
        BY <1>1, <3>1, StepAlone DEF Steps, Ended
    <2> QED
      BY <2>3, <2>4
  <1>6. CASE SaveSelect(r)
    <2>1. UNCHANGED row /\ pc[r] = "saveSelect"
      BY <1>6 DEF SaveSelect
    <2>2. CASE Present(r)
      <3> DEFINE j == [job[r] EXCEPT !.columns = {c \in Columns : job[r].row[c] # row[c]}]
      <3>1. /\ Goto(r, "saveUpdate", j) /\ j.row = job[r].row
            /\ j.columns = {c \in Columns : job[r].row[c] # row[c]}
        BY <1>3, <1>6, <2>2 DEF SaveSelect, Jobs
      <3>2. "expiresAt" \in j.columns \/ j.row.expiresAt = row.expiresAt
        BY <3>1 DEF Columns
      <3> HIDE DEF j
      <3>3. quiet' /\ pc'[r] = "saveUpdate" => Undisturbed(r)'
        <4> SUFFICES ASSUME quiet', pc'[r] = "saveUpdate" PROVE Undisturbed(r)'
          OBVIOUS
        <4>1. job'[r] = j
          BY <3>1 DEF Goto, Typed, ControlType, Ended
        <4>2. row # None /\ job[r].row.id = row.id /\ job[r].row.expiresAt = exp[r]
          BY <1>1, <1>2, <2>1 DEF Undisturbed
        <4> QED
          BY <1>1, <2>1, <3>1, <3>2, <4>1, <4>2 DEF Undisturbed
      <3> QED
        BY <1>1, <1>2, <3>1, <3>3, StepAlone DEF Steps, Storing, Ended
    <2>3. CASE ~ Present(r)
      <3>1. Goto(r, "saveInsert", job[r]) /\ ~ quiet'
        BY <1>1, <1>2, <1>6, <2>1, <2>3 DEF SaveSelect, Undisturbed, Present, Typed, DataType
      <3> QED
        BY <1>1, <3>1, StepAlone DEF Steps, Storing, Ended
    <2> QED
      BY <2>2, <2>3
  <1>7. CASE SaveUpdate(r)
    <2>1. pc[r] = "saveUpdate" /\ Goto(r, "answer", job[r])
      BY <1>7 DEF SaveUpdate
    <2>2. quiet' => row' # None /\ row'.expiresAt = exp[r]
      <3> SUFFICES ASSUME quiet' PROVE row' # None /\ row'.expiresAt = exp[r]
        OBVIOUS
      <3>1. /\ row # None /\ job[r].row.id = row.id /\ job[r].row.expiresAt = exp[r]
            /\ ("expiresAt" \in job[r].columns \/ job[r].row.expiresAt = row.expiresAt)
        BY <1>1, <1>2, <2>1 DEF Undisturbed
      <3>2. row \in Rows /\ "expiresAt" \in DOMAIN row
        BY <3>1 DEF Typed, DataType, Rows
      <3>3. row' = [c \in DOMAIN row |-> IF c \in job[r].columns THEN job[r].row[c] ELSE row[c]]
        BY <1>7, <3>1 DEF SaveUpdate, Present
      <3>4. row'.expiresAt = exp[r]
        BY <3>1, <3>2, <3>3
      <3>5. row' # None
        <4>1. row' \in Rows
          BY <1>3, <2>1, <3>2, <3>3, MixedRow DEF RowSteps
        <4> QED
          BY <4>1, SessionAssumption
      <3> QED
        BY <3>4, <3>5
    <2>3. quiet' /\ pc'[r] = "answer" => Undisturbed(r)'
      BY <1>1, <2>2 DEF Undisturbed
    <2> QED
      BY <1>1, <1>2, <2>1, <2>3, StepAlone DEF Steps, Ended
  <1> QED
    BY <1>4, <1>5, <1>6, <1>7

\* Every step keeps the invariant.
LEMMA NextAlone == Typed /\ Alone /\ [Next]_vars => Alone'
  <1> SUFFICES ASSUME Typed, Alone, [Next]_vars PROVE Alone'
    OBVIOUS
  <1>1. CASE Tick \/ UNCHANGED vars
    <2>1. UNCHANGED <<row, exp, given, pc, job, newest, quiet>> /\ (now' = now \/ now' = now + 1)
      BY <1>1 DEF Tick, vars, aux
    <2>2. Kept => Kept'
      <3> SUFFICES ASSUME Kept, newest # None, now' < exp[newest] PROVE row # None /\ row.expiresAt = exp[newest]
        BY <2>1 DEF Kept
      <3>1. exp[newest] \in Nat /\ now \in Nat
        BY SessionAssumption DEF Typed, DataType, Expiry, Time
      <3>2. now < exp[newest]
        BY <2>1, <3>1
      <3> QED
        BY <3>2 DEF Kept
    <2>3. row # None /\ row.expiresAt <= now => row.expiresAt <= now'
      <3>1. row # None => row.expiresAt \in Nat
        BY SessionAssumption DEF Typed, DataType, Rows, Expiry
      <3>2. now \in Nat
        BY SessionAssumption DEF Typed, DataType, Time
      <3> QED
        BY <2>1, <3>1, <3>2
    <2>4. \A r \in Requests : Undisturbed(r) => Undisturbed(r)'
      BY <2>1, <2>2, <2>3 DEF Undisturbed
    <2> QED
      BY <2>1, <2>2, <2>4 DEF Alone, Running
  <1>2. ASSUME NEW r \in Requests, Login(r) PROVE Alone'
    BY <1>2, LoginAlone
  <1>3. ASSUME NEW r \in Requests,
               \/ \E op \in {"refresh", "logout"}, token \in given : Begin(r, op, token)
               \/ Validate(r) \/ RemoveExpired(r)
        PROVE Alone'
    BY <1>3, CheckAlone
  <1>4. ASSUME NEW r \in Requests, SignAgain(r) PROVE Alone'
    BY <1>4, SignAlone DEF SignAgain
  <1>5. ASSUME NEW r \in Requests, Remove(r) \/ Answer(r) \/ Abort(r) PROVE Alone'
    BY <1>5, EndAlone
  <1>6. ASSUME NEW r \in Requests, Find(r) \/ Insert(r) \/ SaveSelect(r) \/ SaveUpdate(r) PROVE Alone'
    BY <1>6, SaveAlone
  <1> QED
    BY <1>1, <1>2, <1>3, <1>4, <1>5, <1>6 DEF Next

\* A client that makes one request after the other can use the token it got last until that token
\* expires, for any history of overlapping and broken-off requests before it got it.
THEOREM NewestWorks == Spec => []NewestWorksAlone
  <1>1. Init => Alone
    BY DEF Init, Alone, Running, Ended
  <1>2. Typed /\ Alone => NewestWorksAlone
    <2> SUFFICES ASSUME Typed, Alone, quiet, Running = {}, newest # None, Verified(newest) PROVE Accepts(newest)
      BY DEF NewestWorksAlone
    <2>1. row # None /\ row.expiresAt = exp[newest] /\ now < exp[newest]
      BY DEF Alone, Kept, Verified
    <2>2. row.hash.bytes = User
      BY <2>1 DEF Typed, DataType, Rows, Hashes
    <2> QED
      BY <2>1, <2>2 DEF Accepts, Compare, Bytes
  <1> QED
    BY <1>1, <1>2, InitTyped, NextTyped, NextAlone, PTL DEF Spec
=============================================================================
