---------------------------- MODULE SignupProofs ----------------------------
(***************************************************************************)
(* Machine-checked proofs about SignupVerification, for any number of      *)
(* requests and any expiration, cooldown and limit of attempts.            *)
(***************************************************************************)
EXTENDS SignupVerification, TLAPS

\* The steps at which a request holds the row it has read or made.
RowSteps == {"insert", "saveSelect", "saveUpdate", "saveInsert", "removeRow", "consumeRemove"}

ControlType ==
  /\ pc \in [Requests -> Steps]
  /\ job \in [Requests -> Jobs \cup {NoJob}]
  /\ \A r \in Requests : /\ pc[r] \notin Ended \cup {"idle"} => job[r] \in Jobs
                         /\ pc[r] \in RowSteps => job[r].row \in Rows

DataType ==
  /\ now \in Time
  /\ row \in Rows \cup {None}
  /\ user \in Accounts \cup {None}
  /\ mailed \in Mails \cup {None}
  /\ issued \subseteq Codes
  /\ wrong \in Nat
  /\ quiet \in BOOLEAN

Typed == ControlType /\ DataType

\* The codes of the row, of the requests about to create the account, and of the account are issued.
Issued ==
  /\ row # None => row.code \in issued
  /\ \A r \in Requests : pc[r] = "createUser" => job[r].code \in issued
  /\ VerifiedAccounts

\* The type invariant follows from its parts.
LEMMA TypedImpliesTypeOK == Typed => TypeOK
  BY DEF Typed, ControlType, DataType, TypeOK

\* A step to well-formed locals keeps the requests well-formed.
LEMMA GotoType ==
  ASSUME ControlType, NEW r \in Requests, NEW step \in Steps, NEW j, Goto(r, step, j),
         step \in Ended \/ (j \in Jobs /\ (step \in RowSteps => j.row \in Rows))
  PROVE  ControlType'
  BY DEF ControlType, Goto, RowSteps, Ended

\* A request that goes anywhere but to createUser changes nothing about who is about to create
\* the account.
LEMMA GotoElsewhere ==
  ASSUME ControlType, NEW r \in Requests, NEW step, NEW j, Goto(r, step, j), step # "createUser"
  PROVE  \A q \in Requests : pc'[q] = "createUser" => pc[q] = "createUser" /\ job'[q] = job[q]
  BY DEF ControlType, Goto

\* A running request has well-formed locals, and so they stay with another row in them.
LEMMA JobRow ==
  ASSUME NEW j \in Jobs, NEW w \in Rows \cup {None}
  PROVE  [j EXCEPT !.row = w] \in Jobs /\ [j EXCEPT !.row = w].row = w
  BY DEF Jobs

\* The row a send makes is well-formed, whether it is new or takes the place of an old one.
LEMMA SendRows ==
  ASSUME Typed, NEW r \in Requests, pc[r] = "sendFind"
  PROVE  NewRow(r) \in Rows /\ (row # None => ResentRow(r) \in Rows)
  <1>1. job[r] \in Jobs
    BY DEF Typed, ControlType, Ended
  <1>2. job[r].at \in Time /\ 0 \in 0..(MaxFailed - 1)
    BY <1>1, VerificationAssumption DEF Jobs
  <1>3. job[r].at + Expiration \in 0..(MaxTime + Expiration)
    BY <1>2, VerificationAssumption DEF Time
  <1> QED
    BY <1>2, <1>3 DEF NewRow, ResentRow, Rows, Codes, Typed, DataType
-----------------------------------------------------------------------------
(* Type correctness *)

\* The initial state is well-formed, and nothing is issued.
LEMMA InitTyped == Init => Typed /\ Issued
  <1> SUFFICES ASSUME Init PROVE Typed /\ Issued
    OBVIOUS
  <1>1. ControlType
    BY DEF Init, ControlType, Steps, RowSteps
  <1>2. DataType
    <2>1. now \in Time
      BY VerificationAssumption DEF Init, Time
    <2>2. quiet \in BOOLEAN
      BY DEF Init
    <2> QED
      BY <2>1, <2>2 DEF Init, DataType
  <1>3. Issued
    BY DEF Init, Issued, VerifiedAccounts
  <1> QED
    BY <1>1, <1>2, <1>3 DEF Typed

\* sendVerificationCode keeps the state well-formed.
LEMMA SendTyped ==
  ASSUME Typed, NEW r \in Requests, BeginSend(r) \/ SendFind(r) \/ Insert(r) \/ Mail(r)
  PROVE  Typed'
  <1>1. CASE BeginSend(r)
    <2>1. [NoJob EXCEPT !.op = "send", !.code = r, !.at = now] \in Jobs
      BY DEF NoJob, Jobs, Codes, Typed, DataType
    <2>2. ControlType'
      BY <1>1, <2>1, GotoType DEF BeginSend, Typed, Steps, RowSteps, Ended
    <2> QED
      BY <1>1, <2>2 DEF BeginSend, Typed, DataType
  <1>2. CASE SendFind(r)
    <2>1. job[r] \in Jobs
      BY <1>2 DEF SendFind, Typed, ControlType, Ended
    <2>2. NewRow(r) \in Rows /\ (row # None => ResentRow(r) \in Rows)
      BY <1>2, SendRows DEF SendFind
    <2>3. ControlType'
      <3>1. CASE CoolingDown(r)
        BY <1>2, <3>1, GotoType DEF SendFind, Typed, Steps, Ended
      <3>2. CASE ~CoolingDown(r) /\ row = None
        BY <1>2, <3>2, <2>1, <2>2, JobRow, GotoType DEF SendFind, Typed, Steps
      <3>3. CASE ~CoolingDown(r) /\ row # None
        BY <1>2, <3>3, <2>1, <2>2, JobRow, GotoType DEF SendFind, Typed, Steps
      <3> QED
        BY <3>1, <3>2, <3>3
    <2>4. wrong' \in Nat /\ quiet' \in BOOLEAN
      <3> DEFINE alone == (Running = {r} /\ user = None /\ (mailed = None \/ mailed.at <= job[r].at))
      <3>1. alone \in BOOLEAN
        OBVIOUS
      <3>2. (wrong' = wrong /\ quiet' = quiet) \/ (wrong' = 0 /\ quiet' = alone)
        BY <1>2 DEF SendFind
      <3> HIDE DEF alone
      <3> QED
        BY <3>1, <3>2 DEF Typed, DataType
    <2> QED
      BY <1>2, <2>3, <2>4 DEF SendFind, Typed, DataType
  <1>3. CASE Insert(r)
    <2>1. job[r] \in Jobs /\ job[r].row \in Rows /\ job[r].row.code \in Codes
      BY <1>3 DEF Insert, Typed, ControlType, Ended, RowSteps, Rows
    <2>2. ControlType'
      BY <1>3, <2>1, GotoType DEF Insert, Typed, Steps, Ended, RowSteps
    <2> QED
      BY <1>3, <2>1, <2>2 DEF Insert, Typed, DataType
  <1>4. CASE Mail(r)
    <2>1. job[r].code \in Codes /\ job[r].at \in Time
      BY <1>4 DEF Mail, Typed, ControlType, Ended, Jobs
    <2>2. ControlType'
      BY <1>4, GotoType DEF Mail, Typed, Steps, Ended
    <2> QED
      BY <1>4, <2>1, <2>2 DEF Mail, Typed, DataType, Mails
  <1> QED
    BY <1>1, <1>2, <1>3, <1>4

\* A row mixed from two well-formed rows is one.
LEMMA MixedRow ==
  ASSUME Typed, NEW r \in Requests, SaveUpdate(r), Present(r)
  PROVE  row' \in Rows
  <1>1. row \in Rows /\ job[r].row \in Rows
    BY DEF SaveUpdate, Present, Typed, DataType, ControlType, RowSteps
  <1>2. DOMAIN row = {"id", "code", "expiresAt", "lastSentAt", "failed"}
    BY <1>1 DEF Rows
  <1>3. row' = [c \in DOMAIN row |-> IF c \in job[r].columns THEN job[r].row[c] ELSE row[c]]
    BY DEF SaveUpdate
  <1>4. row' = [id |-> row'.id, code |-> row'.code, expiresAt |-> row'.expiresAt,
                lastSentAt |-> row'.lastSentAt, failed |-> row'.failed]
    BY <1>2, <1>3
  <1>5. /\ row'.id \in Requests /\ row'.code \in Codes
        /\ row'.expiresAt \in 0..(MaxTime + Expiration)
        /\ row'.lastSentAt \in Time /\ row'.failed \in 0..(MaxFailed - 1)
    BY <1>1, <1>2, <1>3 DEF Rows
  <1> QED
    BY <1>4, <1>5 DEF Rows

\* repository.save keeps the state well-formed.
LEMMA SaveTyped ==
  ASSUME Typed, NEW r \in Requests, SaveSelect(r) \/ SaveUpdate(r) \/ SaveInsert(r)
  PROVE  Typed'
  <1>1. /\ job[r] \in Jobs /\ job[r].row \in Rows /\ job[r].row.code \in Codes
        /\ Saved(r) \in {"mail", "failed"} /\ Saved(r) \in Steps
    BY DEF SaveSelect, SaveUpdate, SaveInsert, Typed, ControlType, Ended, RowSteps, Rows, Saved, Steps
  <1>2. CASE SaveSelect(r)
    <2> DEFINE changed == {c \in Columns : job[r].row[c] # row[c]}
    <2>1. /\ [job[r] EXCEPT !.columns = changed] \in Jobs
          /\ [job[r] EXCEPT !.columns = changed].row = job[r].row
      BY <1>1 DEF Jobs
    <2>2. CASE Present(r)
      <3>1. Goto(r, IF changed = {} THEN Saved(r) ELSE "saveUpdate", [job[r] EXCEPT !.columns = changed])
        BY <1>2, <2>2 DEF SaveSelect
      <3>2. (IF changed = {} THEN Saved(r) ELSE "saveUpdate") \in Steps
        BY <1>1 DEF Steps
      <3> HIDE DEF changed
      <3>3. ControlType'
        BY <3>1, <3>2, <2>1, <1>1, GotoType DEF Typed
      <3> QED
        BY <1>2, <3>3 DEF SaveSelect, Typed, DataType, aux
    <2>3. CASE ~Present(r)
      <3>1. Goto(r, "saveInsert", job[r])
        BY <1>2, <2>3 DEF SaveSelect
      <3>2. ControlType'
        BY <3>1, <1>1, GotoType DEF Typed, Steps
      <3> QED
        BY <1>2, <3>2 DEF SaveSelect, Typed, DataType, aux
    <2> QED
      BY <2>2, <2>3
  <1>3. CASE SaveUpdate(r)
    <2>1. ControlType'
      BY <1>1, <1>3, GotoType DEF SaveUpdate, Typed, RowSteps
    <2>2. CASE Present(r)
      <3>1. row' \in Rows /\ row'.code \in Codes
        BY <1>3, <2>2, MixedRow DEF Rows
      <3> QED
        BY <1>3, <2>1, <2>2, <3>1 DEF SaveUpdate, Typed, DataType
    <2>3. CASE ~Present(r)
      BY <1>3, <2>1, <2>3 DEF SaveUpdate, Typed, DataType
    <2> QED
      BY <2>2, <2>3
  <1>4. CASE SaveInsert(r)
    <2>1. ControlType'
      BY <1>1, <1>4, GotoType DEF SaveInsert, Typed, RowSteps, Ended, Steps
    <2> QED
      BY <1>1, <1>4, <2>1 DEF SaveInsert, Typed, DataType
  <1> QED
    BY <1>2, <1>3, <1>4

\* verifyCode keeps the state well-formed: a failure it saves is below the limit.
LEMMA VerifyTyped ==
  ASSUME Typed, NEW r \in Requests, VerifyFind(r)
  PROVE  Typed'
  <1> DEFINE step == Verdict(job[r].code)
  <1>1. job[r] \in Jobs
    BY DEF VerifyFind, Typed, ControlType, Ended
  <1>2. step \in {"failed", "removeRow", "createUser", "saveSelect"}
    BY DEF Verdict, Judge
  <1>3. row = None => step = "failed"
    BY DEF Verdict
  <1>4. step # "failed" => row \in Rows
    BY <1>3 DEF Typed, DataType
  <1>5. step = "saveSelect" => [row EXCEPT !.failed = @ + 1] \in Rows
    <2> SUFFICES ASSUME step = "saveSelect" PROVE [row EXCEPT !.failed = @ + 1] \in Rows
      OBVIOUS
    <2>1. row \in Rows /\ ~LastAttempt
      BY <1>4 DEF Verdict, Judge
    <2>2. row.failed \in 0..(MaxFailed - 1) /\ row.failed + 1 < MaxFailed
      BY <2>1, VerificationAssumption DEF LastAttempt, Rows
    <2>3. row.failed + 1 \in 0..(MaxFailed - 1)
      BY <2>2, VerificationAssumption
    <2> QED
      BY <2>1, <2>3 DEF Rows
  <1>6. Goto(r, step, CASE step = "saveSelect" -> [job[r] EXCEPT !.row = [row EXCEPT !.failed = @ + 1]]
                        [] step = "removeRow" -> [job[r] EXCEPT !.row = row]
                        [] OTHER -> job[r])
    BY DEF VerifyFind
  <1> HIDE DEF step
  <1>7. ControlType'
    <2>1. CASE step = "saveSelect"
      BY <2>1, <1>1, <1>5, <1>6, JobRow, GotoType DEF Typed, Steps
    <2>2. CASE step = "removeRow"
      BY <2>2, <1>1, <1>4, <1>6, JobRow, GotoType DEF Typed, Steps
    <2>3. CASE step \in {"failed", "createUser"}
      BY <2>3, <1>1, <1>6, GotoType DEF Typed, Steps, RowSteps, Ended
    <2> QED
      BY <1>2, <2>1, <2>2, <2>3
  <1>8. wrong' \in Nat
    BY DEF VerifyFind, Typed, DataType
  <1> QED
    BY <1>7, <1>8 DEF VerifyFind, Typed, DataType

\* The rest of signup, and the failures, keep the state well-formed.
LEMMA SignupTyped ==
  ASSUME Typed, NEW r \in Requests,
         \/ \E c \in Codes : BeginSignup(r, c)
         \/ RemoveRow(r) \/ CreateUser(r) \/ ConsumeFind(r) \/ ConsumeRemove(r) \/ Abort(r)
  PROVE  Typed'
  <1>1. ASSUME NEW c \in Codes, BeginSignup(r, c) PROVE Typed'
    <2>1. 0 \in Time
      BY VerificationAssumption DEF Time
    <2>2. [NoJob EXCEPT !.op = "signup", !.code = c] \in Jobs
      BY <2>1 DEF NoJob, Jobs
    <2>3. ControlType'
      BY <1>1, <2>2, GotoType DEF BeginSignup, Typed, Steps, RowSteps, Ended
    <2> QED
      BY <1>1, <2>3 DEF BeginSignup, Typed, DataType
  <1>2. CASE RemoveRow(r) \/ ConsumeRemove(r) \/ Abort(r)
    <2>1. ControlType'
      BY <1>2, GotoType DEF RemoveRow, ConsumeRemove, Abort, Typed, Steps, Ended
    <2> QED
      BY <1>2, <2>1 DEF RemoveRow, ConsumeRemove, Abort, Typed, DataType, aux
  <1>3. CASE CreateUser(r)
    <2>1. job[r] \in Jobs /\ job[r].code \in Codes
      BY <1>3 DEF CreateUser, Typed, ControlType, Ended, Jobs
    <2>2. ControlType'
      BY <1>3, <2>1, GotoType DEF CreateUser, Typed, Steps, RowSteps, Ended
    <2> QED
      BY <1>3, <2>1, <2>2 DEF CreateUser, Typed, DataType, Accounts, aux
  <1>4. CASE ConsumeFind(r)
    <2>1. job[r] \in Jobs /\ row \in Rows \cup {None}
      BY <1>4 DEF ConsumeFind, Typed, ControlType, DataType, Ended
    <2>2. CASE row = None
      BY <1>4, <2>2, GotoType DEF ConsumeFind, Typed, Steps, Ended, DataType, aux
    <2>3. CASE row # None
      <3>1. ControlType'
        BY <1>4, <2>1, <2>3, JobRow, GotoType DEF ConsumeFind, Typed, Steps
      <3> QED
        BY <1>4, <3>1 DEF ConsumeFind, Typed, DataType, aux
    <2> QED
      BY <2>2, <2>3
  <1> QED
    BY <1>1, <1>2, <1>3, <1>4

\* Every step keeps the state well-formed.
LEMMA NextTyped == Typed /\ [Next]_vars => Typed'
  <1> SUFFICES ASSUME Typed, [Next]_vars PROVE Typed'
    OBVIOUS
  <1>1. CASE Tick
    BY <1>1, VerificationAssumption DEF Tick, Typed, ControlType, DataType, Time, aux
  <1>2. ASSUME NEW r \in Requests, BeginSend(r) \/ SendFind(r) \/ Insert(r) \/ Mail(r) PROVE Typed'
    BY <1>2, SendTyped
  <1>3. ASSUME NEW r \in Requests, SaveSelect(r) \/ SaveUpdate(r) \/ SaveInsert(r) PROVE Typed'
    BY <1>3, SaveTyped
  <1>4. ASSUME NEW r \in Requests, VerifyFind(r) PROVE Typed'
    BY <1>4, VerifyTyped
  <1>5. ASSUME NEW r \in Requests,
               \/ \E c \in Codes : BeginSignup(r, c)
               \/ RemoveRow(r) \/ CreateUser(r) \/ ConsumeFind(r) \/ ConsumeRemove(r) \/ Abort(r)
        PROVE Typed'
    BY <1>5, SignupTyped
  <1>6. CASE UNCHANGED vars
    BY <1>6 DEF vars, aux, Typed, ControlType, DataType
  <1> QED
    BY <1>1, <1>2, <1>3, <1>4, <1>5, <1>6 DEF Next

\* However sends, verifications and saves of stale rows mix, the tables stay well-formed; above
\* all, the row never has as many failed attempts as MAX_FAILED_ATTEMPTS.
THEOREM SignupTypeCorrect == Spec => []TypeOK
  BY InitTyped, NextTyped, TypedImpliesTypeOK, PTL DEF Spec
-----------------------------------------------------------------------------
(* Verified accounts *)

\* Only a verification moves a request to createUser, and only by the code of the row.
LEMMA VerifyIssued ==
  ASSUME Typed, Issued, NEW r \in Requests, VerifyFind(r)
  PROVE  Issued'
  <1>1. UNCHANGED <<row, user, issued>>
    BY DEF VerifyFind
  <1>2. Verdict(job[r].code) = "createUser" => job[r].code \in issued
    BY DEF Verdict, Judge, Issued
  <1>3. ASSUME NEW q \in Requests, pc'[q] = "createUser" PROVE job'[q].code \in issued'
    <2>1. CASE Verdict(job[r].code) = "createUser" /\ q = r
      BY <1>1, <1>2, <2>1 DEF VerifyFind, Goto, Typed, ControlType, Ended
    <2>2. CASE Verdict(job[r].code) # "createUser" /\ q = r
      BY <1>3, <2>2 DEF VerifyFind, Goto, Typed, ControlType
    <2>3. CASE q # r
      BY <1>1, <1>3, <2>3 DEF VerifyFind, Goto, Typed, ControlType, Issued
    <2> QED
      BY <2>1, <2>2, <2>3
  <1> QED
    BY <1>1, <1>3 DEF Issued, VerifiedAccounts

\* A step that leaves the account alone and takes no request to createUser keeps the codes
\* issued if it keeps the row's.
LEMMA OtherIssued ==
  ASSUME Typed, Issued, NEW r \in Requests, NEW step, NEW j, Goto(r, step, j), step # "createUser",
         user' = user, issued \subseteq issued', row' # None => row'.code \in issued'
  PROVE  Issued'
  BY GotoElsewhere DEF Typed, Issued, VerifiedAccounts

\* Every step keeps every code in use issued.
LEMMA NextIssued == Typed /\ Issued /\ [Next]_vars => Issued'
  <1> SUFFICES ASSUME Typed, Issued, [Next]_vars PROVE Issued'
    OBVIOUS
  <1>1. CASE Tick \/ UNCHANGED vars
    BY <1>1 DEF Tick, vars, aux, Issued, VerifiedAccounts
  <1>2. ASSUME NEW r \in Requests, \/ BeginSend(r) \/ SendFind(r) \/ Mail(r) \/ ConsumeFind(r) \/ Abort(r)
                                   \/ \E c \in Codes : BeginSignup(r, c)
        PROVE Issued'
    <2>1. UNCHANGED <<row, user, issued>>
      BY <1>2 DEF BeginSend, SendFind, Mail, ConsumeFind, Abort, BeginSignup, aux
    <2>2. \E step, j : Goto(r, step, j) /\ step # "createUser"
      <3>1. CASE BeginSend(r) \/ Mail(r) \/ Abort(r)
        BY <3>1 DEF BeginSend, Mail, Abort
      <3>2. CASE SendFind(r)
        BY <3>2 DEF SendFind
      <3>3. CASE ConsumeFind(r)
        BY <3>3 DEF ConsumeFind
      <3>4. CASE \E c \in Codes : BeginSignup(r, c)
        BY <3>4 DEF BeginSignup
      <3> QED
        BY <1>2, <3>1, <3>2, <3>3, <3>4
    <2> QED
      BY <2>1, <2>2, OtherIssued DEF Issued
  <1>3. ASSUME NEW r \in Requests, SaveSelect(r) PROVE Issued'
    <2>1. UNCHANGED <<row, user, issued>> /\ \E step, j : Goto(r, step, j) /\ step # "createUser"
      BY <1>3 DEF SaveSelect, Saved, aux
    <2> QED
      BY <2>1, OtherIssued DEF Issued
  <1>4. ASSUME NEW r \in Requests, Insert(r) \/ SaveInsert(r) \/ SaveUpdate(r) PROVE Issued'
    <2>1. /\ user' = user /\ issued \subseteq issued'
          /\ \E step, j : Goto(r, step, j) /\ step # "createUser"
      BY <1>4 DEF Insert, SaveInsert, SaveUpdate, Saved
    <2>2. row' # None => row'.code \in issued'
      BY <1>4 DEF Insert, SaveInsert, SaveUpdate, Issued
    <2> QED
      BY <2>1, <2>2, OtherIssued
  <1>5. ASSUME NEW r \in Requests, RemoveRow(r) \/ ConsumeRemove(r) PROVE Issued'
    <2>1. UNCHANGED <<user, issued>> /\ (\E step, j : Goto(r, step, j) /\ step # "createUser")
      BY <1>5 DEF RemoveRow, ConsumeRemove, aux
    <2>2. row' # None => row' = row
      BY <1>5 DEF RemoveRow, ConsumeRemove
    <2> QED
      BY <2>1, <2>2, OtherIssued DEF Issued
  <1>6. ASSUME NEW r \in Requests, CreateUser(r) PROVE Issued'
    <2>1. UNCHANGED <<row, issued>>
      BY <1>6 DEF CreateUser, aux
    <2>2. user' # None => user'.code \in issued'
      BY <1>6, <2>1 DEF CreateUser, Issued, VerifiedAccounts
    <2>3. \A q \in Requests : pc'[q] = "createUser" => pc[q] = "createUser" /\ job'[q] = job[q]
      BY <1>6, GotoElsewhere DEF CreateUser, Typed
    <2> QED
      BY <2>1, <2>2, <2>3 DEF Issued, VerifiedAccounts
  <1>7. ASSUME NEW r \in Requests, VerifyFind(r) PROVE Issued'
    BY <1>7, VerifyIssued
  <1> QED
    BY <1>1, <1>2, <1>3, <1>4, <1>5, <1>6, <1>7 DEF Next

\* isEmailVerified means what it says: an account exists only if a code was stored for its
\* address and entered, whatever saves, removals, expiries and failures came in between.
THEOREM AccountsVerified == Spec => []VerifiedAccounts
  <1>1. Issued => VerifiedAccounts
    BY DEF Issued
  <1> QED
    BY <1>1, InitTyped, NextTyped, NextIssued, PTL DEF Spec
-----------------------------------------------------------------------------
(* A user who acts alone *)

\* The part of Usable that has to be so for the mailed code to be expected to work.
Expected == user = None /\ mailed # None /\ wrong < MaxFailed /\ now <= mailed.at + Expiration

\* Between two requests: the mailed code is in the row with its own expiry, the row counts no more
\* failures than there were wrong codes, and an account has left no row.
Settled ==
  /\ Expected => row # None /\ row.code = mailed.code /\ row.expiresAt = mailed.at + Expiration
  /\ row # None => row.failed <= wrong
  /\ user # None => row = None

\* A row that holds the code of send r.
Sent(w, r) == w.code = job[r].code /\ w.expiresAt = job[r].at + Expiration /\ w.failed = 0

\* A send that was accepted: no code has been entered since, and its code will be the newest mailed.
Accepted(r) == user = None /\ wrong = 0 /\ (mailed # None => mailed.at <= job[r].at)

\* What request r, the only one that is running, finds at its step.
Undisturbed(r) ==
  /\ pc[r] # "saveInsert"
  /\ pc[r] \in {"sendFind", "verifyFind"} => Settled /\ user = None
  /\ pc[r] = "insert" => Accepted(r) /\ row = None /\ Sent(job[r].row, r)
  /\ pc[r] \in {"saveSelect", "saveUpdate"} =>
       /\ row # None /\ row.id = job[r].row.id
       /\ pc[r] = "saveUpdate" => \A c \in Columns \ job[r].columns : row[c] = job[r].row[c]
       /\ IF job[r].op = "send" THEN Accepted(r) /\ Sent(job[r].row, r)
          ELSE /\ Settled /\ user = None
               /\ job[r].row.code = row.code /\ job[r].row.expiresAt = row.expiresAt
               /\ job[r].row.failed <= wrong
  /\ pc[r] = "mail" => Accepted(r) /\ row # None /\ Sent(row, r)
  /\ pc[r] = "removeRow" => ~Expected /\ user = None /\ job[r].row = row
  /\ pc[r] = "createUser" => user = None
  /\ pc[r] \in {"consumeFind", "consumeRemove"} => user # None
  /\ pc[r] = "consumeRemove" => job[r].row = row

\* A request is at its first query as its beginning left it.
Begun ==
  \A r \in Requests : /\ pc[r] = "sendFind" => job[r].op = "send" /\ job[r].code = r
                      /\ pc[r] = "verifyFind" => job[r].op = "signup"

Alone ==
  quiet => /\ \A q, r \in Running : q = r
           /\ Running = {} => Settled
           /\ \A r \in Running : Undisturbed(r)

\* A request that goes anywhere but to its first query keeps Begun.
LEMMA BegunKept ==
  ASSUME Typed, Begun, NEW r \in Requests, NEW step, NEW j, Goto(r, step, j),
         step \notin {"sendFind", "verifyFind"}
  PROVE  Begun'
  BY DEF Begun, Goto, Typed, ControlType

\* Every request begins with its own locals.
LEMMA NextBegun == Typed /\ Begun /\ [Next]_vars => Begun'
  <1> SUFFICES ASSUME Typed, Begun, [Next]_vars PROVE Begun'
    OBVIOUS
  <1>1. CASE Tick \/ UNCHANGED vars
    BY <1>1 DEF Tick, vars, Begun
  <1>2. ASSUME NEW r \in Requests, BeginSend(r) PROVE Begun'
    <2>1. /\ [NoJob EXCEPT !.op = "send", !.code = r, !.at = now].op = "send"
          /\ [NoJob EXCEPT !.op = "send", !.code = r, !.at = now].code = r
      BY DEF NoJob
    <2> QED
      BY <1>2, <2>1 DEF BeginSend, Begun, Goto, Ended, Typed, ControlType
  <1>3. ASSUME NEW r \in Requests, NEW c \in Codes, BeginSignup(r, c) PROVE Begun'
    <2>1. [NoJob EXCEPT !.op = "signup", !.code = c].op = "signup"
      BY DEF NoJob
    <2> QED
      BY <1>3, <2>1 DEF BeginSignup, Begun, Goto, Ended, Typed, ControlType
  <1>4. ASSUME NEW r \in Requests, SendFind(r) PROVE Begun'
    BY <1>4, BegunKept DEF SendFind
  <1>5. ASSUME NEW r \in Requests, SaveSelect(r) \/ SaveUpdate(r) \/ SaveInsert(r) PROVE Begun'
    BY <1>5, BegunKept DEF SaveSelect, SaveUpdate, SaveInsert, Saved
  <1>6. ASSUME NEW r \in Requests, VerifyFind(r) PROVE Begun'
    BY <1>6, BegunKept DEF VerifyFind, Verdict, Judge
  <1>7. ASSUME NEW r \in Requests,
               \/ Insert(r) \/ Mail(r) \/ RemoveRow(r) \/ CreateUser(r)
               \/ ConsumeFind(r) \/ ConsumeRemove(r) \/ Abort(r)
        PROVE  Begun'
    BY <1>7, BegunKept DEF Insert, Mail, RemoveRow, CreateUser, ConsumeFind, ConsumeRemove, Abort
  <1> QED
    BY <1>1, <1>2, <1>3, <1>4, <1>5, <1>6, <1>7 DEF Next

\* A step of a request that is alone keeps the invariant if it leaves what the next step needs.
LEMMA AloneKept ==
  ASSUME Typed, NEW r \in Requests, NEW step \in Steps \ {"idle"}, NEW j, Goto(r, step, j),
         quiet' => Running \subseteq {r},
         quiet' => IF step \in Ended THEN Settled' ELSE Undisturbed(r)'
  PROVE  Alone'
  <1>1. pc'[r] = step /\ \A q \in Requests : q # r => pc'[q] = pc[q]
    BY DEF Goto, Typed, ControlType
  <1>2. quiet' => Running' = IF step \in Ended THEN {} ELSE {r}
    BY <1>1 DEF Running, Ended
  <1> QED
    BY <1>2 DEF Alone

\* Who runs while it is quiet runs alone.
LEMMA Solo ==
  ASSUME Alone, quiet, NEW r \in Requests, r \in Running
  PROVE  Running = {r} /\ Undisturbed(r)
  BY DEF Alone, Running

\* The beginning of a request, and of sendVerificationCode, that nothing overlaps.
LEMMA BeginAlone ==
  ASSUME Typed, Alone, NEW r \in Requests, BeginSend(r) \/ \E c \in Codes : BeginSignup(r, c)
  PROVE  Alone'
  <1>1. /\ quiet' => quiet /\ Running = {} /\ Settled
        /\ UNCHANGED <<now, row, user, mailed, wrong>>
        /\ pc[r] = "idle"
    BY DEF BeginSend, BeginSignup, Alone
  <1>2. quiet' => Settled'
    BY <1>1 DEF Settled, Expected
  <1>3. CASE BeginSend(r)
    <2> DEFINE j == [NoJob EXCEPT !.op = "send", !.code = r, !.at = now]
               step == IF user = None THEN "sendFind" ELSE "failed"
    <2>1. Goto(r, step, j) /\ step \in Steps \ {"idle"}
      BY <1>3 DEF BeginSend, Steps, Ended
    <2>2. pc'[r] = step /\ (step \notin Ended => job'[r] = j)
      BY <2>1 DEF Goto, Typed, ControlType
    <2>4. step \notin Ended => step = "sendFind" /\ user = None
      BY DEF Ended
    <2> HIDE DEF j, step
    <2>5. quiet' => IF step \in Ended THEN Settled' ELSE Undisturbed(r)'
      BY <1>1, <1>2, <2>2, <2>4 DEF Undisturbed
    <2> QED
      BY <1>1, <2>1, <2>5, AloneKept
  <1>4. ASSUME NEW c \in Codes, BeginSignup(r, c) PROVE Alone'
    <2> DEFINE j == [NoJob EXCEPT !.op = "signup", !.code = c]
               step == IF user = None THEN "verifyFind" ELSE "failed"
    <2>1. Goto(r, step, j) /\ step \in Steps \ {"idle"}
      BY <1>4 DEF BeginSignup, Steps, Ended
    <2>2. pc'[r] = step /\ (step \notin Ended => job'[r] = j)
      BY <2>1 DEF Goto, Typed, ControlType
    <2>4. step \notin Ended => step = "verifyFind" /\ user = None
      BY DEF Ended
    <2> HIDE DEF j, step
    <2>5. quiet' => IF step \in Ended THEN Settled' ELSE Undisturbed(r)'
      BY <1>1, <1>2, <2>2, <2>4 DEF Undisturbed
    <2> QED
      BY <1>1, <2>1, <2>5, AloneKept
  <1> QED
    BY <1>3, <1>4

\* A send that is accepted makes it quiet if it is alone.
LEMMA SendFindAlone ==
  ASSUME Typed, Alone, Begun, NEW r \in Requests, SendFind(r)
  PROVE  Alone'
  <1>1. r \in Running /\ pc[r] = "sendFind" /\ UNCHANGED <<now, row, user, mailed>>
    BY DEF SendFind, Running, Ended
  <1>2. CASE CoolingDown(r)
    <2>1. Goto(r, "failed", job[r]) /\ UNCHANGED <<wrong, quiet>>
      BY <1>2 DEF SendFind
    <2>2. quiet => Running = {r} /\ Settled
      BY <1>1, Solo DEF Undisturbed
    <2>3. quiet' => Settled'
      BY <1>1, <2>1, <2>2 DEF Settled, Expected
    <2> QED
      BY <2>1, <2>2, <2>3, AloneKept DEF Steps, Ended
  <1>3. CASE ~CoolingDown(r)
    <2> DEFINE w == IF row = None THEN NewRow(r) ELSE ResentRow(r)
               j == [job[r] EXCEPT !.row = w]
               step == IF row = None THEN "insert" ELSE "saveSelect"
    <2>1. Goto(r, step, j) /\ step \in Steps \ {"idle"} /\ step \notin Ended
      BY <1>3 DEF SendFind, Steps, Ended
    <2>2. quiet' => Running = {r} /\ user = None /\ (mailed = None \/ mailed.at <= job[r].at)
      BY <1>3 DEF SendFind
    <2>3. wrong' = 0
      BY <1>3 DEF SendFind
    <2>4. pc'[r] = step /\ job'[r] = j
      BY <2>1 DEF Goto, Typed, ControlType
    <2>5. job[r] \in Jobs
      BY <1>1 DEF Typed, ControlType, Ended
    <2>6. j.row = w /\ j.op = job[r].op /\ j.code = job[r].code /\ j.at = job[r].at
      BY <2>5 DEF Jobs
    <2>7. /\ w.code = r /\ w.expiresAt = job[r].at + Expiration /\ w.failed = 0
          /\ row # None => w.id = row.id
      BY DEF NewRow, ResentRow
    <2>8. job[r].op = "send" /\ job[r].code = r
      BY <1>1 DEF Begun
    <2> HIDE DEF j, w
    <2>9. quiet' => Undisturbed(r)'
      <3> SUFFICES ASSUME quiet' PROVE Undisturbed(r)'
        OBVIOUS
      <3>1. Accepted(r)' /\ Sent(job[r].row, r)'
        BY <1>1, <2>2, <2>3, <2>4, <2>6, <2>7, <2>8 DEF Accepted, Sent
      <3> QED
        BY <1>1, <2>4, <2>6, <2>7, <2>8, <3>1 DEF Undisturbed
    <2> QED
      BY <2>1, <2>2, <2>9, AloneKept
  <1> QED
    BY <1>2, <1>3

\* The database steps of a send that is alone.
LEMMA SendAlone ==
  ASSUME Typed, Alone, NEW r \in Requests, Insert(r) \/ Mail(r)
  PROVE  Alone'
  <1>1. r \in Running /\ quiet' = quiet
    BY DEF Insert, Mail, Running, Ended
  <1>2. quiet => Running = {r} /\ Undisturbed(r)
    BY <1>1, Solo
  <1>3. CASE Insert(r)
    <2> DEFINE step == IF row = None THEN "mail" ELSE "failed"
    <2>1. Goto(r, step, job[r]) /\ step \in Steps \ {"idle"}
      BY <1>3 DEF Insert, Steps, Ended
    <2>2. quiet => row = None /\ Accepted(r) /\ Sent(job[r].row, r)
      BY <1>2, <1>3 DEF Insert, Undisturbed
    <2>3. quiet => pc'[r] = "mail" /\ job'[r] = job[r] /\ row' = job[r].row
      BY <1>3, <2>1, <2>2 DEF Insert, Goto, Ended, Typed, ControlType
    <2>4. job[r].row # None
      BY <1>3, NoneAssumption DEF Insert, Typed, ControlType, RowSteps, Rows
    <2>5. quiet => step \notin Ended /\ Undisturbed(r)'
      BY <1>3, <2>2, <2>3, <2>4 DEF Insert, Undisturbed, Accepted, Sent, Ended
    <2> HIDE DEF step
    <2> QED
      BY <1>1, <1>2, <2>1, <2>5, AloneKept
  <1>4. CASE Mail(r)
    <2>1. Goto(r, "done", job[r]) /\ UNCHANGED <<now, row, user, wrong>>
      BY <1>4 DEF Mail
    <2>2. quiet => Accepted(r) /\ row # None /\ Sent(row, r)
      BY <1>2, <1>4 DEF Mail, Undisturbed
    <2>3. mailed # None => mailed.at \in Nat
      BY DEF Typed, DataType, Mails, Time
    <2>4. job[r].at \in Nat
      BY <1>4 DEF Mail, Typed, ControlType, Ended, Jobs, Time
    <2>5. quiet => mailed' = [code |-> job[r].code, at |-> job[r].at]
      BY <1>4, <2>2, <2>3, <2>4 DEF Mail, Accepted
    <2>6. quiet => Settled'
      BY <2>1, <2>2, <2>5 DEF Settled, Expected, Sent, Accepted
    <2> QED
      BY <1>1, <1>2, <2>1, <2>6, AloneKept DEF Steps, Ended
  <1> QED
    BY <1>3, <1>4

\* save() by a request that is alone finds the row that was read, and writes just what it holds.
LEMMA SaveAlone ==
  ASSUME Typed, Alone, NEW r \in Requests, SaveSelect(r) \/ SaveUpdate(r) \/ SaveInsert(r)
  PROVE  Alone'
  <1>1. r \in Running /\ UNCHANGED <<now, user, mailed, wrong, quiet>>
    BY DEF SaveSelect, SaveUpdate, SaveInsert, Running, Ended, aux
  <1>2. quiet => Running = {r} /\ Undisturbed(r)
    BY <1>1, Solo
  <1>3. job[r] \in Jobs
    BY DEF SaveSelect, SaveUpdate, SaveInsert, Typed, ControlType, Ended
  <1>4. \* When the row holds what the request was to save.
        ASSUME quiet, Goto(r, Saved(r), IF pc[r] = "saveUpdate" THEN job[r] ELSE job'[r]),
               Saved(r) \notin Ended => job'[r].code = job[r].code /\ job'[r].at = job[r].at,
               row # None, row' # None,
               row'.code = job[r].row.code, row'.expiresAt = job[r].row.expiresAt,
               row'.failed \in {row.failed, job[r].row.failed},
               job[r].op = "send" => row'.failed = job[r].row.failed,
               pc[r] \in {"saveSelect", "saveUpdate"}
        PROVE  Alone'
    <2>1. CASE job[r].op = "send"
      <3>1. Accepted(r) /\ Sent(job[r].row, r)
        BY <1>2, <1>4, <2>1 DEF Undisturbed
      <3>2. Saved(r) = "mail" /\ pc'[r] = "mail"
        BY <1>4, <2>1 DEF Saved, Goto, Typed, ControlType
      <3>3. Accepted(r)' /\ Sent(row, r)'
        BY <1>1, <1>4, <2>1, <3>1, <3>2 DEF Accepted, Sent, Ended
      <3>4. Undisturbed(r)'
        BY <1>4, <3>2, <3>3 DEF Undisturbed
      <3> QED
        BY <1>1, <1>2, <1>4, <3>2, <3>4, AloneKept DEF Steps, Ended
    <2>2. CASE job[r].op # "send"
      <3>1. /\ Settled /\ user = None /\ job[r].row.code = row.code
            /\ job[r].row.expiresAt = row.expiresAt /\ job[r].row.failed <= wrong
        BY <1>2, <1>4, <2>2 DEF Undisturbed
      <3>2. Settled'
        BY <1>1, <1>4, <3>1 DEF Settled, Expected
      <3>3. Saved(r) = "failed"
        BY <2>2 DEF Saved
      <3> QED
        BY <1>1, <1>2, <1>4, <3>2, <3>3, AloneKept DEF Steps, Ended
    <2> QED
      BY <2>1, <2>2
  <1>5. CASE ~quiet
    BY <1>1, <1>5 DEF Alone
  <1>6. CASE quiet /\ SaveSelect(r)
    <2> DEFINE changed == {c \in Columns : job[r].row[c] # row[c]}
               j == [job[r] EXCEPT !.columns = changed]
               step == IF changed = {} THEN Saved(r) ELSE "saveUpdate"
    <2>1. Present(r) /\ row # None /\ row.id = job[r].row.id
      BY <1>2, <1>6 DEF SaveSelect, Undisturbed, Present
    <2>2. Goto(r, step, j) /\ row' = row
      BY <1>6, <2>1 DEF SaveSelect
    <2>3. /\ j.op = job[r].op /\ j.code = job[r].code /\ j.at = job[r].at /\ j.row = job[r].row
          /\ j.columns = changed
      BY <1>3 DEF Jobs
    <2>4. pc'[r] = step /\ (step \notin Ended => job'[r] = j)
      BY <2>2 DEF Goto, Typed, ControlType
    <2>5. CASE changed = {}
      <3>1. row.code = job[r].row.code /\ row.expiresAt = job[r].row.expiresAt /\ row.failed = job[r].row.failed
        BY <2>5 DEF Columns
      <3>2. Goto(r, Saved(r), j) /\ pc[r] = "saveSelect"
        BY <1>6, <2>2, <2>5 DEF SaveSelect
      <3>3. Goto(r, Saved(r), job'[r])
        BY <3>2 DEF Goto, Typed, ControlType
      <3>4. Saved(r) \notin Ended => job'[r].code = job[r].code /\ job'[r].at = job[r].at
        BY <2>3, <2>4, <2>5
      <3> QED
        BY <1>4, <1>6, <2>1, <2>2, <3>1, <3>2, <3>3, <3>4
    <2>6. CASE changed # {}
      <3>1. step = "saveUpdate" /\ pc'[r] = "saveUpdate" /\ job'[r] = j
        BY <2>4, <2>6 DEF Ended
      <3>2. \A c \in Columns \ changed : row[c] = job[r].row[c]
        OBVIOUS
      <3> HIDE DEF changed, j, step
      <3>3. Undisturbed(r)'
        <4>1. CASE job[r].op = "send"
          <5>1. Accepted(r) /\ Sent(job[r].row, r)
            BY <1>2, <1>6, <4>1 DEF Undisturbed, SaveSelect
          <5>2. Accepted(r)' /\ Sent(job[r].row, r)'
            BY <1>1, <2>3, <3>1, <5>1 DEF Accepted, Sent
          <5> QED
            BY <2>1, <2>2, <2>3, <3>1, <3>2, <4>1, <5>2 DEF Undisturbed
        <4>2. CASE job[r].op # "send"
          <5>1. /\ Settled /\ user = None /\ job[r].row.code = row.code
                /\ job[r].row.expiresAt = row.expiresAt /\ job[r].row.failed <= wrong
            BY <1>2, <1>6, <4>2 DEF Undisturbed, SaveSelect
          <5>2. Settled'
            BY <1>1, <2>2, <5>1 DEF Settled, Expected
          <5> QED
            BY <1>1, <2>1, <2>2, <2>3, <3>1, <3>2, <4>2, <5>1, <5>2 DEF Undisturbed
        <4> QED
          BY <4>1, <4>2
      <3> QED
        BY <1>1, <1>2, <2>2, <3>1, <3>3, AloneKept DEF Steps, Ended
    <2> QED
      BY <2>5, <2>6
  <1>7. CASE quiet /\ SaveUpdate(r)
    <2>1. /\ Present(r) /\ row # None /\ row.id = job[r].row.id
          /\ \A c \in Columns \ job[r].columns : row[c] = job[r].row[c]
      BY <1>2, <1>7 DEF SaveUpdate, Undisturbed, Present
    <2>2. row \in Rows /\ DOMAIN row = {"id", "code", "expiresAt", "lastSentAt", "failed"}
      BY <2>1 DEF Typed, DataType, Rows
    <2>3. row' = [c \in DOMAIN row |-> IF c \in job[r].columns THEN job[r].row[c] ELSE row[c]]
      BY <1>7, <2>1 DEF SaveUpdate
    <2>4. \A c \in Columns : row'[c] = job[r].row[c]
      BY <2>1, <2>2, <2>3 DEF Columns
    <2>5. row' # None
      BY <1>7, <2>1, MixedRow, NoneAssumption
    <2>6. Goto(r, Saved(r), job[r]) /\ pc[r] = "saveUpdate"
      BY <1>7 DEF SaveUpdate
    <2>7. Saved(r) \notin Ended => job'[r] = job[r]
      BY <2>6 DEF Goto, Typed, ControlType
    <2> QED
      BY <1>4, <1>7, <2>1, <2>4, <2>5, <2>6, <2>7 DEF Columns
  <1>8. CASE quiet /\ SaveInsert(r)
    BY <1>2, <1>8 DEF SaveInsert, Undisturbed
  <1> QED
    BY <1>5, <1>6, <1>7, <1>8 DEF Typed, DataType

\* verifyCode by a request that is alone: a code it refuses was not to be expected to work.
LEMMA VerifyAlone ==
  ASSUME Typed, Alone, Begun, NEW r \in Requests, VerifyFind(r)
  PROVE  Alone'
  <1> DEFINE step == Verdict(job[r].code)
  <1>1. /\ r \in Running /\ pc[r] = "verifyFind" /\ UNCHANGED <<now, row, user, mailed, quiet>>
        /\ wrong' = IF row # None /\ row.code # job[r].code THEN wrong + 1 ELSE wrong
    BY DEF VerifyFind, Running, Ended
  <1>2. quiet => Running = {r} /\ Settled /\ user = None
    BY <1>1, Solo DEF Undisturbed
  <1>3. job[r] \in Jobs /\ job[r].op = "signup"
    BY <1>1 DEF Typed, ControlType, Ended, Begun
  <1>4. /\ now \in Nat /\ wrong \in Nat
        /\ row # None => row \in Rows /\ row.failed \in Nat /\ row.expiresAt \in Nat
        /\ mailed # None => mailed.at \in Nat
    BY VerificationAssumption DEF Typed, DataType, Time, Rows, Mails
  <1>5. quiet => Settled'
    BY <1>1, <1>2, <1>4, VerificationAssumption DEF Settled, Expected
  <1>6. step \in {"failed", "removeRow", "createUser", "saveSelect"} /\ (row = None => step = "failed")
    BY DEF Verdict, Judge
  <1>7. Goto(r, step, CASE step = "saveSelect" -> [job[r] EXCEPT !.row = [row EXCEPT !.failed = @ + 1]]
                        [] step = "removeRow" -> [job[r] EXCEPT !.row = row]
                        [] OTHER -> job[r])
    BY DEF VerifyFind
  <1>8. quiet /\ step = "removeRow" => ~Expected'
    <2> SUFFICES ASSUME quiet, step = "removeRow", Expected' PROVE FALSE
      OBVIOUS
    <2>1. Expected
      BY <1>1, <1>4, VerificationAssumption DEF Expected
    <2>2. row # None /\ row.expiresAt = mailed.at + Expiration /\ row.failed <= wrong
      BY <1>2, <2>1 DEF Settled
    <2>3. row.expiresAt >= now
      BY <2>1, <2>2 DEF Expected
    <2>4. row.code # job[r].code /\ LastAttempt
      BY <1>4, <2>2, <2>3 DEF Verdict, Judge
    <2>5. wrong' = wrong + 1 /\ row.failed + 1 >= MaxFailed
      BY <1>1, <2>2, <2>4 DEF LastAttempt
    <2> QED
      BY <1>4, <2>2, <2>5, VerificationAssumption DEF Expected
  <1>9. step = "saveSelect" => row # None /\ wrong' = wrong + 1
    BY <1>1, <1>4, <1>6 DEF Verdict, Judge
  <1> HIDE DEF step
  <1>10. CASE step = "failed"
    BY <1>1, <1>2, <1>5, <1>7, <1>10, AloneKept DEF Steps, Ended
  <1>11. CASE step = "createUser"
    <2>1. pc'[r] = "createUser"
      BY <1>7, <1>11 DEF Goto, Typed, ControlType
    <2>2. quiet => Undisturbed(r)'
      BY <1>1, <1>2, <2>1 DEF Undisturbed
    <2> QED
      BY <1>1, <1>2, <1>7, <1>11, <2>2, AloneKept DEF Steps, Ended
  <1>12. CASE step = "removeRow"
    <2>1. Goto(r, "removeRow", [job[r] EXCEPT !.row = row])
      BY <1>7, <1>12
    <2>2. pc'[r] = "removeRow" /\ job'[r].row = row
      BY <1>3, <2>1 DEF Goto, Typed, ControlType, Ended, Jobs
    <2>3. quiet => Undisturbed(r)'
      BY <1>1, <1>2, <1>8, <1>12, <2>2 DEF Undisturbed
    <2> QED
      BY <1>1, <1>2, <2>1, <2>3, AloneKept DEF Steps, Ended
  <1>13. CASE step = "saveSelect"
    <2> DEFINE w == [row EXCEPT !.failed = @ + 1]
    <2>1. Goto(r, "saveSelect", [job[r] EXCEPT !.row = w])
      BY <1>7, <1>13
    <2>2. w.id = row.id /\ w.code = row.code /\ w.expiresAt = row.expiresAt /\ w.failed = row.failed + 1
      BY <1>4, <1>9, <1>13 DEF Rows
    <2> HIDE DEF w
    <2>3. pc'[r] = "saveSelect" /\ job'[r].row = w /\ job'[r].op = "signup"
      BY <1>3, <2>1 DEF Goto, Typed, ControlType, Ended, Jobs
    <2>4. quiet => w.failed <= wrong'
      BY <1>2, <1>4, <1>9, <1>13, <2>2 DEF Settled
    <2>5. quiet => Undisturbed(r)'
      BY <1>1, <1>2, <1>5, <1>9, <1>13, <2>2, <2>3, <2>4 DEF Undisturbed
    <2> QED
      BY <1>1, <1>2, <2>1, <2>5, AloneKept DEF Steps, Ended
  <1> QED
    BY <1>6, <1>10, <1>11, <1>12, <1>13

\* The rest of a signup that is alone.
LEMMA SignupAlone ==
  ASSUME Typed, Alone, NEW r \in Requests,
         RemoveRow(r) \/ CreateUser(r) \/ ConsumeFind(r) \/ ConsumeRemove(r)
  PROVE  Alone'
  <1>1. r \in Running /\ UNCHANGED <<now, mailed, wrong, quiet>>
    BY DEF RemoveRow, CreateUser, ConsumeFind, ConsumeRemove, Running, Ended, aux
  <1>2. quiet => Running = {r} /\ Undisturbed(r)
    BY <1>1, Solo
  <1>3. CASE RemoveRow(r)
    <2>1. Goto(r, "failed", job[r]) /\ user' = user
      BY <1>3 DEF RemoveRow
    <2>2. quiet => ~Expected /\ user = None /\ row' = None
      BY <1>2, <1>3, NoneAssumption DEF RemoveRow, Present, Undisturbed, Typed, ControlType, RowSteps
    <2>3. quiet => Settled'
      BY <1>1, <2>1, <2>2 DEF Settled, Expected
    <2> QED
      BY <1>1, <1>2, <2>1, <2>3, AloneKept DEF Steps, Ended
  <1>4. CASE CreateUser(r)
    <2>1. quiet => user = None
      BY <1>2, <1>4 DEF CreateUser, Undisturbed
    <2>2. user = None => user' # None
      BY <1>4, NoneAssumption DEF CreateUser, Typed, ControlType, Jobs, Accounts, Ended
    <2>3. Goto(r, IF user = None THEN "consumeFind" ELSE "failed", job[r])
      BY <1>4 DEF CreateUser
    <2>4. quiet => pc'[r] = "consumeFind"
      BY <2>1, <2>3 DEF Goto, Typed, ControlType
    <2>5. quiet => Undisturbed(r)'
      BY <2>1, <2>2, <2>4 DEF Undisturbed
    <2> QED
      BY <1>1, <1>2, <2>1, <2>3, <2>5, AloneKept DEF Steps, Ended
  <1>5. CASE ConsumeFind(r)
    <2>1. quiet => user # None
      BY <1>2, <1>5 DEF ConsumeFind, Undisturbed
    <2>2. UNCHANGED <<row, user>> /\ job[r] \in Jobs
      BY <1>5 DEF ConsumeFind, Typed, ControlType, Ended
    <2>3. Goto(r, IF row = None THEN "done" ELSE "consumeRemove", [job[r] EXCEPT !.row = row])
      BY <1>5 DEF ConsumeFind
    <2>4. CASE row = None
      <3>1. quiet => Settled'
        BY <2>1, <2>2, <2>4 DEF Settled, Expected
      <3> QED
        BY <1>1, <1>2, <2>3, <2>4, <3>1, AloneKept DEF Steps, Ended
    <2>5. CASE row # None
      <3>1. pc'[r] = "consumeRemove" /\ job'[r].row = row
        BY <2>2, <2>3, <2>5 DEF Goto, Typed, ControlType, Ended, Jobs
      <3>2. quiet => Undisturbed(r)'
        BY <2>1, <2>2, <3>1 DEF Undisturbed
      <3> QED
        BY <1>1, <1>2, <2>3, <2>5, <3>2, AloneKept DEF Steps, Ended
    <2> QED
      BY <2>4, <2>5
  <1>6. CASE ConsumeRemove(r)
    <2>1. Goto(r, "done", job[r]) /\ user' = user
      BY <1>6 DEF ConsumeRemove
    <2>2. quiet => user # None /\ row' = None
      BY <1>2, <1>6, NoneAssumption DEF ConsumeRemove, Present, Undisturbed, Typed, ControlType, RowSteps
    <2>3. quiet => Settled'
      BY <2>1, <2>2 DEF Settled, Expected
    <2> QED
      BY <1>1, <1>2, <2>1, <2>3, AloneKept DEF Steps, Ended
  <1> QED
    BY <1>3, <1>4, <1>5, <1>6

\* Time takes nothing from a user who acts alone but what expires.
LEMMA TickAlone ==
  ASSUME Typed, Alone, Tick
  PROVE  Alone'
  <1>1. /\ now \in Nat /\ now' = now + 1 /\ UNCHANGED <<row, user, pc, job, mailed, wrong, quiet>>
        /\ mailed # None => mailed.at \in Nat
    BY DEF Tick, aux, Typed, DataType, Time, Mails
  <1>2. Expected' => Expected
    BY <1>1, VerificationAssumption DEF Expected
  <1>3. Settled => Settled'
    BY <1>1, <1>2 DEF Settled
  <1>4. \A r \in Requests : Undisturbed(r) => Undisturbed(r)'
    BY <1>1, <1>2, <1>3 DEF Undisturbed, Accepted, Sent
  <1> QED
    BY <1>1, <1>3, <1>4 DEF Alone, Running

\* Every step keeps the invariant.
LEMMA NextAlone == Typed /\ Begun /\ Alone /\ [Next]_vars => Alone'
  <1> SUFFICES ASSUME Typed, Begun, Alone, [Next]_vars PROVE Alone'
    OBVIOUS
  <1>1. CASE UNCHANGED vars
    BY <1>1 DEF vars, aux, Alone, Running, Settled, Expected, Undisturbed, Accepted, Sent
  <1>2. ASSUME NEW r \in Requests, Abort(r) PROVE Alone'
    BY <1>2 DEF Abort, Alone
  <1> QED
    BY <1>1, <1>2, TickAlone, BeginAlone, SendFindAlone, SendAlone, SaveAlone, VerifyAlone, SignupAlone
       DEF Next

\* It is not quiet at first.
LEMMA InitAlone == Init => Begun /\ Alone
  BY DEF Init, Begun, Alone

\* Between two requests, the invariant says what was promised.
LEMMA AloneImplies == Typed /\ Alone => MailedCodeWorksAlone /\ SignupConsumes
  <1>1. Settled => MailedCodeUsable
    BY DEF Settled, Expected, MailedCodeUsable
  <1> QED
    BY <1>1 DEF Alone, Settled, MailedCodeWorksAlone, SignupConsumes

\* sendVerificationCode and verifyCode, for a user who makes one request after the other: the code just
\* mailed is accepted until it expires or too many wrong ones were entered, whatever happened before.
THEOREM MailedCodes == Spec => []MailedCodeWorksAlone
  BY InitTyped, InitAlone, NextTyped, NextBegun, NextAlone, AloneImplies, PTL DEF Spec

\* consume: a signup that nothing overlaps leaves no row of its address behind.
THEOREM CodesConsumed == Spec => []SignupConsumes
  BY InitTyped, InitAlone, NextTyped, NextBegun, NextAlone, AloneImplies, PTL DEF Spec

-----------------------------------------------------------------------------
(* A user who acts alone has no more guesses than the limit *)

\* The row counts every wrong code that was entered.
Exactly == row # None => row.failed = wrong

\* What request r, the only one that is running, finds of the count at its step.
CountedAt(r) ==
  /\ pc[r] \in {"sendFind", "verifyFind"} => Exactly
  /\ pc[r] \in {"saveSelect", "saveUpdate"} => job[r].row.failed = wrong
  /\ pc[r] = "createUser" => wrong < MaxFailed

Counted ==
  quiet => /\ user # None => wrong < MaxFailed
           /\ Running = {} => Exactly
           /\ \A r \in Running : CountedAt(r)

\* A step of a request that is alone keeps the count if it leaves what the next step needs.
LEMMA CountedKept ==
  ASSUME Typed, NEW r \in Requests, NEW step \in Steps \ {"idle"}, NEW j, Goto(r, step, j),
         quiet' => Running \subseteq {r},
         quiet' => (user' # None => wrong' < MaxFailed),
         quiet' => IF step \in Ended THEN Exactly' ELSE CountedAt(r)'
  PROVE  Counted'
  <1>1. pc'[r] = step /\ \A q \in Requests : q # r => pc'[q] = pc[q]
    BY DEF Goto, Typed, ControlType
  <1>2. quiet' => Running' = IF step \in Ended THEN {} ELSE {r}
    BY <1>1 DEF Running, Ended
  <1> QED
    BY <1>2 DEF Counted

\* What a request that runs alone may rely on.
LEMMA SoloCounted ==
  ASSUME Alone, Counted, quiet, NEW r \in Requests, r \in Running
  PROVE  /\ Running = {r} /\ Undisturbed(r) /\ CountedAt(r)
         /\ user # None => wrong < MaxFailed
  BY DEF Alone, Counted, Running

\* The beginning of a request, and a send up to its mail.
LEMMA SendCounted ==
  ASSUME Typed, Begun, Alone, Counted, NEW r \in Requests,
         BeginSend(r) \/ (\E c \in Codes : BeginSignup(r, c)) \/ SendFind(r) \/ Insert(r) \/ Mail(r)
  PROVE  Counted'
  <1>1. CASE BeginSend(r) \/ \E c \in Codes : BeginSignup(r, c)
    <2>1. /\ quiet' => quiet /\ Running = {}
          /\ UNCHANGED <<row, user, wrong>>
      BY <1>1 DEF BeginSend, BeginSignup
    <2>2. quiet' => Exactly /\ Exactly' /\ (user' # None => wrong' < MaxFailed)
      BY <2>1 DEF Counted, Exactly
    <2>3. PICK step, j : step \in {"sendFind", "verifyFind", "failed"} /\ Goto(r, step, j)
      <3>1. CASE BeginSend(r)
        <4>1. \/ Goto(r, "sendFind", [NoJob EXCEPT !.op = "send", !.code = r, !.at = now])
              \/ Goto(r, "failed", [NoJob EXCEPT !.op = "send", !.code = r, !.at = now])
          BY <3>1 DEF BeginSend
        <4> QED
          BY <4>1
      <3>2. ASSUME NEW c \in Codes, BeginSignup(r, c)
            PROVE  \E step, j : step \in {"sendFind", "verifyFind", "failed"} /\ Goto(r, step, j)
        <4>1. \/ Goto(r, "verifyFind", [NoJob EXCEPT !.op = "signup", !.code = c])
              \/ Goto(r, "failed", [NoJob EXCEPT !.op = "signup", !.code = c])
          BY <3>2 DEF BeginSignup
        <4> QED
          BY <4>1
      <3> QED
        BY <1>1, <3>1, <3>2
    <2>4. pc'[r] = step
      BY <2>3 DEF Goto, Typed, ControlType
    <2>5. quiet' => CountedAt(r)'
      BY <2>2, <2>3, <2>4 DEF CountedAt
    <2> QED
      BY <2>1, <2>2, <2>3, <2>5, CountedKept DEF Steps, Ended
  <1>2. CASE SendFind(r)
    <2>1. r \in Running /\ pc[r] = "sendFind" /\ UNCHANGED <<row, user>>
      BY <1>2 DEF SendFind, Running, Ended
    <2>2. CASE CoolingDown(r)
      <3>1. Goto(r, "failed", job[r]) /\ UNCHANGED <<wrong, quiet>>
        BY <1>2, <2>2 DEF SendFind
      <3>2. quiet => Running = {r} /\ Exactly' /\ (user' # None => wrong' < MaxFailed)
        BY <2>1, <3>1, SoloCounted DEF CountedAt, Exactly
      <3> QED
        BY <3>1, <3>2, CountedKept DEF Steps, Ended
    <2>3. CASE ~CoolingDown(r)
      <3> DEFINE w == IF row = None THEN NewRow(r) ELSE ResentRow(r)
                 j == [job[r] EXCEPT !.row = w]
                 step == IF row = None THEN "insert" ELSE "saveSelect"
      <3>1. Goto(r, step, j) /\ step \in {"insert", "saveSelect"}
        BY <1>2, <2>3 DEF SendFind
      <3>2. quiet' => Running = {r} /\ user = None
        BY <1>2, <2>3 DEF SendFind
      <3>3. wrong' = 0
        BY <1>2, <2>3 DEF SendFind
      <3>4. pc'[r] = step /\ job'[r] = j
        BY <3>1 DEF Goto, Ended, Typed, ControlType
      <3>5. job[r] \in Jobs
        BY <2>1 DEF Typed, ControlType, Ended
      <3>6. j.row = w
        BY <3>5 DEF Jobs
      <3>7. w.failed = 0
        BY DEF NewRow, ResentRow
      <3> HIDE DEF j, w, step
      <3>8. CountedAt(r)'
        BY <3>1, <3>3, <3>4, <3>6, <3>7 DEF CountedAt
      <3> QED
        BY <2>1, <3>1, <3>2, <3>8, CountedKept DEF Steps, Ended
    <2> QED
      BY <2>2, <2>3
  <1>3. CASE Insert(r)
    <2>1. r \in Running /\ UNCHANGED <<user, wrong, quiet>>
      BY <1>3 DEF Insert, Running, Ended
    <2>2. quiet => Running = {r} /\ Undisturbed(r) /\ (user' # None => wrong' < MaxFailed)
      BY <2>1, SoloCounted
    <2>3. Goto(r, IF row = None THEN "mail" ELSE "failed", job[r])
      BY <1>3 DEF Insert
    <2>4. quiet => row = None
      BY <1>3, <2>2 DEF Insert, Undisturbed
    <2>5. row = None => pc'[r] = "mail"
      BY <2>3 DEF Goto, Typed, ControlType
    <2>6. quiet => CountedAt(r)'
      BY <2>4, <2>5 DEF CountedAt
    <2> QED
      BY <2>1, <2>2, <2>3, <2>4, <2>6, CountedKept DEF Steps, Ended
  <1>4. CASE Mail(r)
    <2>1. r \in Running /\ Goto(r, "done", job[r]) /\ UNCHANGED <<row, user, wrong, quiet>>
      BY <1>4 DEF Mail, Running, Ended
    <2>2. quiet => Running = {r} /\ Undisturbed(r) /\ (user' # None => wrong' < MaxFailed)
      BY <2>1, SoloCounted
    <2>3. quiet => Exactly'
      BY <1>4, <2>1, <2>2 DEF Mail, Undisturbed, Accepted, Sent, Exactly
    <2> QED
      BY <2>1, <2>2, <2>3, CountedKept DEF Steps, Ended
  <1> QED
    BY <1>1, <1>2, <1>3, <1>4

\* A save that is alone writes the count it holds.
LEMMA SaveCounted ==
  ASSUME Typed, Alone, Counted, NEW r \in Requests, SaveSelect(r) \/ SaveUpdate(r) \/ SaveInsert(r)
  PROVE  Counted'
  <1>1. r \in Running /\ UNCHANGED <<user, wrong, quiet>>
    BY DEF SaveSelect, SaveUpdate, SaveInsert, Running, Ended, aux
  <1>2. quiet => /\ Running = {r} /\ Undisturbed(r) /\ CountedAt(r)
                 /\ user' # None => wrong' < MaxFailed
    BY <1>1, SoloCounted
  <1>3. job[r] \in Jobs
    BY DEF SaveSelect, SaveUpdate, SaveInsert, Typed, ControlType, Ended
  <1>4. Saved(r) \in {"mail", "failed"}
    BY DEF Saved
  <1>5. CASE ~quiet
    BY <1>1, <1>5 DEF Counted
  <1>6. CASE quiet /\ SaveSelect(r)
    <2> DEFINE changed == {c \in Columns : job[r].row[c] # row[c]}
               j == [job[r] EXCEPT !.columns = changed]
               step == IF changed = {} THEN Saved(r) ELSE "saveUpdate"
    <2>1. Present(r) /\ row # None
      BY <1>2, <1>6 DEF SaveSelect, Undisturbed, Present
    <2>2. Goto(r, step, j) /\ row' = row
      BY <1>6, <2>1 DEF SaveSelect
    <2>3. j.row = job[r].row
      BY <1>3 DEF Jobs
    <2>4. pc'[r] = step /\ (step \notin Ended => job'[r] = j)
      BY <2>2 DEF Goto, Typed, ControlType
    <2>5. job[r].row.failed = wrong
      BY <1>2, <1>6 DEF CountedAt, SaveSelect
    <2>6. changed = {} => Exactly'
      BY <1>1, <2>2, <2>5 DEF Columns, Exactly
    <2>7. step \in {"mail", "failed", "saveUpdate"} /\ (step # "saveUpdate" => changed = {})
      BY <1>4
    <2> HIDE DEF changed, j, step
    <2>8. step \notin Ended => CountedAt(r)'
      BY <1>1, <2>3, <2>4, <2>5, <2>7 DEF CountedAt
    <2> QED
      BY <1>1, <1>2, <1>6, <2>2, <2>6, <2>7, <2>8, CountedKept DEF Steps, Ended
  <1>7. CASE quiet /\ SaveUpdate(r)
    <2>1. /\ Present(r) /\ row # None
          /\ \A c \in Columns \ job[r].columns : row[c] = job[r].row[c]
      BY <1>2, <1>7 DEF SaveUpdate, Undisturbed, Present
    <2>2. row \in Rows /\ DOMAIN row = {"id", "code", "expiresAt", "lastSentAt", "failed"}
      BY <2>1 DEF Typed, DataType, Rows
    <2>3. row' = [c \in DOMAIN row |-> IF c \in job[r].columns THEN job[r].row[c] ELSE row[c]]
      BY <1>7, <2>1 DEF SaveUpdate
    <2>4. row'.failed = job[r].row.failed
      BY <2>1, <2>2, <2>3 DEF Columns
    <2>5. Exactly'
      BY <1>1, <1>2, <1>7, <2>4 DEF Exactly, CountedAt, SaveUpdate
    <2>6. Goto(r, Saved(r), job[r])
      BY <1>7 DEF SaveUpdate
    <2>7. pc'[r] = Saved(r)
      BY <2>6 DEF Goto, Typed, ControlType
    <2>8. CountedAt(r)'
      BY <1>4, <2>7 DEF CountedAt
    <2> QED
      BY <1>1, <1>2, <1>4, <1>7, <2>5, <2>6, <2>8, CountedKept DEF Steps, Ended
  <1>8. CASE quiet /\ SaveInsert(r)
    BY <1>2, <1>8 DEF SaveInsert, Undisturbed
  <1> QED
    BY <1>5, <1>6, <1>7, <1>8 DEF Typed, DataType

\* A signup that is alone counts its wrong code, or takes the last one's row away.
LEMMA SignupCounted ==
  ASSUME Typed, Begun, Alone, Counted, NEW r \in Requests,
         VerifyFind(r) \/ RemoveRow(r) \/ CreateUser(r) \/ ConsumeFind(r) \/ ConsumeRemove(r)
  PROVE  Counted'
  <1>1. r \in Running /\ quiet' = quiet
    BY DEF VerifyFind, RemoveRow, CreateUser, ConsumeFind, ConsumeRemove, Running, Ended, aux
  <1>2. quiet => /\ Running = {r} /\ Undisturbed(r) /\ CountedAt(r)
                 /\ user # None => wrong < MaxFailed
    BY <1>1, SoloCounted
  <1>3. CASE VerifyFind(r)
    <2> DEFINE step == Verdict(job[r].code)
    <2>1. /\ pc[r] = "verifyFind" /\ UNCHANGED <<row, user>>
          /\ wrong' = IF row # None /\ row.code # job[r].code THEN wrong + 1 ELSE wrong
      BY <1>3 DEF VerifyFind
    <2>2. quiet => user = None /\ Exactly
      BY <1>2, <2>1 DEF Undisturbed, CountedAt
    <2>3. job[r] \in Jobs
      BY <1>3 DEF VerifyFind, Typed, ControlType, Ended
    <2>4. /\ wrong \in Nat
          /\ row # None => row \in Rows /\ row.failed \in Nat /\ row.failed < MaxFailed
      BY VerificationAssumption DEF Typed, DataType, Rows
    <2>5. /\ step \in {"failed", "removeRow", "createUser", "saveSelect"}
          /\ step = "failed" <=> row = None
          /\ step = "createUser" => row.code = job[r].code
          /\ step = "saveSelect" => row # None /\ row.code # job[r].code
      BY <2>4 DEF Verdict, Judge, Typed, DataType, Rows, Time
    <2>6. Goto(r, step, CASE step = "saveSelect" -> [job[r] EXCEPT !.row = [row EXCEPT !.failed = @ + 1]]
                          [] step = "removeRow" -> [job[r] EXCEPT !.row = row]
                          [] OTHER -> job[r])
      BY <1>3 DEF VerifyFind
    <2> HIDE DEF step
    <2>7. pc'[r] = step
      BY <2>6 DEF Goto, Typed, ControlType
    <2>8. CASE step = "saveSelect"
      <3> DEFINE w == [row EXCEPT !.failed = @ + 1]
      <3>1. Goto(r, "saveSelect", [job[r] EXCEPT !.row = w])
        BY <2>6, <2>8
      <3>2. w.failed = row.failed + 1
        BY <2>4, <2>5, <2>8 DEF Rows
      <3> HIDE DEF w
      <3>3. job'[r].row = w
        BY <2>3, <3>1 DEF Goto, Typed, ControlType, Ended, Jobs
      <3>4. quiet => CountedAt(r)'
        BY <2>1, <2>2, <2>4, <2>5, <2>7, <2>8, <3>2, <3>3 DEF CountedAt, Exactly
      <3> QED
        BY <1>1, <1>2, <2>1, <2>2, <2>8, <3>1, <3>4, CountedKept DEF Steps, Ended
    <2>9. CASE step # "saveSelect"
      <3>1. quiet /\ step = "createUser" => CountedAt(r)'
        BY <2>1, <2>2, <2>4, <2>5, <2>7 DEF CountedAt, Exactly
      <3>2. step = "removeRow" => CountedAt(r)'
        BY <2>7 DEF CountedAt
      <3>3. step = "failed" => Exactly'
        BY <2>1, <2>5 DEF Exactly
      <3> QED
        BY <1>1, <1>2, <2>1, <2>2, <2>5, <2>6, <2>9, <3>1, <3>2, <3>3, CountedKept DEF Steps, Ended
    <2> QED
      BY <2>8, <2>9
  <1>4. CASE RemoveRow(r)
    <2>1. Goto(r, "failed", job[r]) /\ UNCHANGED <<user, wrong>>
      BY <1>4 DEF RemoveRow, aux
    <2>2. quiet => row' = None
      BY <1>2, <1>4, NoneAssumption DEF RemoveRow, Present, Undisturbed, Typed, ControlType, RowSteps
    <2>3. quiet => Exactly'
      BY <2>2 DEF Exactly
    <2> QED
      BY <1>1, <1>2, <2>1, <2>3, CountedKept DEF Steps, Ended
  <1>5. CASE CreateUser(r)
    <2>1. Goto(r, IF user = None THEN "consumeFind" ELSE "failed", job[r]) /\ wrong' = wrong
      BY <1>5 DEF CreateUser, aux
    <2>2. quiet => user = None /\ wrong < MaxFailed
      BY <1>2, <1>5 DEF CreateUser, Undisturbed, CountedAt
    <2>3. quiet => pc'[r] = "consumeFind"
      BY <2>1, <2>2 DEF Goto, Typed, ControlType
    <2>4. quiet => CountedAt(r)'
      BY <2>3 DEF CountedAt
    <2> QED
      BY <1>1, <1>2, <2>1, <2>2, <2>4, CountedKept DEF Steps, Ended
  <1>6. CASE ConsumeFind(r)
    <2>1. /\ Goto(r, IF row = None THEN "done" ELSE "consumeRemove", [job[r] EXCEPT !.row = row])
          /\ UNCHANGED <<row, user, wrong>>
      BY <1>6 DEF ConsumeFind, aux
    <2>2. row # None => CountedAt(r)'
      BY <2>1 DEF Goto, Typed, ControlType, CountedAt
    <2>3. row = None => Exactly'
      BY <2>1 DEF Exactly
    <2> QED
      BY <1>1, <1>2, <2>1, <2>2, <2>3, CountedKept DEF Steps, Ended
  <1>7. CASE ConsumeRemove(r)
    <2>1. Goto(r, "done", job[r]) /\ UNCHANGED <<user, wrong>>
      BY <1>7 DEF ConsumeRemove, aux
    <2>2. quiet => row' = None
      BY <1>2, <1>7, NoneAssumption DEF ConsumeRemove, Present, Undisturbed, Typed, ControlType, RowSteps
    <2>3. quiet => Exactly'
      BY <2>2 DEF Exactly
    <2> QED
      BY <1>1, <1>2, <2>1, <2>3, CountedKept DEF Steps, Ended
  <1> QED
    BY <1>3, <1>4, <1>5, <1>6, <1>7

\* Every step keeps the count.
LEMMA NextCounted == Typed /\ Begun /\ Alone /\ Counted /\ [Next]_vars => Counted'
  <1> SUFFICES ASSUME Typed, Begun, Alone, Counted, [Next]_vars PROVE Counted'
    OBVIOUS
  <1>1. CASE UNCHANGED vars \/ Tick
    BY <1>1 DEF vars, aux, Tick, Counted, Running, Exactly, CountedAt
  <1>2. ASSUME NEW r \in Requests, Abort(r) PROVE Counted'
    BY <1>2 DEF Abort, Counted
  <1> QED
    BY <1>1, <1>2, SendCounted, SaveCounted, SignupCounted DEF Next

\* verifyCode: after MAX_FAILED_ATTEMPTS wrong codes, entered one after the other, the code is gone and
\* no account was created, for any limit and whatever had overlapped before the code was sent.
THEOREM GuessesLimited == Spec => []AttemptsLimited
  <1>1. Init => Counted
    BY DEF Init, Counted
  <1>2. Typed /\ Counted => AttemptsLimited
    BY VerificationAssumption DEF Counted, Exactly, AttemptsLimited, Typed, DataType, Rows
  <1> QED
    BY <1>1, <1>2, InitTyped, InitAlone, NextTyped, NextBegun, NextAlone, NextCounted, PTL DEF Spec
=============================================================================
