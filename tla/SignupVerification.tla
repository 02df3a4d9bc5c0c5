------------------------- MODULE SignupVerification -------------------------
(***************************************************************************)
(* Signing up with an emailed code: sendVerificationCode, verifyCode and   *)
(* consume of src/src/auth/signup/signup-verification.service.ts, and the  *)
(* signup that calls the last two.  Email addresses do not interact (one   *)
(* row and one account each), so the model has one.                        *)
(*                                                                         *)
(* repository.save(row) of a row read earlier is two database steps of     *)
(* TypeORM: it selects the row again by primary key and then updates the   *)
(* columns in which the two differ, or inserts the row if it is gone.      *)
(***************************************************************************)
EXTENDS Naturals

CONSTANTS
  Requests,     \* the HTTP requests; each runs once, and a send's code is named after it
  Expiration,   \* VERIFICATION_EXPIRATION_MINUTES
  Cooldown,     \* RESEND_COOLDOWN_SECONDS
  MaxFailed,    \* MAX_FAILED_ATTEMPTS
  MaxTime,      \* bound on the clock
  None

ASSUME VerificationAssumption ==
  /\ Expiration \in Nat \ {0}
  /\ Cooldown \in Nat \ {0}
  /\ MaxFailed \in Nat \ {0}
  /\ MaxTime \in Nat
  /\ None \notin Requests

VARIABLES
  now,
  row,       \* signup_verifications: the row of the address, or None
  user,      \* users: the signup that created the account, or None
  pc,        \* the next step of each request
  job,       \* the local variables of each request
  mailed,    \* auxiliary: of the codes mailed, the one generated last, and when
  issued,    \* auxiliary: the codes ever stored
  wrong,     \* auxiliary: wrong codes entered since the last accepted send
  quiet      \* auxiliary: since the last accepted send, no two requests have overlapped and none broke off

aux    == <<mailed, issued, wrong, quiet>>
vars   == <<now, row, user, pc, job, aux>>

Time    == 0..MaxTime
Codes   == Requests
Columns == {"code", "expiresAt", "lastSentAt", "failed"}
Rows    == [id : Requests, code : Codes, expiresAt : 0..(MaxTime + Expiration), lastSentAt : Time,
            failed : 0..(MaxFailed - 1)]
Accounts == [by : Requests, code : Codes]
Mails    == [code : Codes, at : Time]
Ended   == {"done", "failed", "aborted"}
Steps   == {"idle", "sendFind", "insert", "saveSelect", "saveUpdate", "saveInsert", "mail",
            "verifyFind", "removeRow", "createUser", "consumeFind", "consumeRemove"} \cup Ended

(* code is the code to be sent or the one entered, at the time the send looked at the clock, row the
   entity in memory, columns those save found changed. *)
Jobs  == [op : {"send", "signup"}, code : Codes, at : Time, row : Rows \cup {None},
          columns : SUBSET Columns]
NoJob == [op |-> "none", code |-> None, at |-> 0, row |-> None, columns |-> {}]

ASSUME NoneAssumption == None \notin Rows \cup Accounts \cup Mails

Running == {r \in Requests : pc[r] \notin Ended \cup {"idle"}}

Init ==
  /\ now = 0
  /\ row = None
  /\ user = None
  /\ pc = [r \in Requests |-> "idle"]
  /\ job = [r \in Requests |-> NoJob]
  /\ mailed = None
  /\ issued = {}
  /\ wrong = 0
  /\ quiet = FALSE

Goto(r, step, j) ==
  /\ pc' = [pc EXCEPT ![r] = step]
  /\ job' = [job EXCEPT ![r] = IF step \in Ended THEN NoJob ELSE j]

Tick ==
  /\ now < MaxTime
  /\ now' = now + 1
  /\ UNCHANGED <<row, user, pc, job, aux>>

\* The row the request read is still there (under the primary key it had).
Present(r) == row # None /\ row.id = job[r].row.id
-----------------------------------------------------------------------------
(* sendVerificationCode *)

\* Whether the address has an account; then the request looks at the clock.
BeginSend(r) ==
  /\ pc[r] = "idle"
  /\ Goto(r, IF user = None THEN "sendFind" ELSE "failed",
          [NoJob EXCEPT !.op = "send", !.code = r, !.at = now])
  /\ quiet' = (quiet /\ Running = {})
  /\ UNCHANGED <<now, row, user, mailed, issued, wrong>>

NewRow(r) == [id |-> r, code |-> r, expiresAt |-> job[r].at + Expiration,
              lastSentAt |-> job[r].at, failed |-> 0]

\* Mutant: a resend leaves the failed attempts of the code before.
ResentRowKeepingFailures(r) == [NewRow(r) EXCEPT !.id = row.id, !.failed = row.failed]
ResentRow(r) == [NewRow(r) EXCEPT !.id = row.id]

CoolingDown(r) == row # None /\ row.lastSentAt + Cooldown > job[r].at

\* A send that is not refused, and runs alone and in time, starts the account of what happens to its code.
SendFind(r) ==
  /\ pc[r] = "sendFind"
  /\ IF CoolingDown(r) THEN Goto(r, "failed", job[r])
     ELSE IF row = None THEN Goto(r, "insert", [job[r] EXCEPT !.row = NewRow(r)])
     ELSE Goto(r, "saveSelect", [job[r] EXCEPT !.row = ResentRow(r)])
  /\ IF CoolingDown(r) THEN UNCHANGED <<wrong, quiet>>
     ELSE /\ wrong' = 0
          /\ quiet' = (Running = {r} /\ user = None /\ (mailed = None \/ mailed.at <= job[r].at))
  /\ UNCHANGED <<now, row, user, mailed, issued>>

\* UNIQUE (email)
Insert(r) ==
  /\ pc[r] = "insert"
  /\ row' = IF row = None THEN job[r].row ELSE row
  /\ issued' = IF row = None THEN issued \cup {job[r].row.code} ELSE issued
  /\ Goto(r, IF row = None THEN "mail" ELSE "failed", job[r])
  /\ UNCHANGED <<now, user, mailed, wrong, quiet>>

\* The email is sent after the row is saved.
Mail(r) ==
  /\ pc[r] = "mail"
  /\ mailed' = IF mailed # None /\ mailed.at > job[r].at THEN mailed
               ELSE [code |-> job[r].code, at |-> job[r].at]
  /\ Goto(r, "done", job[r])
  /\ UNCHANGED <<now, row, user, issued, wrong, quiet>>
-----------------------------------------------------------------------------
(* repository.save of the row read before, for both handlers *)

\* A send goes on to the mail; a signup that has counted a failure is answered with an error.
Saved(r) == IF job[r].op = "send" THEN "mail" ELSE "failed"

SaveSelect(r) ==
  /\ pc[r] = "saveSelect"
  /\ IF Present(r)
     THEN LET changed == {c \in Columns : job[r].row[c] # row[c]}
          IN  Goto(r, IF changed = {} THEN Saved(r) ELSE "saveUpdate",
                   [job[r] EXCEPT !.columns = changed])
     ELSE Goto(r, "saveInsert", job[r])
  /\ UNCHANGED <<now, row, user, aux>>

SaveUpdate(r) ==
  /\ pc[r] = "saveUpdate"
  /\ row' = IF Present(r) THEN [c \in DOMAIN row |-> IF c \in job[r].columns THEN job[r].row[c] ELSE row[c]]
            ELSE row
  /\ issued' = IF Present(r) THEN issued \cup {row'.code} ELSE issued
  /\ Goto(r, Saved(r), job[r])
  /\ UNCHANGED <<now, user, mailed, wrong, quiet>>

SaveInsert(r) ==
  /\ pc[r] = "saveInsert"
  /\ row' = IF row = None THEN job[r].row ELSE row
  /\ issued' = IF row = None THEN issued \cup {job[r].row.code} ELSE issued
  /\ Goto(r, IF row = None THEN Saved(r) ELSE "failed", job[r])
  /\ UNCHANGED <<now, user, mailed, wrong, quiet>>
-----------------------------------------------------------------------------
(* signup, with verifyCode and consume *)

BeginSignup(r, c) ==
  /\ pc[r] = "idle"
  /\ Goto(r, IF user = None THEN "verifyFind" ELSE "failed", [NoJob EXCEPT !.op = "signup", !.code = c])
  /\ quiet' = (quiet /\ Running = {})
  /\ UNCHANGED <<now, row, user, mailed, issued, wrong>>

\* Mutant: the attempt after the last one is still counted.
LastAttemptMissed == row.failed + 1 > MaxFailed
LastAttempt == row.failed + 1 >= MaxFailed

\* Expired, right, wrong for the last time, or wrong.
Judge(code) ==
  CASE row.expiresAt < now -> "removeRow"
    [] row.expiresAt >= now /\ row.code = code -> "createUser"
    [] OTHER -> IF LastAttempt THEN "removeRow" ELSE "saveSelect"

\* Mutant: an address without a row is as good as a verified one.
VerdictUnrequested(code) == IF row = None THEN "createUser" ELSE Judge(code)
Verdict(code) == IF row = None THEN "failed" ELSE Judge(code)

\* Mutant: a wrong code is answered with an error, and not counted.
VerifyFindUncounted(r) ==
  LET step == Verdict(job[r].code)
  IN  /\ pc[r] = "verifyFind"
      /\ Goto(r, step, IF step \in {"saveSelect", "removeRow"} THEN [job[r] EXCEPT !.row = row] ELSE job[r])
      /\ wrong' = IF row # None /\ row.code # job[r].code THEN wrong + 1 ELSE wrong
      /\ UNCHANGED <<now, row, user, mailed, issued, quiet>>

VerifyFind(r) ==
  LET step == Verdict(job[r].code)
  IN  /\ pc[r] = "verifyFind"
      /\ Goto(r, step, CASE step = "saveSelect" -> [job[r] EXCEPT !.row = [row EXCEPT !.failed = @ + 1]]
                          [] step = "removeRow" -> [job[r] EXCEPT !.row = row]
                          [] OTHER -> job[r])
      /\ wrong' = IF row # None /\ row.code # job[r].code THEN wrong + 1 ELSE wrong
      /\ UNCHANGED <<now, row, user, mailed, issued, quiet>>

\* remove(row) deletes by primary key; a row that is gone already is no error.
RemoveRow(r) ==
  /\ pc[r] = "removeRow"
  /\ row' = IF Present(r) THEN None ELSE row
  /\ Goto(r, "failed", job[r])
  /\ UNCHANGED <<now, user, aux>>

\* The account is inserted once the password is hashed: UNIQUE (email).
CreateUser(r) ==
  /\ pc[r] = "createUser"
  /\ user' = IF user = None THEN [by |-> r, code |-> job[r].code] ELSE user
  /\ Goto(r, IF user = None THEN "consumeFind" ELSE "failed", job[r])
  /\ UNCHANGED <<now, row, aux>>

\* Mutant: the code stays.
ConsumeFindNothing(r) ==
  /\ pc[r] = "consumeFind"
  /\ Goto(r, "done", job[r])
  /\ UNCHANGED <<now, row, user, aux>>

ConsumeFind(r) ==
  /\ pc[r] = "consumeFind"
  /\ Goto(r, IF row = None THEN "done" ELSE "consumeRemove", [job[r] EXCEPT !.row = row])
  /\ UNCHANGED <<now, row, user, aux>>

ConsumeRemove(r) ==
  /\ pc[r] = "consumeRemove"
  /\ row' = IF Present(r) THEN None ELSE row
  /\ Goto(r, "done", job[r])
  /\ UNCHANGED <<now, user, aux>>

\* A database or mail call that throws, or a crash, ends the request between two steps.
Abort(r) ==
  /\ r \in Running
  /\ Goto(r, "aborted", NoJob)
  /\ quiet' = FALSE
  /\ UNCHANGED <<now, row, user, mailed, issued, wrong>>
-----------------------------------------------------------------------------
Next ==
  \/ Tick
  \/ \E r \in Requests :
       \/ BeginSend(r) \/ SendFind(r) \/ Insert(r) \/ Mail(r)
       \/ SaveSelect(r) \/ SaveUpdate(r) \/ SaveInsert(r)
       \/ \E c \in Codes : BeginSignup(r, c)
       \/ VerifyFind(r) \/ RemoveRow(r) \/ CreateUser(r) \/ ConsumeFind(r) \/ ConsumeRemove(r)
       \/ Abort(r)

Spec == Init /\ [][Next]_vars
-----------------------------------------------------------------------------
(* Properties *)

\* The tables and locals are well-formed; in particular no row, not even one a stale save has
\* written or inserted again, has used up its attempts.
TypeOK ==
  /\ now \in Time
  /\ row \in Rows \cup {None}
  /\ user \in Accounts \cup {None}
  /\ pc \in [Requests -> Steps]
  /\ job \in [Requests -> Jobs \cup {NoJob}]
  /\ mailed \in Mails \cup {None}
  /\ issued \subseteq Codes
  /\ wrong \in Nat
  /\ quiet \in BOOLEAN

\* isEmailVerified: an account is created only with a code that was generated for the address,
\* whatever saves, removals and expiries came in between.
VerifiedAccounts == user # None => user.code \in issued

\* The newest code that was mailed can be used: it is in the table and has not expired, as long as
\* its ten minutes last, it has not been used and fewer than MaxFailed wrong codes were entered.
MailedCodeUsable ==
  user = None /\ mailed # None /\ wrong < MaxFailed /\ now <= mailed.at + Expiration =>
    row # None /\ row.code = mailed.code /\ row.expiresAt >= now

\* A user who requests a code and enters codes one request after the other is never told that
\* the code just mailed is wrong or gone, whatever went on at the address before that.
MailedCodeWorksAlone == quiet /\ Running = {} => MailedCodeUsable

\* MAX_FAILED_ATTEMPTS: a user who enters codes one request after the other has that many guesses at
\* a code, whatever overlapping saves went on at the address before it was sent.  After the last of
\* them the code is gone, and no account has come from it or can.
AttemptsLimited == quiet /\ Running = {} /\ (row # None \/ user # None) => wrong < MaxFailed

\* A signup nobody interfered with leaves no code behind that could be asked for again.
SignupConsumes == quiet /\ Running = {} /\ user # None => row = None

\* email-sender.service.ts:25: the code of a mail can be entered within ten minutes of its
\* generation, even if requests overlapped, as long as each of them ran to its end.
MailedCodeWorks == Running = {} /\ (\A r \in Requests : pc[r] # "aborted") => MailedCodeUsable
=============================================================================
