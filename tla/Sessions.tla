------------------------------- MODULE Sessions -------------------------------
(***************************************************************************)
(* login, refresh and logout over the one row that refresh_tokens has for  *)
(* a user (auth/login, auth/login/refresh-token, auth/logout).  Users do   *)
(* not interact, so the model has one.                                     *)
(***************************************************************************)
EXTENDS Naturals

CONSTANTS
  Requests,   \* the HTTP requests; each runs once, and the jti it signs and the salt it hashes with are named after it
  User,       \* the user's id, the sub of every token
  Lifetime,   \* JWT_REFRESH_TOKEN_EXPIRES_IN
  MaxTime,    \* bound on the clock
  None

VARIABLES
  now,
  row,      \* refresh_tokens: the user's row, or None
  exp,      \* when the refresh token that each request signed expires, or None
  given,    \* the refresh tokens the client has received
  pc,       \* the next step of each request
  job,      \* the local variables of each request
  newest,   \* auxiliary: the token received last, unless the user has logged out since
  quiet,    \* auxiliary: no request has overlapped or broken off since that one began to store its token
  over      \* auxiliary: whether the last logout came after all logins, and after all refreshes too

aux  == <<newest, quiet, over>>
vars == <<now, row, exp, given, pc, job, aux>>

Time    == 0..MaxTime
Expiry  == 0..(MaxTime + Lifetime)
Hashes  == [salt : Requests, bytes : {User}]
Rows    == [id : Requests, hash : Hashes, expiresAt : Expiry]
Columns == {"hash", "expiresAt"}

ASSUME SessionAssumption ==
  /\ Lifetime \in Nat \ {0}
  /\ MaxTime \in Nat
  /\ None \notin Requests \cup Rows

Ended   == {"done", "failed", "aborted"}
Storing == {"sign", "find", "insert", "saveSelect", "saveUpdate", "saveInsert"}
Steps   == {"idle", "validate", "removeExpired", "remove", "answer"} \cup Storing \cup Ended

(* token is the refresh token in the request, row the entity in memory, columns those save found changed. *)
Jobs  == [op : {"login", "refresh", "logout"}, token : Requests \cup {None}, row : Rows \cup {None},
          columns : SUBSET Columns]
NoJob == [op |-> "none", token |-> None, row |-> None, columns |-> {}]

Running  == {r \in Requests : pc[r] \notin Ended \cup {"idle"}}
OthersIdle(r) == Running \subseteq {r}

Init ==
  /\ now = 0
  /\ row = None
  /\ exp = [r \in Requests |-> None]
  /\ given = {}
  /\ pc = [r \in Requests |-> "idle"]
  /\ job = [r \in Requests |-> NoJob]
  /\ newest = None
  /\ quiet = FALSE
  /\ over = "closed"

Goto(r, step, j) ==
  /\ pc' = [pc EXCEPT ![r] = step]
  /\ job' = [job EXCEPT ![r] = IF step \in Ended THEN NoJob ELSE j]

Tick ==
  /\ now < MaxTime
  /\ now' = now + 1
  /\ UNCHANGED <<row, exp, given, pc, job, aux>>

\* The row the request read is still there (under the primary key it had).
Present(r) == row # None /\ row.id = job[r].row.id
-----------------------------------------------------------------------------
(* Tokens and hashes *)

(* bcrypt reads 72 bytes.  Those of a refresh token are the header of the JWT, which is always the
   same, and the beginning of the payload, which is the first half of sub; jti and exp come later. *)
Bytes(token)         == User
Hash(token)          == [salt |-> token, bytes |-> Bytes(token)]
Compare(token, hash) == Bytes(token) = hash.bytes

Verified(token) == now < exp[token]

\* Mutant: the lifetime is added to exp, which has it already.
LaterExpiresAt(token) == exp[token] + Lifetime
ExpiresAt(token) == exp[token]

\* createRefreshToken, and what the auxiliary variables make of it.
Sign(r) ==
  /\ exp' = [exp EXCEPT ![r] = now + Lifetime]
  /\ quiet' = OthersIdle(r)
-----------------------------------------------------------------------------
(* The handlers *)

\* Accepted or not, the user and the password are as they were, so that login is one step up to its
\* second query.
Login(r) ==
  /\ pc[r] = "idle"
  /\ \/ Goto(r, "failed", NoJob) /\ UNCHANGED <<exp, aux>>
     \/ /\ Sign(r)
        /\ over' = "open"
        /\ Goto(r, "find", [NoJob EXCEPT !.op = "login"])
        /\ UNCHANGED newest
  /\ UNCHANGED <<now, row, given>>

\* refresh and logout begin alike: the token must be one of ours that has not expired.
Begin(r, op, token) ==
  /\ pc[r] = "idle"
  /\ Goto(r, IF Verified(token) THEN "validate" ELSE "failed", [NoJob EXCEPT !.op = op, !.token = token])
  /\ quiet' = (quiet /\ OthersIdle(r))
  /\ UNCHANGED <<now, row, exp, given, newest, over>>

\* Mutant: validate takes a user without a row for one whose row matches.
JudgeAnyRow(r) ==
  IF row # None /\ row.expiresAt <= now THEN "removeExpired"
  ELSE IF job[r].op = "refresh" THEN "sign" ELSE "remove"
Judge(r) ==
  IF row = None THEN "failed"
  ELSE IF row.expiresAt <= now THEN "removeExpired"
  ELSE IF ~ Compare(job[r].token, row.hash) THEN "failed"
  ELSE IF job[r].op = "refresh" THEN "sign" ELSE "remove"

Validate(r) ==
  /\ pc[r] = "validate"
  /\ Goto(r, Judge(r), job[r])
  /\ UNCHANGED <<now, row, exp, given, aux>>

\* By user id: whatever row is there by now is deleted.
RemoveExpired(r) ==
  /\ pc[r] = "removeExpired"
  /\ row' = None
  /\ Goto(r, "failed", NoJob)
  /\ UNCHANGED <<now, exp, given, aux>>

SignAgain(r) ==
  /\ pc[r] = "sign"
  /\ Sign(r)
  /\ Goto(r, "find", job[r])
  /\ UNCHANGED <<now, row, given, newest, over>>

\* Who may still store a token when a logout removes the row.
After(r) ==
  IF \E q \in Running \ {r} : job[q].op = "login" THEN "open"
  ELSE IF \E q \in Running \ {r} : pc[q] \in Storing THEN "racing"
  ELSE "closed"

\* By user id.
Remove(r) ==
  /\ pc[r] = "remove"
  /\ row' = None
  /\ newest' = None
  /\ over' = After(r)
  /\ Goto(r, "done", NoJob)
  /\ UNCHANGED <<now, exp, given, quiet>>

Answer(r) ==
  /\ pc[r] = "answer"
  /\ given' = given \cup {r}
  /\ newest' = r
  /\ Goto(r, "done", NoJob)
  /\ UNCHANGED <<now, row, exp, quiet, over>>
-----------------------------------------------------------------------------
(* RefreshTokenService.save *)

NewRow(r) == [id |-> r, hash |-> Hash(r), expiresAt |-> ExpiresAt(r)]

\* Mutant: the row keeps the expiry of the token it had.
RenewedHashOnly(r) == [row EXCEPT !.hash = Hash(r)]
Renewed(r) == [row EXCEPT !.hash = Hash(r), !.expiresAt = ExpiresAt(r)]

Find(r) ==
  /\ pc[r] = "find"
  /\ IF row = None THEN Goto(r, "insert", [job[r] EXCEPT !.row = NewRow(r)])
     ELSE Goto(r, "saveSelect", [job[r] EXCEPT !.row = Renewed(r)])
  /\ UNCHANGED <<now, row, exp, given, aux>>

\* UNIQUE (userId).  A row that save found gone is inserted with the key it had.
Insert(r) ==
  /\ pc[r] \in {"insert", "saveInsert"}
  /\ row' = IF row = None THEN job[r].row ELSE row
  /\ Goto(r, IF row = None THEN "answer" ELSE "failed", job[r])
  /\ UNCHANGED <<now, exp, given, aux>>

SaveSelect(r) ==
  /\ pc[r] = "saveSelect"
  /\ IF Present(r)
     THEN Goto(r, "saveUpdate", [job[r] EXCEPT !.columns = {c \in Columns : job[r].row[c] # row[c]}])
     ELSE Goto(r, "saveInsert", job[r])
  /\ UNCHANGED <<now, row, exp, given, aux>>

\* Updating a row that is gone changes nothing, and is no error.
SaveUpdate(r) ==
  /\ pc[r] = "saveUpdate"
  /\ row' = IF Present(r) THEN [c \in DOMAIN row |-> IF c \in job[r].columns THEN job[r].row[c] ELSE row[c]]
            ELSE row
  /\ Goto(r, "answer", job[r])
  /\ UNCHANGED <<now, exp, given, aux>>

\* A database call that throws, or a crash, ends the request between two steps.
Abort(r) ==
  /\ r \in Running
  /\ Goto(r, "aborted", NoJob)
  /\ quiet' = FALSE
  /\ UNCHANGED <<now, row, exp, given, newest, over>>
-----------------------------------------------------------------------------
Next ==
  \/ Tick
  \/ \E r \in Requests :
       \/ Login(r)
       \/ \E op \in {"refresh", "logout"}, token \in given : Begin(r, op, token)
       \/ Validate(r) \/ RemoveExpired(r) \/ SignAgain(r) \/ Remove(r) \/ Answer(r)
       \/ Find(r) \/ Insert(r) \/ SaveSelect(r) \/ SaveUpdate(r)
       \/ Abort(r)

Spec == Init /\ [][Next]_vars
-----------------------------------------------------------------------------
(* Properties *)

\* The row and the requests are well-formed, and no row outlives the tokens.
TypeOK ==
  /\ now \in Time
  /\ row \in Rows \cup {None}
  /\ exp \in [Requests -> Expiry \cup {None}]
  /\ given \subseteq Requests
  /\ pc \in [Requests -> Steps]
  /\ job \in [Requests -> Jobs \cup {NoJob}]
  /\ newest \in given \cup {None}
  /\ quiet \in BOOLEAN
  /\ over \in {"open", "racing", "closed"}

\* logout: once a logout has removed the row, and no login or refresh was about to store a token at
\* that moment, no request brings the session back until the user logs in: not one that was
\* under way, not one that uses an older token, not a save of a row that is gone.
LogoutFinal == over = "closed" => row = None

\* validate would accept the token now.
Accepts(token) == row # None /\ now < row.expiresAt /\ Compare(token, row.hash)

\* A client that gets a refresh token, and makes one request after the other, can use it until it
\* expires, whatever overlapped before: the row neither expires early nor is missing.
NewestWorksAlone ==
  quiet /\ Running = {} /\ newest # None /\ Verified(newest) => Accepts(newest)
=============================================================================
