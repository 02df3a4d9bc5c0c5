------------------------------ MODULE AiAdvice ------------------------------
(***************************************************************************)
(* The three AI endpoints of src/src/chat/chat.service.ts, which share one *)
(* shape: a sliding-window limit on the requests of a user for a group, a  *)
(* read of the recent messages, a look into a cache, and a call to the AI  *)
(* whose answer is cached.  The limit of chat.send in chat.gateway.ts is   *)
(* the same one with other constants.                                      *)
(*                                                                         *)
(* One kind of endpoint and one group are modelled, since the keys of both *)
(* maps name them.  What the AI is asked (roster, recent messages, draft)  *)
(* is one value, the request's input; fingerprint is its JSON text, which  *)
(* tells inputs apart.  Messages are posted all the time, so a read may    *)
(* find any input.  An accepted request is kept with its timestamp, which  *)
(* tells two of the same millisecond apart as their places in the code's   *)
(* array do; the array is filtered, counted and added to, and its order is *)
(* never looked at.                                                        *)
(***************************************************************************)
EXTENDS Integers, FiniteSets

CONSTANTS
  Requests,     \* the HTTP requests; each runs once
  Users,
  Inputs,
  CacheKeys,
  CacheKey,     \* of a user: the user's own for message advice, the group's for the analyses
  Window,       \* windowMs
  MaxRequests,  \* maxRequests
  TTL,          \* how long a cached response is valid
  MaxTime,      \* bound on the clock
  None

ASSUME AdviceAssumption ==
  /\ CacheKey \in [Users -> CacheKeys]
  /\ Window \in Nat \ {0}
  /\ MaxRequests \in Nat \ {0}
  /\ TTL \in Nat \ {0}
  /\ MaxTime \in Nat
  /\ None \notin Users \cup Inputs

VARIABLES
  now,       \* Date.now()
  history,   \* aiRequestHistory: of each user, the accepted requests that still counted at the last one
  cache,     \* the response cache: fingerprint, value and expiry
  pc,        \* the next step of each request
  job,       \* its user and its input
  answer,    \* what it was answered: the input the AI was asked, and when the answer was made
  accepted   \* auxiliary: of each user, all the requests that were ever accepted, and when

vars == <<now, history, cache, pc, job, answer, accepted>>

Time  == 0..MaxTime
Steps == {"idle", "read", "lookup", "ask", "done", "refused", "failed"}
Acceptances == [at : Time, by : Requests]
Answers == [input : Inputs, made : Time]
Entries == [fingerprint : Inputs, value : Answers, expiresAt : 0..(MaxTime + TTL)]

Init ==
  /\ now = 0
  /\ history = [u \in Users |-> {}]
  /\ cache = [k \in CacheKeys |-> None]
  /\ pc = [r \in Requests |-> "idle"]
  /\ job = [r \in Requests |-> [user |-> None, input |-> None]]
  /\ answer = [r \in Requests |-> None]
  /\ accepted = [u \in Users |-> {}]

Goto(r, step) == pc' = [pc EXCEPT ![r] = step]

Tick ==
  /\ now < MaxTime
  /\ now' = now + 1
  /\ UNCHANGED <<history, cache, pc, job, answer, accepted>>
-----------------------------------------------------------------------------
(* enforceAiRateLimit *)

\* Mutants: a timestamp is kept one moment too long; one request too many is let through.
RecentOfLongerWindow(u) == {a \in history[u] : now - a.at <= Window}
Recent(u) == {a \in history[u] : now - a.at < Window}

FullTooLate(u) == Cardinality(Recent(u)) > MaxRequests
Full(u) == Cardinality(Recent(u)) >= MaxRequests

Accept(r, u) ==
  /\ pc[r] = "idle"
  /\ ~Full(u)
  /\ history' = [history EXCEPT ![u] = Recent(u) \cup {[at |-> now, by |-> r]}]
  /\ accepted' = [accepted EXCEPT ![u] = @ \cup {[at |-> now, by |-> r]}]
  /\ job' = [job EXCEPT ![r].user = u]
  /\ Goto(r, "read")
  /\ UNCHANGED <<now, cache, answer>>

Refuse(r, u) ==
  /\ pc[r] = "idle"
  /\ Full(u)
  /\ job' = [job EXCEPT ![r].user = u]
  /\ Goto(r, "refused")
  /\ UNCHANGED <<now, history, cache, answer, accepted>>
-----------------------------------------------------------------------------
(* getMessageAdvice, getInterventionAdvice, getContributionAnalysis *)

\* The roster or participant and the recent messages, from which the fingerprint is built.
Read(r, i) ==
  /\ pc[r] = "read"
  /\ job' = [job EXCEPT ![r].input = i]
  /\ Goto(r, "lookup")
  /\ UNCHANGED <<now, history, cache, answer, accepted>>

\* Mutant: an entry is good for its key, whatever it was made from.
HitWhateverInput(r) ==
  LET entry == cache[CacheKey[job[r].user]]
  IN  entry # None /\ entry.expiresAt > now
\* getCachedResponse finds an entry that is neither expired nor made from another input.
Hit(r) ==
  LET entry == cache[CacheKey[job[r].user]]
  IN  entry # None /\ entry.expiresAt > now /\ entry.fingerprint = job[r].input

AnswerFromCache(r) ==
  /\ pc[r] = "lookup"
  /\ Hit(r)
  /\ answer' = [answer EXCEPT ![r] = cache[CacheKey[job[r].user]].value]
  /\ Goto(r, "done")
  /\ UNCHANGED <<now, history, cache, job, accepted>>

\* An expired entry is deleted; one of another input is left until it is replaced.
Miss(r) ==
  LET k == CacheKey[job[r].user]
  IN  /\ pc[r] = "lookup"
      /\ ~Hit(r)
      /\ cache' = IF cache[k] # None /\ cache[k].expiresAt <= now
                  THEN [cache EXCEPT ![k] = None] ELSE cache
      /\ Goto(r, "ask")
      /\ UNCHANGED <<now, history, job, answer, accepted>>

\* Mutant: setCachedResponse forgets the expiry.
AnswerFromAiForGood(r) ==
  LET made == [input |-> job[r].input, made |-> now]
  IN  /\ pc[r] = "ask"
      /\ cache' = [cache EXCEPT ![CacheKey[job[r].user]] =
                     [fingerprint |-> job[r].input, value |-> made, expiresAt |-> None]]
      /\ answer' = [answer EXCEPT ![r] = made]
      /\ Goto(r, "done")
      /\ UNCHANGED <<now, history, job, accepted>>

\* The AI has answered; setCachedResponse replaces whatever the key holds by then.
AnswerFromAi(r) ==
  LET made == [input |-> job[r].input, made |-> now]
  IN  /\ pc[r] = "ask"
      /\ cache' = [cache EXCEPT ![CacheKey[job[r].user]] =
                     [fingerprint |-> job[r].input, value |-> made, expiresAt |-> now + TTL]]
      /\ answer' = [answer EXCEPT ![r] = made]
      /\ Goto(r, "done")
      /\ UNCHANGED <<now, history, job, accepted>>

\* The caller may not see the group, or a query fails; the request still counts.  The call to the AI
\* does not fail: openai.service.ts has an answer for when it does, which is cached like any other.
Fail(r) ==
  /\ pc[r] = "read"
  /\ Goto(r, "failed")
  /\ UNCHANGED <<now, history, cache, job, answer, accepted>>
-----------------------------------------------------------------------------
Next ==
  \/ Tick
  \/ \E r \in Requests :
       \/ \E u \in Users : Accept(r, u) \/ Refuse(r, u)
       \/ \E i \in Inputs : Read(r, i)
       \/ AnswerFromCache(r) \/ Miss(r) \/ AnswerFromAi(r) \/ Fail(r)

Spec == Init /\ [][Next]_vars
-----------------------------------------------------------------------------
(* Properties *)

\* The maps hold well-formed entries.
TypeOK ==
  /\ now \in Time
  /\ history \in [Users -> SUBSET Acceptances]
  /\ cache \in [CacheKeys -> Entries \cup {None}]
  /\ pc \in [Requests -> Steps]
  /\ job \in [Requests -> [user : Users \cup {None}, input : Inputs \cup {None}]]
  /\ answer \in [Requests -> Answers \cup {None}]
  /\ accepted \in [Users -> SUBSET Acceptances]
  /\ \A r \in Requests : pc[r] # "idle" => job[r].user \in Users
  /\ \A r \in Requests : pc[r] \in {"lookup", "ask"} => job[r].input \in Inputs

\* The requests of u that were accepted in the stretch of time as long as the window that begins at s.
AcceptedFrom(u, s) == {a \in accepted[u] : s <= a.at /\ a.at < s + Window}

\* In no stretch of time as long as the window, wherever it begins, does a user get more than
\* MaxRequests through: the timestamps enforceAiRateLimit throws away never mattered.
WindowNeverExceeded ==
  \A u \in Users, s \in Time : Cardinality(AcceptedFrom(u, s)) <= MaxRequests

\* What the limit has said of each request, by how far the request has come.
Verdict ==
  [r \in Requests |-> CASE pc[r] = "idle" -> "none"
                       [] pc[r] = "refused" -> "refused"
                       [] OTHER -> "accepted"]

Limiter == INSTANCE RateLimiter WITH verdict <- Verdict

\* enforceAiRateLimit decides as a limiter that forgets nothing: a request is accepted exactly if fewer
\* than MaxRequests of its user were accepted in the window that ends now, so nobody is refused below
\* the limit, and what the endpoint does after the decision is not seen by the limit.
ImplementsLimiter == Limiter!LimiterSpec

\* Whoever shares a cache key, and however answers overtake each other on their way into the
\* cache, a request is answered for the input it has read itself.
AnswersOwnInput ==
  \A r \in Requests : pc[r] = "done" => answer[r].input = job[r].input
=============================================================================
