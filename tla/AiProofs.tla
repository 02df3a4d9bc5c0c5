--------------------------- MODULE AiProofs ---------------------------
(***************************************************************************)
(* Machine-checked proofs about the AI endpoints, for any number of        *)
(* requests, users, inputs and keys, any window, limit and clock: the      *)
(* shared cache never mixes up answers, the sliding window is never        *)
(* exceeded, and enforceAiRateLimit implements the limiter that forgets    *)
(* nothing; and about what is answered to the client (AiAnswers), for any  *)
(* roster and replies of any length.                                       *)
(***************************************************************************)
EXTENDS AiAdvice, AiAnswers, FiniteSetTheorems, WellFoundedInduction, TLAPS

\* The part of the type invariant that the cache and the requests need.
RequestsType ==
  /\ pc \in [Requests -> Steps]
  /\ job \in [Requests -> [user : Users \cup {None}, input : Inputs \cup {None}]]
  /\ answer \in [Requests -> Answers \cup {None}]
  /\ now \in Time
  /\ \A r \in Requests : pc[r] # "idle" => job[r].user \in Users
  /\ \A r \in Requests : pc[r] \in {"lookup", "ask"} => job[r].input \in Inputs

CacheType == cache \in [CacheKeys -> Entries \cup {None}]

\* The strengthening that makes AnswersOwnInput inductive: an entry was made from what its
\* fingerprint says.
CacheSound == \A k \in CacheKeys : cache[k] # None => cache[k].value.input = cache[k].fingerprint

LimitType ==
  /\ history \in [Users -> SUBSET Acceptances]
  /\ accepted \in [Users -> SUBSET Acceptances]

\* What makes WindowNeverExceeded inductive: the timestamps that are kept are of accepted requests,
\* and every accepted request that still counts is among them.
HistoryKeepsWindow ==
  \A u \in Users :
    /\ IsFiniteSet(accepted[u])
    /\ history[u] \subseteq accepted[u]
    /\ \A a \in accepted[u] : a.at <= now /\ (now - a.at < Window => a \in history[u])

LimitInv == LimitType /\ HistoryKeepsWindow /\ WindowNeverExceeded

CacheInv == RequestsType /\ CacheType /\ CacheSound /\ AnswersOwnInput

Inv == CacheInv /\ LimitInv

\* The initial state has a sound cache.
LEMMA InitCache == Init => CacheInv
  BY AdviceAssumption DEF Init, CacheInv, RequestsType, CacheType, CacheSound, AnswersOwnInput, Steps, Time

\* An acceptance or a refusal gives the request its user.
LEMMA BeginCache ==
  ASSUME CacheInv, NEW r \in Requests, NEW u \in Users, Accept(r, u) \/ Refuse(r, u)
  PROVE  CacheInv'
  <1>1. cache' = cache /\ answer' = answer /\ now' = now /\ job' = [job EXCEPT ![r].user = u]
    BY DEF Accept, Refuse
  <1>2. pc[r] = "idle" /\ \E s \in {"read", "refused"} : pc' = [pc EXCEPT ![r] = s]
    BY DEF Accept, Refuse, Goto
  <1>3. RequestsType'
    BY <1>1, <1>2 DEF CacheInv, RequestsType, Steps
  <1> QED
    BY <1>1, <1>2, <1>3 DEF CacheInv, RequestsType, CacheType, CacheSound, AnswersOwnInput

\* The read fixes the request's input before it can be answered.
LEMMA ReadCache ==
  ASSUME CacheInv, NEW r \in Requests, NEW i \in Inputs, Read(r, i)
  PROVE  CacheInv'
  <1>1. RequestsType'
    BY DEF CacheInv, RequestsType, Read, Goto, Steps
  <1> QED
    BY <1>1 DEF CacheInv, RequestsType, CacheType, CacheSound, AnswersOwnInput, Read, Goto

\* A hit has the request's fingerprint, so by CacheSound the value was made from its input.
LEMMA HitCache ==
  ASSUME CacheInv, NEW r \in Requests, AnswerFromCache(r)
  PROVE  CacheInv'
  <1> DEFINE entry == cache[CacheKey[job[r].user]]
  <1>1. pc[r] = "lookup" /\ job[r].user \in Users
    BY DEF AnswerFromCache, CacheInv, RequestsType
  <1>2. CacheKey[job[r].user] \in CacheKeys
    BY <1>1, AdviceAssumption
  <1>3. entry # None /\ entry.fingerprint = job[r].input
    BY DEF AnswerFromCache, Hit
  <1>4. entry \in Entries /\ entry.value \in Answers /\ entry.value.input = job[r].input
    BY <1>2, <1>3 DEF CacheInv, CacheType, CacheSound, Entries
  <1>5. /\ answer' = [answer EXCEPT ![r] = entry.value] /\ pc' = [pc EXCEPT ![r] = "done"]
        /\ UNCHANGED <<cache, job, now>>
    BY DEF AnswerFromCache, Goto
  <1>6. RequestsType'
    BY <1>1, <1>4, <1>5 DEF CacheInv, RequestsType, Steps
  <1>7. AnswersOwnInput'
    BY <1>4, <1>5 DEF CacheInv, RequestsType, AnswersOwnInput
  <1> QED
    BY <1>5, <1>6, <1>7 DEF CacheInv, CacheType, CacheSound

\* A miss deletes an entry or none.
LEMMA MissCache ==
  ASSUME CacheInv, NEW r \in Requests, Miss(r)
  PROVE  CacheInv'
  <1>1. RequestsType' /\ AnswersOwnInput'
    BY DEF CacheInv, RequestsType, AnswersOwnInput, Miss, Goto, Steps
  <1>2. CacheType' /\ CacheSound'
    BY DEF CacheInv, CacheType, CacheSound, Miss
  <1> QED
    BY <1>1, <1>2 DEF CacheInv

\* The answer and the entry are made from the same input.
LEMMA AskCache ==
  ASSUME CacheInv, NEW r \in Requests, AnswerFromAi(r)
  PROVE  CacheInv'
  <1> DEFINE key  == CacheKey[job[r].user]
  <1> DEFINE made == [input |-> job[r].input, made |-> now]
  <1> DEFINE entry == [fingerprint |-> job[r].input, value |-> made, expiresAt |-> now + TTL]
  <1>1. pc[r] = "ask" /\ job[r].user \in Users /\ job[r].input \in Inputs
    BY DEF AnswerFromAi, CacheInv, RequestsType
  <1>2. key \in CacheKeys
    BY <1>1, AdviceAssumption
  <1>3. now \in Time /\ now + TTL \in 0..(MaxTime + TTL)
    BY AdviceAssumption DEF CacheInv, RequestsType, Time
  <1>4. made \in Answers /\ entry \in Entries
    BY <1>1, <1>3, AdviceAssumption DEF Answers, Entries, CacheInv, CacheType
  <1>5. /\ cache' = [cache EXCEPT ![key] = entry] /\ answer' = [answer EXCEPT ![r] = made]
        /\ pc' = [pc EXCEPT ![r] = "done"] /\ UNCHANGED <<job, now>>
    BY DEF AnswerFromAi, Goto
  <1>6. RequestsType' /\ AnswersOwnInput'
    BY <1>1, <1>4, <1>5 DEF CacheInv, RequestsType, AnswersOwnInput, Steps
  <1>7. CacheType' /\ CacheSound'
    BY <1>2, <1>4, <1>5 DEF CacheInv, CacheType, CacheSound
  <1> QED
    BY <1>6, <1>7 DEF CacheInv

\* Every step keeps the cache sound.
LEMMA NextCache == CacheInv /\ [Next]_vars => CacheInv'
  <1> SUFFICES ASSUME CacheInv, [Next]_vars PROVE CacheInv'
    OBVIOUS
  <1>1. CASE Tick
    BY <1>1, AdviceAssumption DEF CacheInv, RequestsType, CacheType, CacheSound, AnswersOwnInput, Tick, Time
  <1>2. ASSUME NEW r \in Requests, NEW u \in Users, Accept(r, u) \/ Refuse(r, u) PROVE CacheInv'
    BY <1>2, BeginCache
  <1>3. ASSUME NEW r \in Requests, NEW i \in Inputs, Read(r, i) PROVE CacheInv'
    BY <1>3, ReadCache
  <1>4. ASSUME NEW r \in Requests, AnswerFromCache(r) PROVE CacheInv'
    BY <1>4, HitCache
  <1>5. ASSUME NEW r \in Requests, Miss(r) PROVE CacheInv'
    BY <1>5, MissCache
  <1>6. ASSUME NEW r \in Requests, AnswerFromAi(r) PROVE CacheInv'
    BY <1>6, AskCache
  <1>7. ASSUME NEW r \in Requests, Fail(r) PROVE CacheInv'
    BY <1>7 DEF CacheInv, RequestsType, CacheType, CacheSound, AnswersOwnInput, Fail, Goto, Steps
  <1>8. CASE UNCHANGED vars
    BY <1>8 DEF CacheInv, RequestsType, CacheType, CacheSound, AnswersOwnInput, vars
  <1> QED
    BY <1>1, <1>2, <1>3, <1>4, <1>5, <1>6, <1>7, <1>8 DEF Next

-----------------------------------------------------------------------------
(* The limit *)

\* Initially nothing was accepted.
LEMMA InitLimit == Init => LimitInv
  <1> SUFFICES ASSUME Init PROVE LimitInv
    OBVIOUS
  <1>1. LimitType
    BY DEF Init, LimitType
  <1>2. HistoryKeepsWindow
    BY FS_EmptySet DEF Init, HistoryKeepsWindow
  <1>3. \A u \in Users, s \in Time : AcceptedFrom(u, s) = {}
    BY DEF Init, AcceptedFrom
  <1> QED
    BY <1>1, <1>2, <1>3, FS_EmptySet, AdviceAssumption DEF LimitInv, WindowNeverExceeded

\* What enforceAiRateLimit counts is all that was accepted in the window that ends now.
LEMMA RecentIsWindow ==
  ASSUME LimitType, HistoryKeepsWindow, now \in Time, NEW u \in Users
  PROVE  Recent(u) = Limiter!InWindow(u)
  <1>1. \A a \in Acceptances : a.at \in Int
    BY DEF Acceptances, Time
  <1>2. now \in Int /\ Window \in Int
    BY AdviceAssumption DEF Time
  <1>3. history[u] \subseteq accepted[u] /\ accepted[u] \subseteq Acceptances
    BY DEF LimitType, HistoryKeepsWindow
  <1>4. \A a \in accepted[u] : a.at <= now /\ (now - a.at < Window => a \in history[u])
    BY DEF HistoryKeepsWindow
  <1>5. \A a \in Acceptances : now - a.at < Window <=> now - Window < a.at
    BY <1>1, <1>2
  <1> QED
    BY <1>3, <1>4, <1>5 DEF Recent, Limiter!InWindow

\* The acceptances among which the window is counted are finitely many.
LEMMA FinitelyMany ==
  ASSUME LimitType, HistoryKeepsWindow, NEW u \in Users, NEW s \in Time
  PROVE  /\ IsFiniteSet(AcceptedFrom(u, s)) /\ Cardinality(AcceptedFrom(u, s)) \in Nat
         /\ IsFiniteSet(Recent(u)) /\ Cardinality(Recent(u)) \in Nat
  <1>1. AcceptedFrom(u, s) \in SUBSET accepted[u] /\ Recent(u) \in SUBSET accepted[u]
    BY DEF AcceptedFrom, Recent, HistoryKeepsWindow
  <1>2. IsFiniteSet(accepted[u])
    BY DEF HistoryKeepsWindow
  <1> QED
    BY <1>1, <1>2, FS_Subset, FS_CardinalityType

\* An acceptance adds one request to a window that had room: whatever else the stretch holds still
\* counts, since it began less than a window ago.
LEMMA AcceptLimit ==
  ASSUME LimitInv, now \in Time, NEW r \in Requests, NEW u \in Users, Accept(r, u)
  PROVE  LimitInv'
  <1> DEFINE new == [at |-> now, by |-> r]
  <1>1. /\ now' = now /\ history' = [history EXCEPT ![u] = Recent(u) \cup {new}]
        /\ accepted' = [accepted EXCEPT ![u] = accepted[u] \cup {new}]
        /\ Cardinality(Recent(u)) < MaxRequests
    <2>1. Cardinality(Recent(u)) \in Nat /\ MaxRequests \in Nat
      BY FinitelyMany, AdviceAssumption DEF LimitInv
    <2> QED
      BY <2>1 DEF Accept, Full
  <1>2. new \in Acceptances /\ new.at = now
    BY DEF Acceptances
  <1>3. Recent(u) \subseteq history[u] /\ \A a \in history[u] : now - a.at < Window => a \in Recent(u)
    BY DEF Recent
  <1>4. LimitType'
    <2>1. Recent(u) \cup {new} \in SUBSET Acceptances /\ accepted[u] \cup {new} \in SUBSET Acceptances
      BY <1>2, <1>3 DEF LimitInv, LimitType
    <2> QED
      BY <1>1, <2>1 DEF LimitInv, LimitType
  <1>5. HistoryKeepsWindow'
    <2> SUFFICES ASSUME NEW v \in Users
                 PROVE  /\ IsFiniteSet(accepted'[v])
                        /\ history'[v] \subseteq accepted'[v]
                        /\ \A a \in accepted'[v] : a.at <= now /\ (now - a.at < Window => a \in history'[v])
      BY <1>1 DEF HistoryKeepsWindow
    <2>1. CASE v # u
      BY <2>1, <1>1 DEF LimitInv, LimitType, HistoryKeepsWindow
    <2>2. CASE v = u
      <3>1. history'[v] = Recent(u) \cup {new} /\ accepted'[v] = accepted[u] \cup {new}
        BY <2>2, <1>1 DEF LimitInv, LimitType
      <3>2. IsFiniteSet(accepted[u] \cup {new})
        BY FS_AddElement DEF LimitInv, HistoryKeepsWindow
      <3>3. new.at <= now
        BY <1>2 DEF Time
      <3> QED
        BY <3>1, <3>2, <3>3, <1>3 DEF LimitInv, HistoryKeepsWindow
    <2> QED
      BY <2>1, <2>2
  <1>6. WindowNeverExceeded'
    <2> SUFFICES ASSUME NEW v \in Users, NEW s \in Time
                 PROVE  Cardinality(AcceptedFrom(v, s)') <= MaxRequests
      BY DEF WindowNeverExceeded
    <2> DEFINE old == AcceptedFrom(v, s)
    <2>1. Cardinality(old) <= MaxRequests
      BY DEF LimitInv, WindowNeverExceeded
    <2>2. CASE v # u \/ ~(now < s + Window) \/ ~(s <= now)
      <3>1. AcceptedFrom(v, s)' = old
        BY <2>2, <1>1, <1>2 DEF AcceptedFrom, LimitInv, LimitType
      <3> QED
        BY <3>1, <2>1
    <2>3. CASE v = u /\ now < s + Window /\ s <= now
      <3>1. AcceptedFrom(v, s)' \subseteq old \cup {new}
        BY <2>3, <1>1 DEF AcceptedFrom, LimitInv, LimitType
      <3>2. old \subseteq Recent(u)
        <4> SUFFICES ASSUME NEW a \in old PROVE a \in Recent(u)
          OBVIOUS
        <4>1. a \in accepted[u] /\ s <= a.at /\ a.at \in Int
          BY <2>3 DEF AcceptedFrom, LimitInv, LimitType, Acceptances, Time
        <4>2. now - a.at < Window
          BY <4>1, <2>3, AdviceAssumption DEF Time
        <4> QED
          BY <4>1, <4>2, <1>3 DEF LimitInv, HistoryKeepsWindow
      <3>3. /\ IsFiniteSet(Recent(u) \cup {new}) /\ IsFiniteSet(Recent(u))
            /\ Cardinality(Recent(u) \cup {new}) <= Cardinality(Recent(u)) + 1
        <4>1. IsFiniteSet(Recent(u)) /\ Cardinality(Recent(u)) \in Nat
          BY FinitelyMany DEF LimitInv
        <4>2. /\ IsFiniteSet(Recent(u) \cup {new})
              /\ Cardinality(Recent(u) \cup {new}) =
                   IF new \in Recent(u) THEN Cardinality(Recent(u)) ELSE Cardinality(Recent(u)) + 1
          BY ONLY <4>1, FS_AddElement
        <4> HIDE DEF new
        <4> QED
          BY ONLY <4>1, <4>2
      <3>4. AcceptedFrom(v, s)' \in SUBSET (Recent(u) \cup {new})
        BY <3>1, <3>2
      <3>5. /\ IsFiniteSet(AcceptedFrom(v, s)')
            /\ Cardinality(AcceptedFrom(v, s)') <= Cardinality(Recent(u) \cup {new})
        BY <3>3, <3>4, FS_Subset
      <3>6. /\ Cardinality(AcceptedFrom(v, s)') \in Nat /\ Cardinality(Recent(u)) \in Nat
            /\ Cardinality(Recent(u) \cup {new}) \in Nat
        BY <3>3, <3>5, FS_CardinalityType
      <3> QED
        BY <3>3, <3>5, <3>6, <1>1, AdviceAssumption
    <2> QED
      BY <2>2, <2>3
  <1> QED
    BY <1>4, <1>5, <1>6 DEF LimitInv

\* Time only takes requests out of the window.
LEMMA TickLimit ==
  ASSUME LimitInv, now \in Time, Tick
  PROVE  LimitInv'
  <1>1. now' = now + 1 /\ history' = history /\ accepted' = accepted
    BY DEF Tick
  <1>2. LimitType' /\ WindowNeverExceeded'
    BY <1>1 DEF LimitInv, LimitType, WindowNeverExceeded, AcceptedFrom
  <1>3. \A u \in Users : \A a \in accepted[u] : a.at \in Int
    BY DEF LimitInv, LimitType, Acceptances, Time
  <1>4. now \in Int /\ Window \in Int
    BY AdviceAssumption DEF Time
  <1>5. HistoryKeepsWindow'
    BY <1>1, <1>3, <1>4 DEF LimitInv, HistoryKeepsWindow
  <1> QED
    BY <1>2, <1>5 DEF LimitInv

\* What follows the decision does not touch the timestamps.
LEMMA OthersLimit ==
  ASSUME LimitInv, UNCHANGED <<now, history, accepted>>
  PROVE  LimitInv'
  BY DEF LimitInv, LimitType, HistoryKeepsWindow, WindowNeverExceeded, AcceptedFrom

\* Every step keeps the limit.
LEMMA NextLimit == LimitInv /\ now \in Time /\ [Next]_vars => LimitInv'
  <1> SUFFICES ASSUME LimitInv, now \in Time, [Next]_vars PROVE LimitInv'
    OBVIOUS
  <1>1. CASE Tick
    BY <1>1, TickLimit
  <1>2. ASSUME NEW r \in Requests, NEW u \in Users, Accept(r, u) PROVE LimitInv'
    BY <1>2, AcceptLimit
  <1>3. CASE UNCHANGED <<now, history, accepted>>
    BY <1>3, OthersLimit
  <1> QED
    BY <1>1, <1>2, <1>3 DEF Next, vars, Refuse, Read, AnswerFromCache, Miss, AnswerFromAi, Fail
-----------------------------------------------------------------------------
(* The theorems *)

\* The invariant holds initially and is kept by every step.
LEMMA Invariant == Spec => []Inv
  <1>1. Init => Inv
    BY InitCache, InitLimit DEF Inv
  <1>2. Inv /\ [Next]_vars => Inv'
    BY NextCache, NextLimit DEF Inv, CacheInv, RequestsType
  <1> QED
    BY <1>1, <1>2, PTL DEF Spec

\* The maps of ChatService hold well-formed entries, whatever the requests do to them.
THEOREM AiTypeCorrect == Spec => []TypeOK
  <1>1. Inv => TypeOK
    BY DEF Inv, CacheInv, RequestsType, CacheType, LimitInv, LimitType, TypeOK
  <1> QED
    BY <1>1, Invariant, PTL

\* A request is answered for the messages it has read, although the users of a group share the cache
\* and answers overtake each other between getCachedResponse and setCachedResponse.
THEOREM AnswersAreOwn == Spec => []AnswersOwnInput
  <1>1. Inv => AnswersOwnInput
    BY DEF Inv, CacheInv
  <1> QED
    BY <1>1, Invariant, PTL

\* In no stretch of time as long as the window does a user get more than MaxRequests through,
\* although enforceAiRateLimit throws timestamps away as it goes.
THEOREM WindowHolds == Spec => []WindowNeverExceeded
  <1>1. Inv => WindowNeverExceeded
    BY DEF Inv, LimitInv
  <1> QED
    BY <1>1, Invariant, PTL

\* Only the decision itself changes the verdict on a request.
LEMMA VerdictMoves ==
  ASSUME RequestsType, NEW r \in Requests, NEW step \in Steps, pc' = [pc EXCEPT ![r] = step]
  PROVE  /\ pc[r] = "idle" /\ step = "read" => Verdict' = [Verdict EXCEPT ![r] = "accepted"]
         /\ pc[r] = "idle" /\ step = "refused" => Verdict' = [Verdict EXCEPT ![r] = "refused"]
         /\ pc[r] \notin {"idle", "refused"} /\ step \notin {"idle", "refused"} => Verdict' = Verdict
  BY DEF RequestsType, Verdict, Steps

\* The limiter counts with the same Cardinality.
LEMMA SameCardinality == \A S : Limiter!Cardinality(S) = Cardinality(S)
  BY DEF Limiter!Cardinality, Cardinality

\* enforceAiRateLimit implements the limiter: it accepts exactly when fewer than MaxRequests of the
\* user were accepted in the window that ends now, and nothing else of an endpoint touches the limit.
THEOREM LimiterImplemented == Spec => ImplementsLimiter
  <1>1. Init => Limiter!LimiterInit
    BY DEF Init, Limiter!LimiterInit, Verdict
  <1>2. ASSUME Inv, [Next]_vars PROVE [Limiter!LimiterNext]_(Limiter!limiterVars)
    <2> DEFINE Moved == [Limiter!LimiterNext]_(Limiter!limiterVars)
    <2>0. RequestsType /\ LimitType /\ HistoryKeepsWindow /\ now \in Time
      BY <1>2 DEF Inv, CacheInv, RequestsType, LimitInv
    <2>1. CASE Tick
      BY <2>1 DEF Tick, Limiter!LimiterNext, Limiter!Elapse, Verdict
    <2>2. ASSUME NEW r \in Requests, NEW u \in Users, Accept(r, u) PROVE Moved
      <3>1. pc[r] = "idle" /\ pc' = [pc EXCEPT ![r] = "read"] /\ "read" \in Steps
        BY <2>2 DEF Accept, Goto, Steps
      <3>2. Verdict[r] = "none" /\ Verdict' = [Verdict EXCEPT ![r] = "accepted"]
        BY <3>1, <2>0, VerdictMoves DEF Verdict
      <3>3. Cardinality(Limiter!InWindow(u)) < MaxRequests
        <4>1. Cardinality(Recent(u)) \in Nat
          BY <2>0, FinitelyMany
        <4> QED
          BY <2>0, <2>2, <4>1, RecentIsWindow, AdviceAssumption DEF Accept, Full
      <3>4. Limiter!LetThrough(r, u)
        BY <2>2, <3>2, <3>3, SameCardinality DEF Accept, Limiter!LetThrough, Limiter!Judge
      <3> QED
        BY <3>4 DEF Limiter!LimiterNext
    <2>3. ASSUME NEW r \in Requests, NEW u \in Users, Refuse(r, u) PROVE Moved
      <3>1. pc[r] = "idle" /\ pc' = [pc EXCEPT ![r] = "refused"] /\ "refused" \in Steps
        BY <2>3 DEF Refuse, Goto, Steps
      <3>2. Verdict[r] = "none" /\ Verdict' = [Verdict EXCEPT ![r] = "refused"]
        BY <3>1, <2>0, VerdictMoves DEF Verdict
      <3>3. Cardinality(Limiter!InWindow(u)) >= MaxRequests
        BY <2>0, <2>3, RecentIsWindow DEF Refuse, Full
      <3>4. Limiter!TurnAway(r, u)
        BY <2>3, <3>2, <3>3, SameCardinality DEF Refuse, Limiter!TurnAway, Limiter!Judge
      <3> QED
        BY <3>4 DEF Limiter!LimiterNext
    <2>4. ASSUME NEW r \in Requests,
                 (\E i \in Inputs : Read(r, i)) \/ AnswerFromCache(r) \/ Miss(r) \/ AnswerFromAi(r) \/ Fail(r)
          PROVE  Moved
      <3>1. \E step \in Steps \ {"idle", "refused"} :
              /\ pc[r] \notin {"idle", "refused"} /\ pc' = [pc EXCEPT ![r] = step]
              /\ UNCHANGED <<now, accepted>>
        BY <2>4 DEF Read, AnswerFromCache, Miss, AnswerFromAi, Fail, Goto, Steps
      <3>2. Verdict' = Verdict /\ UNCHANGED <<now, accepted>>
        BY <2>0, <3>1, VerdictMoves
      <3> QED
        BY <3>2 DEF Limiter!limiterVars
    <2>5. CASE UNCHANGED vars
      BY <2>5 DEF vars, Limiter!limiterVars, Verdict
    <2> QED
      BY <1>2, <2>1, <2>2, <2>3, <2>4, <2>5 DEF Next
  <1> QED
    BY <1>1, <1>2, Invariant, PTL DEF Spec, ImplementsLimiter, Limiter!LimiterSpec
-----------------------------------------------------------------------------
(* Induction over prefixes, from the well-foundedness of < on the natural numbers *)

\* A set of natural numbers that is not empty has a least element.
LEMMA Least ==
  ASSUME NEW T, T \subseteq Nat, T # {}
  PROVE  \E x \in T : \A y \in T : x <= y
  <1> DEFINE Less == {pair \in Nat \X Nat : pair[1] < pair[2]}
  <1>1. IsWellFoundedOn(Less, Nat)
    BY NatLessThanWellFounded DEF OpToRel
  <1> HIDE DEF Less
  <1>2. PICK x \in T : \A y \in T : ~(<<y, x>> \in Less)
    BY <1>1, WFMin
  <1>3. \A y \in T : ~(y < x)
    <2> SUFFICES ASSUME NEW y \in T, y < x PROVE FALSE
      OBVIOUS
    <2>1. <<y, x>> \in Less
      BY DEF Less
    <2> QED
      BY <2>1, <1>2
  <1> QED
    BY <1>2, <1>3

\* A set that holds 0, and k with k - 1 up to n, holds all of 0..n: the least number left out would
\* be neither 0 nor the successor of one that is in.
LEMMA UpTo ==
  ASSUME NEW n \in Nat, NEW S, 0 \in S, \A k \in 1..n : k - 1 \in S => k \in S
  PROVE  \A k \in 0..n : k \in S
  <1> DEFINE T == {k \in 0..n : k \notin S}
  <1>1. T \subseteq Nat
    OBVIOUS
  <1>2. ASSUME NEW x \in T, \A y \in T : x <= y PROVE FALSE
    <2>1. x \in 1..n /\ x \notin S
      OBVIOUS
    <2>2. x - 1 \in 0..n /\ ~(x <= x - 1)
      BY <2>1
    <2>3. x - 1 \in S
      BY <2>2, <1>2
    <2> QED
      BY <2>1, <2>3
  <1>3. T = {}
    <2> HIDE DEF T
    <2> QED
      BY <1>1, <1>2, Least
  <1> QED
    BY <1>3

\* What a recursion over 1..n needs: where it begins, and what each step makes of a value.
Recurrence(n, V, base, step) == base \in V /\ step \in [V \X (1..n) -> V]

Solves(f, n, V, base, step) ==
  f \in [0..n -> V] /\ f[0] = base /\ \A k \in 1..n : f[k] = step[<<f[k - 1], k>>]

\* A recursion over 1..n has a solution, so that a function defined by it is one.
LEMMA Solution ==
  ASSUME NEW n \in Nat, NEW V, NEW base, NEW step, Recurrence(n, V, base, step)
  PROVE  \E f : Solves(f, n, V, base, step)
  <1>0. base \in V /\ step \in [V \X (1..n) -> V]
    BY DEF Recurrence
  <1> DEFINE Good(m) == \E f \in [0..m -> V] : f[0] = base /\ \A k \in 1..m : f[k] = step[<<f[k - 1], k>>]
  <1> DEFINE S == {m \in 0..n : Good(m)}
  <1>1. 0 \in S
    <2>1. Good(0)
      <3> DEFINE f == [k \in 0..0 |-> base]
      <3>1. f \in [0..0 -> V] /\ f[0] = base /\ 1..0 = {}
        BY <1>0
      <3> HIDE DEF f
      <3> QED
        BY <3>1
    <2> HIDE DEF Good
    <2> QED
      BY <2>1
  <1>2. ASSUME NEW m \in 1..n, m - 1 \in S PROVE m \in S
    <2>1. PICK f \in [0..(m - 1) -> V] :
            f[0] = base /\ \A k \in 1..(m - 1) : f[k] = step[<<f[k - 1], k>>]
      BY <1>2
    <2> DEFINE g == [k \in 0..m |-> IF k = m THEN step[<<f[m - 1], m>>] ELSE f[k]]
    <2>2. f[m - 1] \in V /\ step[<<f[m - 1], m>>] \in V
      BY <1>0
    <2>3. g \in [0..m -> V]
      BY <2>2
    <2>4. g[0] = base
      BY <2>1
    <2>5. ASSUME NEW k \in 1..m PROVE g[k] = step[<<g[k - 1], k>>]
      <3>1. k - 1 \in 0..m /\ k - 1 # m /\ g[k - 1] = f[k - 1]
        OBVIOUS
      <3>2. CASE k = m
        BY <3>1, <3>2
      <3>3. CASE k # m
        <4>1. k \in 1..(m - 1)
          BY <3>3
        <4> QED
          BY <3>1, <3>3, <4>1, <2>1
      <3> QED
        BY <3>2, <3>3
    <2> HIDE DEF g
    <2> QED
      BY <2>3, <2>4, <2>5
  <1>3. \A m \in 0..n : m \in S
    <2> HIDE DEF S
    <2> QED
      BY <1>1, <1>2, UpTo
  <1> QED
    BY <1>3 DEF Solves
-----------------------------------------------------------------------------
(* AiAnswers: the recursions of the parser *)

TypeLists == Seq(Roles \cup {"other"})

\* How KnownAmong goes from one prefix to the next.
LEMMA KnownSteps ==
  ASSUME NEW types \in TypeLists
  PROVE  LET known == KnownAmong(types)
         IN  /\ known \in [0..Len(types) -> Seq(Roles)]
             /\ known[0] = <<>>
             /\ \A k \in 1..Len(types) :
                  known[k] = IF types[k] \in Roles \ ToSet(known[k - 1]) THEN Append(known[k - 1], types[k])
                             ELSE known[k - 1]
  <1> DEFINE n == Len(types)
  <1> DEFINE V == Seq(Roles)
  <1> DEFINE Next1(s, k) == IF types[k] \in Roles \ ToSet(s) THEN Append(s, types[k]) ELSE s
  <1> DEFINE step == [p \in V \X (1..n) |-> Next1(p[1], p[2])]
  <1>1. n \in Nat
    BY DEF TypeLists
  <1>2. \A v \in V, k \in 1..n : Next1(v, k) \in V
    OBVIOUS
  <1>3. Recurrence(n, V, <<>>, step)
    <2> HIDE DEF Next1, n
    <2>1. <<>> \in V
      OBVIOUS
    <2> HIDE DEF V
    <2> QED
      BY <1>2, <2>1 DEF Recurrence
  <1>4. \E f : Solves(f, n, V, <<>>, step)
    <2> HIDE DEF n, V, step
    <2> QED
      BY <1>1, <1>3, Solution
  <1>5. PICK f : f \in [0..n -> V] /\ f[0] = <<>> /\ \A k \in 1..n : f[k] = step[<<f[k - 1], k>>]
    BY <1>4 DEF Solves
  <1>6. ASSUME NEW k \in 1..n PROVE f[k] = Next1(f[k - 1], k)
    <2>1. f[k - 1] \in V
      BY <1>1, <1>5
    <2> HIDE DEF Next1, V
    <2>2. step[<<f[k - 1], k>>] = Next1(f[k - 1], k)
      BY <2>1
    <2> QED
      BY <2>2, <1>5
  <1>7. f = [k \in 0..n |-> IF k = 0 THEN <<>> ELSE Next1(f[k - 1], k)]
    <2> HIDE DEF Next1, V
    <2> QED
      BY <1>5, <1>6, <1>1
  <1>8. KnownAmong(types) = [k \in 0..n |-> IF k = 0 THEN <<>> ELSE Next1(KnownAmong(types)[k - 1], k)]
    BY <1>7 DEF KnownAmong
  <1> DEFINE known == KnownAmong(types)
  <1>9. known[0] = <<>> /\ \A k \in 1..n : known[k] = Next1(known[k - 1], k)
    <2> HIDE DEF known, Next1
    <2>1. known = [k \in 0..n |-> IF k = 0 THEN <<>> ELSE Next1(known[k - 1], k)]
      BY <1>8 DEF known
    <2> QED
      BY <2>1, <1>1
  <1>10. \A k \in 0..n : known[k] \in V
    <2> DEFINE S == {k \in 0..n : known[k] \in V}
    <2>1. 0 \in S
      <3>1. 0 \in 0..n /\ <<>> \in V
        BY <1>1
      <3> HIDE DEF known, Next1, V
      <3> QED
        BY <3>1, <1>9
    <2>2. \A k \in 1..n : k - 1 \in S => k \in S
      <3> HIDE DEF known, Next1, V
      <3> QED
        BY <1>1, <1>2, <1>9
    <2> HIDE DEF S
    <2>3. \A k \in 0..n : k \in S
      BY <1>1, <2>1, <2>2, UpTo
    <2> QED
      BY <2>3 DEF S
  <1>11. known \in [0..n -> V]
    <2> HIDE DEF known, V, Next1
    <2>1. known = [k \in 0..n |-> IF k = 0 THEN <<>> ELSE Next1(known[k - 1], k)]
      BY <1>8 DEF known
    <2> QED
      BY <2>1, <1>10
  <1> QED
    BY <1>9, <1>11

\* KnownAmong(types)[k] has the roles among the first k types, each once.
LEMMA KnownHolds ==
  ASSUME NEW types \in TypeLists, NEW k \in 0..Len(types)
  PROVE  LET s == KnownAmong(types)[k]
         IN  /\ s \in Seq(Roles)
             /\ \A i, j \in 1..Len(s) : s[i] = s[j] => i = j
             /\ ToSet(s) = {types[i] : i \in 1..k} \cap Roles
  <1> DEFINE n == Len(types)
  <1> DEFINE known == KnownAmong(types)
  <1> DEFINE Distinct(s) == \A i, j \in 1..Len(s) : s[i] = s[j] => i = j
  <1> DEFINE Prefix(m) == {types[i] : i \in 1..m} \cap Roles
  <1>1. n \in Nat
    BY DEF TypeLists
  <1>2. /\ known \in [0..n -> Seq(Roles)] /\ known[0] = <<>>
        /\ \A m \in 1..n : known[m] = IF types[m] \in Roles \ ToSet(known[m - 1])
                                      THEN Append(known[m - 1], types[m]) ELSE known[m - 1]
    BY KnownSteps
  <1> HIDE DEF known
  <1> DEFINE S == {m \in 0..n : Distinct(known[m]) /\ ToSet(known[m]) = Prefix(m)}
  <1>3. 0 \in S
    <2>1. Distinct(<<>>) /\ ToSet(<<>>) = {} /\ Prefix(0) = {}
      BY DEF ToSet
    <2> QED
      BY <1>1, <1>2, <2>1
  <1>4. ASSUME NEW m \in 1..n, m - 1 \in S PROVE m \in S
    <2> DEFINE s == known[m - 1]
    <2>1. s \in Seq(Roles) /\ Distinct(s) /\ ToSet(s) = Prefix(m - 1)
      BY <1>1, <1>2, <1>4
    <2>2. Prefix(m) = Prefix(m - 1) \cup ({types[m]} \cap Roles)
      BY <1>1
    <2>3. ToSet(s) = {s[i] : i \in 1..Len(s)}
      BY <2>1 DEF ToSet
    <2>4. CASE types[m] \in Roles \ ToSet(s)
      <3> DEFINE t == Append(s, types[m])
      <3>1. known[m] = t
        BY <1>2, <2>4
      <3>2. /\ t \in Seq(Roles) /\ Len(t) = Len(s) + 1 /\ t[Len(s) + 1] = types[m]
            /\ \A i \in 1..Len(s) : t[i] = s[i]
        BY <2>1, <2>4
      <3> HIDE DEF t, s, Prefix
      <3>3. Len(s) \in Nat
        BY <2>1
      <3>4. Distinct(t)
        <4> SUFFICES ASSUME NEW i \in 1..Len(t), NEW j \in 1..Len(t), t[i] = t[j], i # j PROVE FALSE
          OBVIOUS
        <4>1. CASE i \in 1..Len(s) /\ j \in 1..Len(s)
          BY <4>1, <2>1, <3>2
        <4>2. CASE i = Len(s) + 1
          <5>1. j \in 1..Len(s) /\ s[j] = types[m]
            BY <4>2, <3>2, <3>3
          <5> QED
            BY <5>1, <2>3, <2>4
        <4>3. CASE j = Len(s) + 1
          <5>1. i \in 1..Len(s) /\ s[i] = types[m]
            BY <4>3, <3>2, <3>3
          <5> QED
            BY <5>1, <2>3, <2>4
        <4> QED
          BY <4>1, <4>2, <4>3, <3>2, <3>3
      <3>5. ToSet(t) = ToSet(s) \cup {types[m]}
        <4>1. ToSet(t) = {t[i] : i \in 1..(Len(s) + 1)}
          BY <3>2, <3>3 DEF ToSet
        <4>2. 1..(Len(s) + 1) = 1..Len(s) \cup {Len(s) + 1}
          BY <3>3
        <4> QED
          BY <4>1, <4>2, <3>2, <2>3
      <3>6. ToSet(t) = Prefix(m)
        BY <2>1, <2>2, <2>4, <3>5
      <3> QED
        BY <3>1, <3>4, <3>6, <1>1
    <2>5. CASE types[m] \notin Roles \ ToSet(s)
      <3>1. known[m] = s
        BY <1>2, <2>5
      <3>2. ToSet(s) = Prefix(m)
        <4> HIDE DEF Prefix, s
        <4> QED
          BY <2>1, <2>2, <2>5
      <3> QED
        BY <2>1, <3>1, <3>2, <1>1
    <2> QED
      BY <2>4, <2>5
  <1>5. k \in S
    <2> HIDE DEF S
    <2> QED
      BY <1>1, <1>3, <1>4, UpTo
  <1> QED
    BY <1>2, <1>5 DEF known

\* A sequence without repetitions has as many values as it is long.
LEMMA DistinctValues ==
  ASSUME NEW T, NEW s \in Seq(T), \A i, j \in 1..Len(s) : s[i] = s[j] => i = j
  PROVE  IsFiniteSet(ToSet(s)) /\ Cardinality(ToSet(s)) = Len(s)
  <1>1. s \in Bijection(1..Len(s), ToSet(s))
    BY DEF Bijection, Injection, IsInjective, Surjection, ToSet
  <1>2. ExistsBijection(1..Len(s), ToSet(s))
    BY <1>1 DEF ExistsBijection
  <1>3. Len(s) \in Nat /\ IsFiniteSet(1..Len(s)) /\ Cardinality(1..Len(s)) = Len(s)
    BY FS_Interval
  <1> QED
    BY <1>2, <1>3, FS_Bijection

\* RolesOf gives two of the known roles that were listed, or as many as there are, without repetition.
LEMMA RolesAreKnown ==
  ASSUME NEW types \in TypeLists, types # Junk
  PROVE  LET roles == RolesOf(types)
             known == ToSet(types) \cap Roles
         IN  /\ ToSet(roles) \subseteq known
             /\ Cardinality(ToSet(roles)) = Len(roles)
             /\ Len(roles) = IF Cardinality(known) < 2 THEN Cardinality(known) ELSE 2
  <1> DEFINE n == Len(types)
  <1> DEFINE s == KnownAmong(types)[n]
  <1> DEFINE two == IF Len(s) < 2 THEN Len(s) ELSE 2
  <1> DEFINE roles == SubSeq(s, 1, two)
  <1>1. n \in Nat /\ n \in 0..Len(types)
    BY DEF TypeLists
  <1>2. /\ s \in Seq(Roles) /\ \A i, j \in 1..Len(s) : s[i] = s[j] => i = j
        /\ ToSet(s) = {types[i] : i \in 1..n} \cap Roles
    BY <1>1, KnownHolds
  <1>3. ToSet(types) = {types[i] : i \in 1..n}
    BY DEF ToSet, TypeLists
  <1>4. RolesOf(types) = roles
    BY DEF RolesOf
  <1> HIDE DEF s
  <1>5. Len(s) \in Nat /\ two \in Nat /\ two <= Len(s)
    BY <1>2
  <1>6. roles \in Seq(Roles) /\ Len(roles) = two /\ \A i \in 1..two : roles[i] = s[i]
    BY <1>2, <1>5
  <1> HIDE DEF two, roles
  <1>7. \A i, j \in 1..Len(roles) : roles[i] = roles[j] => i = j
    BY <1>2, <1>5, <1>6
  <1>8. ToSet(roles) \subseteq ToSet(s)
    <2>1. DOMAIN roles = 1..two /\ DOMAIN s = 1..Len(s)
      BY <1>2, <1>6
    <2>2. ToSet(roles) = {roles[i] : i \in 1..two} /\ ToSet(s) = {s[i] : i \in 1..Len(s)}
      BY <2>1 DEF ToSet
    <2> QED
      BY <2>2, <1>5, <1>6
  <1>9. Cardinality(ToSet(roles)) = Len(roles)
    BY <1>6, <1>7, DistinctValues
  <1>10. Cardinality(ToSet(s)) = Len(s)
    BY <1>2, DistinctValues
  <1>11. ToSet(s) = ToSet(types) \cap Roles
    BY <1>2, <1>3
  <1> QED
    BY <1>4, <1>6, <1>8, <1>9, <1>10, <1>11 DEF two

\* How SeenAmong goes from one prefix to the next.
LEMMA SeenHolds ==
  ASSUME NEW members \in Seq(ReplyEntries), NEW k \in 0..Len(members)
  PROVE  SeenAmong(members)[k] = {Trim(members[j].nickname) : j \in 1..k} \ {Null}
  <1> DEFINE n == Len(members)
  <1> DEFINE Name(m) == {Trim(members[m].nickname)} \ {Null}
  <1> DEFINE V == SUBSET UNION {Name(m) : m \in 1..n}
  <1> DEFINE step == [p \in V \X (1..n) |-> p[1] \cup Name(p[2])]
  <1>1. n \in Nat
    OBVIOUS
  <1>2. Recurrence(n, V, {}, step)
    <2> HIDE DEF Name, n
    <2>1. \A v \in V, m \in 1..n : v \cup Name(m) \in V
      OBVIOUS
    <2>2. {} \in V
      OBVIOUS
    <2> HIDE DEF V
    <2> QED
      BY <2>1, <2>2 DEF Recurrence
  <1>3. \E f : Solves(f, n, V, {}, step)
    <2> HIDE DEF n, V, step
    <2> QED
      BY <1>1, <1>2, Solution
  <1>4. PICK f : f \in [0..n -> V] /\ f[0] = {} /\ \A m \in 1..n : f[m] = step[<<f[m - 1], m>>]
    BY <1>3 DEF Solves
  <1>5. f = [m \in 0..n |-> IF m = 0 THEN {} ELSE f[m - 1] \cup Name(m)]
    <2> HIDE DEF Name
    <2>1. ASSUME NEW m \in 1..n PROVE f[m] = f[m - 1] \cup Name(m)
      <3> HIDE DEF V
      <3>1. f[m - 1] \in V
        BY <1>1, <1>4
      <3>2. step[<<f[m - 1], m>>] = f[m - 1] \cup Name(m)
        BY <3>1
      <3> QED
        BY <3>2, <1>4
    <2> HIDE DEF V
    <2> QED
      BY <2>1, <1>1, <1>4
  <1> DEFINE seen == SeenAmong(members)
  <1>6. seen = [m \in 0..n |-> IF m = 0 THEN {} ELSE seen[m - 1] \cup Name(m)]
    BY <1>5 DEF SeenAmong
  <1>7. seen[0] = {} /\ \A m \in 1..n : seen[m] = seen[m - 1] \cup Name(m)
    <2> HIDE DEF seen, Name
    <2> QED
      BY <1>1, <1>6
  <1> HIDE DEF seen
  <1> DEFINE Names(m) == {Trim(members[j].nickname) : j \in 1..m} \ {Null}
  <1> DEFINE S == {m \in 0..n : seen[m] = Names(m)}
  <1>8. 0 \in S
    BY <1>1, <1>7
  <1>9. ASSUME NEW m \in 1..n, m - 1 \in S PROVE m \in S
    <2>1. Names(m) = Names(m - 1) \cup Name(m)
      BY <1>1
    <2>2. seen[m - 1] = Names(m - 1) /\ m \in 0..n
      BY <1>1, <1>9
    <2>3. seen[m] = Names(m)
      <3> HIDE DEF Names, Name
      <3> QED
        BY <1>7, <2>1, <2>2
    <2> QED
      BY <2>2, <2>3
  <1>10. k \in S
    <2> HIDE DEF S
    <2> QED
      BY <1>1, <1>8, <1>9, UpTo
  <1> QED
    BY <1>10 DEF seen
-----------------------------------------------------------------------------
(* AiAnswers: what the client is answered *)

\* The response is what the code makes of the reply.
AiInv ==
  \/ response = Null
  \/ reply \in NicknameReplies \cup Failures /\ response = NicknameOf(reply)
  \/ reply \in MessageReplies \cup Failures /\ response = MessageResponse(MessageAdviceOf(reply))
  \/ reply \in InterventionReplies \cup Failures /\ response = InterventionOf(reply)
  \/ /\ roster \in Rosters /\ reply \in ContributionReplies \cup Failures
     /\ response = ContributionResponse(roster, reply)

\* It stays so: a request is answered once.
LEMMA AiInvariant == AiSpec => []AiInv
  <1>1. AiInit => AiInv
    BY DEF AiInit, AiInv
  <1>2. AiInv /\ [AiNext]_aiVars => AiInv'
    BY DEF AiInv, AiNext, aiVars, AnswerNickname, AnswerMessage, AnswerIntervention, AnswerContribution, Answered
  <1> QED
    BY <1>1, <1>2, PTL DEF AiSpec

\* A warning is one that is shown or one that is skipped, never both; a blocked message is shown; and
\* what is answered without the AI blocks nothing.
LEMMA MessageConsistent ==
  ASSUME NEW x \in MessageReplies \cup Failures
  PROVE  LET is == MessageResponse(MessageAdviceOf(x))
         IN  /\ is.kind = "message"
             /\ ~(is.shouldSkip /\ is.shouldShowPopup)
             /\ is.advice.shouldBlock => is.shouldShowPopup
             /\ Fails(x) => is.shouldSkip
  BY DEF MessageResponse, MessageAdviceOf, Flag, MessageReplies

\* Only warnings are of the kind of a warning.
LEMMA OtherKinds ==
  /\ \A x : NicknameOf(x).kind \in {"error", "nickname"}
  /\ \A x : InterventionOf(x).kind = "intervention"
  /\ \A names, x : ContributionResponse(names, x).kind = "contribution"
  /\ \A advice : MessageResponse(advice).kind = "message"
  BY DEF NicknameOf, InterventionOf, ContributionResponse, MessageResponse

\* generateMessageAdvice and getMessageAdvice: whatever the AI replies, or if it does not, the flags of
\* the response do not contradict each other.
THEOREM WarningsAgree == AiSpec => []WarningsConsistent
  <1>1. ASSUME AiInv PROVE WarningsConsistent
    <2> SUFFICES ASSUME Kind("message")
                 PROVE  /\ ~(response.shouldSkip /\ response.shouldShowPopup)
                        /\ response.advice.shouldBlock => response.shouldShowPopup
                        /\ Fails(reply) => response.shouldSkip
      BY DEF WarningsConsistent
    <2>1. reply \in MessageReplies \cup Failures /\ response = MessageResponse(MessageAdviceOf(reply))
      BY <1>1, OtherKinds DEF AiInv, Kind
    <2> QED
      BY <2>1, MessageConsistent
  <1> QED
    BY <1>1, AiInvariant, PTL

\* A text that was trimmed is a word, or stands for nothing.
LEMMA Trimmed ==
  ASSUME NEW text \in Texts
  PROVE  Trim(text) \in Words \cup {Null} /\ \A default : TextOr(text, default) \in Words \cup {default}
  BY DEF Texts, Trim, TextOr

\* A score is rounded and kept within 0 to 100, and one that is within and whole is kept as it is.
LEMMA Scored ==
  ASSUME NEW halves \in Int \cup {Junk}
  PROVE  /\ ScoreOf(halves) \in 0..100
         /\ \A n \in 0..100 : halves = 2 * n => ScoreOf(halves) = n
  <1>1. CASE halves = Junk
    <2>1. halves \notin Int /\ \A n \in 0..100 : 2 * n \in Int
      BY <1>1, RepliesAssumption
    <2> QED
      BY <1>1, <2>1 DEF ScoreOf
  <1>2. CASE halves \in Int /\ halves # Junk
    <2>1. (halves + 1) \div 2 \in Int
      BY <1>2
    <2>2. ASSUME NEW n \in 0..100, halves = 2 * n PROVE (halves + 1) \div 2 = n
      BY <2>2
    <2> QED
      BY <1>2, <2>1, <2>2 DEF ScoreOf, Clamp
  <1> QED
    BY <1>1, <1>2

\* Whoever is listed gets a score and a reason that can be shown, from the reply or from the code.
LEMMA MemberShown ==
  ASSUME NEW names \in Rosters, NEW x \in ContributionReplies \cup Failures, NEW i \in DOMAIN names
  PROVE  LET m == Merged(names, ContributionsOf(names, x))[i]
         IN  m.score \in 0..100 /\ m.reason \in Said
  <1> DEFINE members == ContributionsOf(names, x)
  <1> DEFINE m == Merged(names, members)[i]
  <1> DEFINE Shown(e) == e.score \in 0..100 /\ e.reason \in Said
  <1>1. \A nickname : Shown(Default(nickname, "delayed")) /\ Shown(Default(nickname, "littleSeen"))
    BY DEF Default, Said
  <1>2. ASSUME NEW e \in ReplyEntries PROVE Shown(Normalized(e))
    <2>1. e.score \in Int \cup {Junk} /\ e.reason \in Texts
      BY DEF ReplyEntries
    <2>2. ScoreOf(e.score) \in 0..100 /\ TextOr(e.reason, "littleSeen") \in Said
      BY <2>1, Scored, Trimmed DEF Said
    <2> QED
      BY <2>2 DEF Normalized
  <1>3. \A e \in members : Shown(e)
    <2>1. CASE Fails(x)
      BY <2>1, <1>1 DEF ContributionsOf
    <2>2. CASE ~Fails(x)
      <3>1. x.members = Junk \/ x.members \in Seq(ReplyEntries)
        BY <2>2, RepliesAssumption DEF Fails, ContributionReplies
      <3>2. members = Analysed(x.members)
        BY <2>2 DEF ContributionsOf
      <3>3. CASE x.members = Junk
        BY <3>2, <3>3 DEF Analysed
      <3>4. CASE x.members \in Seq(ReplyEntries) /\ x.members # Junk
        <4>1. \A k \in DOMAIN x.members : x.members[k] \in ReplyEntries
          BY <3>4
        <4>2. \A e \in Analysed(x.members) : \E k \in DOMAIN x.members : e = Normalized(x.members[k])
          BY <3>4 DEF Analysed
        <4> HIDE DEF Shown, members
        <4> QED
          BY <3>2, <4>1, <4>2, <1>2
      <3> QED
        BY <3>1, <3>3, <3>4
    <2> QED
      BY <2>1, <2>2
  <1>4. m \in members \/ m = Default(names[i], "littleSeen")
    <2> HIDE DEF members
    <2> QED
      BY DEF Merged
  <1>5. Shown(m)
    <2> HIDE DEF Shown, m, members
    <2> QED
      BY <1>1, <1>3, <1>4
  <1> QED
    BY <1>5

\* A message's advice has the fields of its DTO, from the reply or from the code.
LEMMA AdviceFormed ==
  ASSUME NEW x \in MessageReplies \cup Failures
  PROVE  MessageAdviceOf(x) \in [riskLevel : RiskLevels, shouldBlock : BOOLEAN, warning : Said,
                                 suggestedRewrite : Words \cup {Null}]
  <1>1. CASE Fails(x)
    BY <1>1 DEF MessageAdviceOf, RiskLevels, Said
  <1>2. CASE ~Fails(x)
    <2>1. x.warning \in Texts /\ x.suggestedRewrite \in Texts
      BY <1>2 DEF Fails, MessageReplies
    <2>2. TextOr(x.warning, "maySoundHarsh") \in Said /\ Trim(x.suggestedRewrite) \in Words \cup {Null}
      BY <2>1, Trimmed DEF Said
    <2> QED
      BY <1>2, <2>2 DEF MessageAdviceOf, RiskLevels, Flag
  <1> QED
    BY <1>1, <1>2

\* The same of an intervention.
LEMMA InterventionFormed ==
  ASSUME NEW x \in InterventionReplies \cup Failures
  PROVE  InterventionOf(x) \in [kind : {"intervention"}, needed : BOOLEAN, type : InterventionTypes,
                                reason : Said, message : Words \cup {Null}]
  <1>1. CASE Fails(x)
    BY <1>1 DEF InterventionOf, InterventionTypes, Said
  <1>2. CASE ~Fails(x)
    <2>1. x.reason \in Texts /\ x.message \in Texts
      BY <1>2 DEF Fails, InterventionReplies
    <2>2. TextOr(x.reason, "roomToBroaden") \in Said /\ Trim(x.message) \in Words \cup {Null}
      BY <2>1, Trimmed DEF Said
    <2> QED
      BY <1>2, <2>2 DEF InterventionOf, InterventionTypes, Flag
  <1> QED
    BY <1>1, <1>2

\* parseNicknameResponse answers with two words or not at all.
LEMMA NicknameFormed ==
  ASSUME NEW x \in NicknameReplies \cup Failures, NicknameOf(x).kind = "nickname"
  PROVE  NicknameOf(x).nickname \in Words /\ NicknameOf(x).reason \in Words
  <1>1. ~Fails(x) /\ Trim(x.nickname) # Null /\ Trim(x.reason) # Null
    BY DEF NicknameOf
  <1>2. x.nickname \in Texts /\ x.reason \in Texts
    BY <1>1 DEF Fails, NicknameReplies
  <1> QED
    BY <1>1, <1>2, Trimmed DEF NicknameOf

\* Whatever the AI replies, or if it does not, the client gets the fields of the response DTOs.
THEOREM ResponsesShaped == AiSpec => []ResponsesWellFormed
  <1>1. ASSUME AiInv PROVE ResponsesWellFormed
    <2>1. ASSUME Kind("nickname") PROVE response.nickname \in Words /\ response.reason \in Words
      <3>1. reply \in NicknameReplies \cup Failures /\ response = NicknameOf(reply)
        BY <1>1, <2>1, OtherKinds DEF AiInv, Kind
      <3> QED
        BY <2>1, <3>1, NicknameFormed DEF Kind
    <2>2. ASSUME Kind("message")
          PROVE  response.advice \in [riskLevel : RiskLevels, shouldBlock : BOOLEAN, warning : Said,
                                      suggestedRewrite : Words \cup {Null}]
      <3>1. reply \in MessageReplies \cup Failures /\ response = MessageResponse(MessageAdviceOf(reply))
        BY <1>1, <2>2, OtherKinds DEF AiInv, Kind
      <3>2. response.advice = MessageAdviceOf(reply)
        BY <3>1 DEF MessageResponse
      <3> QED
        BY <3>1, <3>2, AdviceFormed
    <2>3. ASSUME Kind("intervention")
          PROVE  response \in [kind : {"intervention"}, needed : BOOLEAN, type : InterventionTypes,
                               reason : Said, message : Words \cup {Null}]
      <3>1. reply \in InterventionReplies \cup Failures /\ response = InterventionOf(reply)
        BY <1>1, <2>3, OtherKinds DEF AiInv, Kind
      <3> QED
        BY <3>1, InterventionFormed
    <2>4. ASSUME Kind("contribution"), NEW i \in DOMAIN response.members
          PROVE  /\ response.members[i].member.score \in 0..100
                 /\ response.members[i].member.reason \in Said
                 /\ response.members[i].level \in Levels
      <3>1. /\ roster \in Rosters /\ reply \in ContributionReplies \cup Failures
            /\ response = ContributionResponse(roster, reply)
        BY <1>1, <2>4, OtherKinds DEF AiInv, Kind
      <3> DEFINE m == Merged(roster, ContributionsOf(roster, reply))[i]
      <3>2. i \in DOMAIN roster /\ response.members[i] = [member |-> m, level |-> Level(m.score)]
        BY <2>4, <3>1 DEF ContributionResponse
      <3>3. m.score \in 0..100 /\ m.reason \in Said
        BY <3>1, <3>2, MemberShown
      <3>4. \A score : Level(score) \in Levels
        BY DEF Level, Levels
      <3> QED
        BY <3>2, <3>3, <3>4
    <2> QED
      BY <2>1, <2>2, <2>3, <2>4 DEF ResponsesWellFormed
  <1> QED
    BY <1>1, AiInvariant, PTL

\* Of the entries about a nickname the first is kept, and no other.
LEMMA FirstIsKept ==
  ASSUME NEW members \in Seq(ReplyEntries), members # Junk, NEW name, name # Null
  PROVE  /\ \A m \in Analysed(members) : m.nickname = name =>
              \E k \in DOMAIN members : /\ m = Normalized(members[k]) /\ Trim(members[k].nickname) = name
                                        /\ \A l \in 1..(k - 1) : Trim(members[l].nickname) # name
         /\ \A k \in DOMAIN members :
              Trim(members[k].nickname) = name /\ (\A l \in 1..(k - 1) : Trim(members[l].nickname) # name)
              => Normalized(members[k]) \in Analysed(members)
  <1> DEFINE Name(k) == Trim(members[k].nickname)
  <1>1. ASSUME NEW k \in DOMAIN members
        PROVE  Name(k) \notin SeenAmong(members)[k - 1] \cup {Null}
                 <=> Name(k) # Null /\ \A l \in 1..(k - 1) : Name(l) # Name(k)
    <2>1. k - 1 \in 0..Len(members)
      OBVIOUS
    <2>2. SeenAmong(members)[k - 1] = {Name(l) : l \in 1..(k - 1)} \ {Null}
      BY <2>1, SeenHolds
    <2> HIDE DEF Name
    <2> QED
      BY <2>2
  <1>2. Analysed(members) =
          {Normalized(members[k]) : k \in
             {k \in DOMAIN members : Name(k) \notin SeenAmong(members)[k - 1] \cup {Null}}}
    BY DEF Analysed
  <1>3. \A k \in DOMAIN members : Normalized(members[k]).nickname = Name(k)
    BY DEF Normalized
  <1> HIDE DEF Name
  <1>4. \A m \in Analysed(members) : m.nickname = name =>
          \E k \in DOMAIN members : /\ m = Normalized(members[k]) /\ Name(k) = name
                                    /\ \A l \in 1..(k - 1) : Name(l) # name
    BY <1>1, <1>2, <1>3
  <1>5. \A k \in DOMAIN members :
          Name(k) = name /\ (\A l \in 1..(k - 1) : Name(l) # name) => Normalized(members[k]) \in Analysed(members)
    BY <1>1, <1>2
  <1> QED
    BY <1>4, <1>5 DEF Name

\* Without a reply, or with one that lists nobody, the members are the roster with nothing to show.
LEMMA NobodyListed ==
  ASSUME NEW names \in Rosters, NEW x, NEW i \in DOMAIN names, Fails(x) \/ x.members = Junk
  PROVE  DescribedFirst(Merged(names, ContributionsOf(names, x))[i], names[i], Listed(x))
  <1> DEFINE m == Merged(names, ContributionsOf(names, x))[i]
  <1>1. \A reason : /\ Default(names[i], reason).nickname = names[i]
                    /\ Default(names[i], reason).score = 0 /\ Default(names[i], reason).roles = <<>>
    BY DEF Default
  <1>2. m.nickname = names[i] /\ m.score = 0 /\ m.roles = <<>>
    <2>1. CASE Fails(x)
      <3> DEFINE members == {Default(names[j], "delayed") : j \in DOMAIN names}
      <3>1. ContributionsOf(names, x) = members
        BY <2>1 DEF ContributionsOf
      <3>2. \A e \in members : e.score = 0 /\ e.roles = <<>>
        BY DEF Default
      <3>3. Default(names[i], "delayed") \in members
        OBVIOUS
      <3> HIDE DEF members
      <3>4. m \in members /\ m.nickname = names[i]
        BY <1>1, <3>1, <3>3 DEF Merged
      <3> QED
        BY <3>2, <3>4
    <2>2. CASE ~Fails(x) /\ x.members = Junk
      <3>1. ContributionsOf(names, x) = {}
        BY <2>2 DEF ContributionsOf, Analysed
      <3>2. m = Default(names[i], "littleSeen")
        BY <3>1 DEF Merged
      <3> QED
        BY <1>1, <3>2
    <2> QED
      BY <2>1, <2>2
  <1>3. Listed(x) = <<>>
    BY DEF Listed
  <1> HIDE DEF m
  <1>4. DescribedFirst(m, names[i], <<>>)
    BY <1>2 DEF DescribedFirst
  <1> QED
    BY <1>3, <1>4 DEF m

\* With a list, each of the roster is what was said of him first, and who is not in it has nothing to show.
LEMMA SomeListed ==
  ASSUME NEW names \in Rosters, NEW x \in ContributionReplies, NEW i \in DOMAIN names,
         ~Fails(x), x.members # Junk
  PROVE  DescribedFirst(Merged(names, ContributionsOf(names, x))[i], names[i], Listed(x))
  <1> DEFINE entries == x.members
  <1> DEFINE name == names[i]
  <1> DEFINE kept == Analysed(entries)
  <1> DEFINE m == Merged(names, ContributionsOf(names, x))[i]
  <1> DEFINE Name(k) == Trim(entries[k].nickname)
  <1> DEFINE mentions == {k \in DOMAIN entries : Name(k) = name}
  <1>1. entries \in Seq(ReplyEntries) /\ name \in Words /\ name # Null
    BY RepliesAssumption DEF ContributionReplies
  <1>2. m = IF \E e \in kept : e.nickname = name THEN CHOOSE e \in kept : e.nickname = name
            ELSE Default(name, "littleSeen")
    BY DEF Merged, ContributionsOf
  <1>3. /\ \A e \in kept : e.nickname = name =>
             \E k \in DOMAIN entries : /\ e = Normalized(entries[k]) /\ Name(k) = name
                                       /\ \A l \in 1..(k - 1) : Name(l) # name
        /\ \A k \in DOMAIN entries :
             Name(k) = name /\ (\A l \in 1..(k - 1) : Name(l) # name) => Normalized(entries[k]) \in kept
    BY <1>1, FirstIsKept
  <1>4. \A k \in DOMAIN entries : Normalized(entries[k]).nickname = Name(k)
    BY DEF Normalized
  <1> HIDE DEF kept, m, Name
  <1>5. m.nickname = name
    <2>1. Default(name, "littleSeen").nickname = name
      BY DEF Default
    <2> QED
      BY <1>2, <2>1
  <1>6. ASSUME mentions = {} PROVE m.score = 0 /\ m.roles = <<>>
    <2>1. ~\E e \in kept : e.nickname = name
      BY <1>3, <1>6
    <2> QED
      BY <1>2, <2>1 DEF Default
  <1>7. ASSUME NEW k \in mentions, \A l \in mentions : k <= l
        PROVE  m = Normalized(entries[k])
    <2>1. DOMAIN entries = 1..Len(entries) /\ Len(entries) \in Nat
      BY <1>1
    <2>2. \A l \in 1..(k - 1) : Name(l) # name
      BY <1>7, <2>1
    <2>3. Normalized(entries[k]) \in kept /\ Normalized(entries[k]).nickname = name
      BY <1>3, <1>4, <2>2
    <2>4. m \in kept
      BY <1>2, <2>3
    <2>5. PICK j \in DOMAIN entries : /\ m = Normalized(entries[j]) /\ Name(j) = name
                                      /\ \A l \in 1..(j - 1) : Name(l) # name
      BY <1>3, <1>5, <2>4
    <2>6. j = k
      <3>1. k <= j
        BY <1>7, <2>5
      <3>2. ~(k < j)
        <4> SUFFICES ASSUME k < j PROVE FALSE
          OBVIOUS
        <4>1. k \in 1..(j - 1)
          BY <2>1
        <4> QED
          BY <4>1, <2>5
      <3> QED
        BY <2>1, <3>1, <3>2
    <2> QED
      BY <2>5, <2>6
  <1>8. ASSUME NEW k \in mentions, \A l \in mentions : k <= l
        PROVE  LET types == entries[k].types
                   known == IF types = Junk THEN {} ELSE ToSet(types) \cap Roles
               IN  /\ entries[k].score \in {2 * n : n \in 0..100} => 2 * m.score = entries[k].score
                   /\ ToSet(m.roles) \subseteq known
                   /\ Cardinality(ToSet(m.roles)) = Len(m.roles)
                   /\ Len(m.roles) = IF Cardinality(known) < 2 THEN Cardinality(known) ELSE 2
    <2> DEFINE types == entries[k].types
    <2>1. entries[k] \in ReplyEntries
      BY <1>1
    <2>2. entries[k].score \in Int \cup {Junk} /\ types \in TypeLists \cup {Junk}
      BY <2>1 DEF ReplyEntries, TypeLists
    <2>3. m.score = ScoreOf(entries[k].score) /\ m.roles = RolesOf(types)
      BY <1>7, <1>8 DEF Normalized
    <2>4. entries[k].score \in {2 * n : n \in 0..100} => 2 * m.score = entries[k].score
      BY <2>2, <2>3, Scored
    <2>5. CASE types = Junk
      <3>1. m.roles = <<>> /\ ToSet(<<>>) = {} /\ Len(<<>>) = 0
        BY <2>3, <2>5 DEF RolesOf, ToSet
      <3>2. ToSet(m.roles) = {} /\ Len(m.roles) = 0 /\ Cardinality({}) = 0
        BY <3>1, FS_EmptySet
      <3> HIDE DEF types
      <3>3. LET known == IF types = Junk THEN {} ELSE ToSet(types) \cap Roles
            IN  /\ ToSet(m.roles) \subseteq known
                /\ Cardinality(ToSet(m.roles)) = Len(m.roles)
                /\ Len(m.roles) = IF Cardinality(known) < 2 THEN Cardinality(known) ELSE 2
        BY <2>5, <3>2
      <3> QED
        BY <2>4, <3>3 DEF types
    <2>6. CASE types # Junk
      <3>1. LET roles == RolesOf(types)
                known == ToSet(types) \cap Roles
            IN  /\ ToSet(roles) \subseteq known
                /\ Cardinality(ToSet(roles)) = Len(roles)
                /\ Len(roles) = IF Cardinality(known) < 2 THEN Cardinality(known) ELSE 2
        BY <2>2, <2>6, RolesAreKnown
      <3> QED
        BY <2>3, <2>4, <2>6, <3>1
    <2> QED
      BY <2>5, <2>6
  <1>9. Listed(x) = entries
    BY DEF Listed
  <1>10. DescribedFirst(m, name, entries)
    BY <1>5, <1>6, <1>8 DEF DescribedFirst, Name
  <1> QED
    BY <1>9, <1>10 DEF m

\* parseContributionAnalysisResponse and mergeContributionMembers: the teacher sees exactly the roster,
\* each member as the AI described him first, with known roles and the score that was given.
THEOREM RosterAnalysed == AiSpec => []AnalysisOfRoster
  <1>1. ASSUME AiInv PROVE AnalysisOfRoster
    <2> SUFFICES ASSUME Kind("contribution")
                 PROVE  /\ Len(response.members) = Len(roster)
                        /\ \A i \in DOMAIN roster :
                             DescribedFirst(response.members[i].member, roster[i], Listed(reply))
      BY DEF AnalysisOfRoster
    <2>1. /\ roster \in Rosters /\ reply \in ContributionReplies \cup Failures
          /\ response = ContributionResponse(roster, reply)
      BY <1>1, OtherKinds DEF AiInv, Kind
    <2>2. roster \in Seq(Words)
      BY <2>1, RepliesAssumption
    <2>3. response.members = [i \in DOMAIN roster |->
                                LET m == Merged(roster, ContributionsOf(roster, reply))[i]
                                IN  [member |-> m, level |-> Level(m.score)]]
      BY <2>1 DEF ContributionResponse
    <2>4. Len(response.members) = Len(roster)
      BY <2>2, <2>3
    <2>5. \A i \in DOMAIN roster :
            response.members[i].member = Merged(roster, ContributionsOf(roster, reply))[i]
      BY <2>3
    <2>6. \A i \in DOMAIN roster :
            DescribedFirst(Merged(roster, ContributionsOf(roster, reply))[i], roster[i], Listed(reply))
      BY <2>1, NobodyListed, SomeListed DEF Fails
    <2> QED
      BY <2>4, <2>5, <2>6
  <1> QED
    BY <1>1, AiInvariant, PTL
=============================================================================
