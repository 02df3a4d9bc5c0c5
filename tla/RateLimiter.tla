----------------------------- MODULE RateLimiter -----------------------------
(***************************************************************************)
(* What a sliding-window limit promises: a call is let through exactly if  *)
(* fewer than MaxRequests calls of its user were let through in the window *)
(* that ends now.  Nothing is ever forgotten here, whereas chat.service.ts *)
(* keeps only the timestamps that still counted when it last looked.       *)
(***************************************************************************)
EXTENDS Integers, FiniteSets

CONSTANTS
  Requests,
  Users,
  Window,
  MaxRequests

VARIABLES
  now,
  accepted,   \* of each user, every call let through: when, and which
  verdict     \* what each call was told

limiterVars == <<now, accepted, verdict>>

LimiterInit ==
  /\ now = 0
  /\ accepted = [u \in Users |-> {}]
  /\ verdict = [r \in Requests |-> "none"]

\* The calls of u that were let through in the window that ends now.
InWindow(u) == {a \in accepted[u] : now - Window < a.at /\ a.at <= now}

Judge(r, said) ==
  /\ verdict[r] = "none"
  /\ verdict' = [verdict EXCEPT ![r] = said]

LetThrough(r, u) ==
  /\ Judge(r, "accepted")
  /\ Cardinality(InWindow(u)) < MaxRequests
  /\ accepted' = [accepted EXCEPT ![u] = @ \cup {[at |-> now, by |-> r]}]
  /\ UNCHANGED now

TurnAway(r, u) ==
  /\ Judge(r, "refused")
  /\ Cardinality(InWindow(u)) >= MaxRequests
  /\ UNCHANGED <<now, accepted>>

Elapse ==
  /\ now' = now + 1
  /\ UNCHANGED <<accepted, verdict>>

LimiterNext == Elapse \/ \E r \in Requests, u \in Users : LetThrough(r, u) \/ TurnAway(r, u)

LimiterSpec == LimiterInit /\ [][LimiterNext]_limiterVars
=============================================================================
