------------------------------ MODULE AiAnswers ------------------------------
(***************************************************************************)
(* From what the AI replies to what the client is answered: the four       *)
(* methods of openai.service.ts with their parsers and fallbacks, and what *)
(* chat.service.ts makes of their results.  Replies are not to be trusted: *)
(* any field may be missing or of another type (Junk), blank, out of range *)
(* or about somebody else.  When and how often the AI is asked, and which  *)
(* answers are cached, is in AiAdvice.                                     *)
(***************************************************************************)
EXTENDS Integers, SequencesExt

CONSTANTS
  Words,         \* texts without blanks around them, nicknames among them
  Rosters,       \* the sequences of nicknames a group may have
  MemberReplies, \* the sequences of entries the AI may list as members
  Junk,          \* a value that is missing or of another type
  Null

VARIABLES
  roster,        \* participantNicknames of the request that was answered
  reply,         \* what came of the request to the AI
  response       \* what the client was answered, or Null

aiVars == <<roster, reply, response>>

\* No key, fetch failed, aborted at timeoutMs, an error status, no text, not JSON, null:
\* requestStructuredResponse throws.  The callers ask for no retries.
Failures == [failure : {"noKey", "unreachable", "timeout", "httpError", "noText", "notJson", "null"}]
Fails(x) == x \in Failures

\* A text is a word in blanks, or nothing but blanks.
Texts == [padded : Words \cup {Null}] \cup {Junk}
Trim(text) == IF text = Junk THEN Null ELSE text.padded

\* typeof text === 'string' && text.trim().length > 0 ? text.trim() : default
TextOr(text, default) == IF Trim(text) = Null THEN default ELSE Trim(text)
Flag(x) == x = "true"

RiskLevels        == {"low", "medium", "high"}
InterventionTypes == {"none", "participation", "deep_question", "stalled_discussion"}
Roles == {"initiator", "idea_provider", "questioner", "summarizer", "facilitator", "executor"}
Levels == {"low", "medium", "high"}

AiInit ==
  /\ roster = <<>>
  /\ reply = Null
  /\ response = Null
-----------------------------------------------------------------------------
(* Nicknames: no answer takes the place of one that is not usable; GroupService tries again. *)

NicknameOf(x) ==
  IF Fails(x) \/ Trim(x.nickname) = Null \/ Trim(x.reason) = Null THEN [kind |-> "error"]
  ELSE [kind |-> "nickname", nickname |-> Trim(x.nickname), reason |-> Trim(x.reason)]
-----------------------------------------------------------------------------
(* Advice before a message is sent *)

MessageAdviceOf(x) ==
  IF Fails(x) THEN [riskLevel |-> "low", shouldBlock |-> FALSE, warning |-> "checkAgain", suggestedRewrite |-> Null]
  ELSE [riskLevel |-> IF x.riskLevel \in {"medium", "high"} THEN x.riskLevel ELSE "low",
        shouldBlock |-> Flag(x.shouldBlock),
        warning |-> TextOr(x.warning, "maySoundHarsh"),
        suggestedRewrite |-> Trim(x.suggestedRewrite)]

\* Mutant: only the risk decides what can be skipped.
MessageResponseByRisk(advice) ==
  [kind |-> "message", advice |-> advice,
   shouldShowPopup |-> advice.shouldBlock \/ advice.riskLevel = "high",
   shouldSkip |-> advice.riskLevel = "low"]
MessageResponse(advice) ==
  [kind |-> "message", advice |-> advice,
   shouldShowPopup |-> advice.shouldBlock \/ advice.riskLevel = "high",
   shouldSkip |-> advice.riskLevel = "low" /\ ~advice.shouldBlock]
-----------------------------------------------------------------------------
(* Interventions *)

\* Mutant: a type that is not among the four is passed on.
InterventionAsTold(x) ==
  IF Fails(x) THEN [kind |-> "intervention", needed |-> FALSE, type |-> "none", reason |-> "goOn", message |-> Null]
  ELSE [kind |-> "intervention", needed |-> Flag(x.needed), type |-> x.type,
        reason |-> TextOr(x.reason, "roomToBroaden"), message |-> Trim(x.message)]
InterventionOf(x) ==
  IF Fails(x) THEN [kind |-> "intervention", needed |-> FALSE, type |-> "none", reason |-> "goOn", message |-> Null]
  ELSE [kind |-> "intervention", needed |-> Flag(x.needed),
        type |-> IF x.type \in InterventionTypes THEN x.type ELSE "none",
        reason |-> TextOr(x.reason, "roomToBroaden"), message |-> Trim(x.message)]
-----------------------------------------------------------------------------
(* Contributions.  A score is counted in halves, to have some that Math.round rounds. *)

Clamp(n) == IF n < 0 THEN 0 ELSE IF n > 100 THEN 100 ELSE n
ScoreOf(halves) == IF halves = Junk THEN 0 ELSE Clamp((halves + 1) \div 2)

\* The roles among the first k types, each where it occurs first: [...new Set(types.filter(...))].
KnownAmong(types) ==
  LET known[k \in 0..Len(types)] ==
        IF k = 0 THEN <<>>
        ELSE IF types[k] \in Roles \ ToSet(known[k - 1]) THEN Append(known[k - 1], types[k])
        ELSE known[k - 1]
  IN  known

\* The first two of them.
RolesOf(types) ==
  IF types = Junk THEN <<>>
  ELSE LET known == KnownAmong(types)[Len(types)]
       IN  SubSeq(known, 1, IF Len(known) < 2 THEN Len(known) ELSE 2)

Normalized(m) ==
  [nickname |-> Trim(m.nickname), score |-> ScoreOf(m.score), roles |-> RolesOf(m.types),
   reason |-> TextOr(m.reason, "littleSeen")]

Default(nickname, reason) == [nickname |-> nickname, score |-> 0, roles |-> <<>>, reason |-> reason]

\* seenNicknames after the first k entries.
SeenAmong(members) ==
  LET seen[k \in 0..Len(members)] ==
        IF k = 0 THEN {} ELSE seen[k - 1] \cup ({Trim(members[k].nickname)} \ {Null})
  IN  seen

\* Mutant: an entry replaces an earlier one of the same nickname.
AnalysedLast(members) ==
  IF members = Junk THEN {}
  ELSE {Normalized(members[k]) : k \in
          {k \in DOMAIN members : /\ Trim(members[k].nickname) # Null
                                  /\ \A l \in DOMAIN members :
                                       k < l => Trim(members[l].nickname) # Trim(members[k].nickname)}}
\* parseContributionAnalysisResponse: entries without a nickname or with one that was seen are left out.
\* The order of the others is not looked at: they become a Map by nickname.
Analysed(members) ==
  IF members = Junk THEN {}
  ELSE {Normalized(members[k]) : k \in
          {k \in DOMAIN members : Trim(members[k].nickname) \notin SeenAmong(members)[k - 1] \cup {Null}}}

ContributionsOf(names, x) ==
  IF Fails(x) THEN {Default(names[i], "delayed") : i \in DOMAIN names} ELSE Analysed(x.members)

\* mergeContributionMembers
Merged(names, members) ==
  [i \in DOMAIN names |->
     IF \E m \in members : m.nickname = names[i] THEN CHOOSE m \in members : m.nickname = names[i]
     ELSE Default(names[i], "littleSeen")]

\* toContributionLevel
Level(score) == IF score >= 70 THEN "high" ELSE IF score >= 40 THEN "medium" ELSE "low"

ContributionResponse(names, x) ==
  [kind |-> "contribution",
   members |-> [i \in DOMAIN names |->
                  LET m == Merged(names, ContributionsOf(names, x))[i]
                  IN  [member |-> m, level |-> Level(m.score)]]]
-----------------------------------------------------------------------------
(* The replies, and what is answered to each *)

Flags == {"true", "false", Junk}
NicknameReplies     == [nickname : Texts, reason : Texts]
MessageReplies      == [riskLevel : RiskLevels \cup {Junk, "other"}, shouldBlock : Flags, warning : Texts,
                        suggestedRewrite : Texts]
InterventionReplies == [needed : Flags, type : InterventionTypes \cup {Junk, "other"}, reason : Texts, message : Texts]
ContributionReplies == [members : MemberReplies \cup {Junk}]
ReplyEntries == [nickname : Texts, score : Int \cup {Junk}, types : Seq(Roles \cup {"other"}) \cup {Junk}, reason : Texts]

ASSUME RepliesAssumption ==
  /\ Null \notin Words /\ Junk \notin Int \cup [padded : Words \cup {Null}]
  /\ Rosters \subseteq Seq(Words)
  /\ MemberReplies \subseteq Seq(ReplyEntries)

Answered(names, x, is) ==
  /\ response = Null
  /\ roster' = names
  /\ reply' = x
  /\ response' = is

AnswerNickname(x)     == Answered(<<>>, x, NicknameOf(x))
AnswerMessage(x)      == Answered(<<>>, x, MessageResponse(MessageAdviceOf(x)))
AnswerIntervention(x) == Answered(<<>>, x, InterventionOf(x))
AnswerContribution(names, x) == Answered(names, x, ContributionResponse(names, x))

AiNext ==
  \/ \E x \in NicknameReplies \cup Failures : AnswerNickname(x)
  \/ \E x \in MessageReplies \cup Failures : AnswerMessage(x)
  \/ \E x \in InterventionReplies \cup Failures : AnswerIntervention(x)
  \/ \E x \in ContributionReplies \cup Failures, names \in Rosters : AnswerContribution(names, x)

AiSpec == AiInit /\ [][AiNext]_aiVars
-----------------------------------------------------------------------------
(* Properties *)

Said == Words \cup {"checkAgain", "maySoundHarsh", "goOn", "roomToBroaden", "littleSeen", "delayed"}
Kind(kind) == response # Null /\ response.kind = kind

\* Whatever the AI replies, or if it does not, the client gets the fields of the response DTOs: texts
\* that are not blank, levels, types and roles that exist, scores from 0 to 100.
ResponsesWellFormed ==
  /\ Kind("nickname") => response.nickname \in Words /\ response.reason \in Words
  /\ Kind("message") =>
       response.advice \in [riskLevel : RiskLevels, shouldBlock : BOOLEAN, warning : Said,
                            suggestedRewrite : Words \cup {Null}]
  /\ Kind("intervention") =>
       response \in [kind : {"intervention"}, needed : BOOLEAN, type : InterventionTypes, reason : Said,
                     message : Words \cup {Null}]
  /\ Kind("contribution") =>
       \A i \in DOMAIN response.members :
         /\ response.members[i].member.score \in 0..100
         /\ response.members[i].member.reason \in Said
         /\ response.members[i].level \in Levels

\* A message is never both to be skipped over and shown in a popup, a blocked one is always shown, and
\* an AI that cannot be reached holds no message up.
WarningsConsistent ==
  Kind("message") =>
    /\ ~(response.shouldSkip /\ response.shouldShowPopup)
    /\ response.advice.shouldBlock => response.shouldShowPopup
    /\ Fails(reply) => response.shouldSkip

\* The entries the AI has listed, if it did.
Listed(x) == IF Fails(x) \/ x.members = Junk THEN <<>> ELSE x.members

\* m is what the first of the entries about the name says, or has nothing to show if there is none.
DescribedFirst(m, name, entries) ==
  LET mentions == {k \in DOMAIN entries : Trim(entries[k].nickname) = name}
  IN  /\ m.nickname = name
      /\ mentions = {} => m.score = 0 /\ m.roles = <<>>
      /\ \A k \in mentions : (\A l \in mentions : k <= l) =>
           LET types == entries[k].types
               known == IF types = Junk THEN {} ELSE ToSet(types) \cap Roles
           IN  /\ entries[k].score \in {2 * n : n \in 0..100} => 2 * m.score = entries[k].score
               /\ ToSet(m.roles) \subseteq known
               /\ Cardinality(ToSet(m.roles)) = Len(m.roles)
               /\ Len(m.roles) = IF Cardinality(known) < 2 THEN Cardinality(known) ELSE 2

\* The teacher sees exactly the members of the group, in their order, each as the AI described him
\* first: entries of others, repetitions and unknown roles are dropped, who is missing gets nothing.
AnalysisOfRoster ==
  Kind("contribution") =>
    /\ Len(response.members) = Len(roster)
    /\ \A i \in DOMAIN roster : DescribedFirst(response.members[i].member, roster[i], Listed(reply))
=============================================================================
