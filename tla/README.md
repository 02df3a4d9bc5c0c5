# Modus backend: formal models

Modus-BE is a NestJS service for classes that work in groups: a teacher opens a class, students
join it with a code, the teacher puts them into groups, each group has an anonymous chat with AI
advice, an assignment to hand in, and notices. This directory models the parts of it whose
correctness depends on the order in which things happen, checks them with TLC on small instances,
and proves the main safety properties with TLAPS for instances of every size.

Paths below are relative to `src/src/` of the repository unless they say otherwise.

## The system

One Node.js process serves HTTP and Socket.IO. Handlers run without interruption from one `await`
to the next; at an await, other handlers run. There are no explicit transactions: every
TypeORM repository call is a database transaction of its own, so a handler that makes five calls can
be interleaved with others, fail, or be cut short by a crash, at four points, with the first calls
already committed. `save(entity)` is itself two statements: it selects the row by primary key,
compares, and then updates the columns that differ, or inserts.

| Component | State | Operations | Interacts with |
|---|---|---|---|
| Groups (`group/group.service.ts`) | `groups`, `group_members`, `group_nicknames`, `nickname_reservations` | create, update, delete; nickname generation with AI and retries; details, lists, chat names, rosters | class participants, OpenAI, chat rooms |
| Chat (`chat/chat.gateway.ts`, `chat.service.ts`, `chat-room.service.ts`) | sockets and rooms in memory, `client.data`, `chat_messages` | `chat.join`, `chat.send`, sync of a group's audience, closing a room | group membership queries; called back by the group service |
| AI advice (`chat/chat.service.ts`) | request history and caches in memory | message advice, intervention advice, contribution analysis | chat messages, group rosters, OpenAI |
| Signup (`auth/signup`, `auth/email`) | `signup_verifications`, `users` | send code, verify, sign up, consume | mail server |
| Sessions (`auth/login`, `auth/logout`) | `refresh_tokens` | login, refresh, logout | users, JWT |
| Classes (`class`) | `classes`, `class_participants` | create, regenerate code, join; lists of classes and participants | groups |
| Assignments, surveys | one row per group / per student | submit (find, then save) | groups, storage |
| Notices (`notice`) | `notices` | create, update, delete, list | classes |
| Storage (`storage`) | none of its own: keys and URLs are derived from the environment, and the URLs kept in submissions | sign an upload, sign a download | assignments, S3 |
| OpenAI client (`openai`) | none | nicknames, message advice, interventions, contributions: ask, parse, fall back | the AI; groups and AI advice |
| Profile (`me`) | none | read a profile | users |
| Migrations, HTTP layer | schema; none | schema and data changes; validation, filters, response format | all |

What is hard in it:

* **Interleaving and atomicity.** Two updates move one student; a nickname is drawn, reserved and
  saved at three moments; failed attempts are counted by reading a row and saving it later.
* **Stale state.** Lists of rows to remove, chat audiences, memberships and verification rows are
  read before an await and used after it.
* **Partial failure and crashes.** Nothing undoes the calls that were made before the one that fails.
* **Retries and limits.** Nickname generation retries; attempts, cooldowns, caches and rate limits
  have boundaries in time and number.
* **Ordering.** History and live messages reach a chat client by different ways; two codes of one
  class are answered in another order than they are saved.
* **Untrusted and changing inputs.** The AI may reply anything; the environment from which file URLs
  are made may be another one when they come back.

## What makes each component correct

* Groups: a group's members are participants of its own class; nobody is in a group without an
  anonymous nickname, and nicknames are unique over the whole service and never change; nobody is
  removed without having been asked for, and no answered request leaves somebody it moved without a
  group; requests end. What
  students see of each other are nicknames, the same ones in every view, and the views of teachers and
  students agree on who is in which group.
* Chat: a socket listens to one room; a live message goes only to users of the group; a client that
  joins misses nothing.
* AI advice: no user exceeds the limit in any window, nobody is refused below it, and no
  answer is given for messages it was not made from.
* Signup: an account exists only with a code that was issued and entered; the attempts are limited;
  the code just mailed works; a completed signup leaves no code behind.
* Sessions: after a logout nothing that comes later brings the session back before the next login;
  the token a client received last works until it expires.
* Submissions and surveys: an answered submission is stored, exactly as it was sent if no other one
  overlapped it, and a stored one is not empty.
* Classes: the code a teacher was told last leads to that class and no other, until two regenerations
  overlap; drawing codes ends.
* Notices: they read as their teacher was told last, and stay away once deleted, until two writers
  overlap.
* Storage: the URL of an upload for assignments, and no other issued one, can be submitted, and its
  download is signed for the key the file was uploaded under, whatever has been configured since.
* OpenAI client: whatever the AI replies, the client gets a well-formed answer about its own group.

## Modules

| Module | What it is |
|---|---|
| `GroupService` | group requests over the shared tables, one action per awaited call |
| `GroupHistory` | the same with history variables, for questions about whole requests |
| `GroupQueries` | what each query of groups and classes shows of the tables of `GroupService` |
| `NicknameBook` | abstract specification of nickname assignment, implemented by `GroupService` |
| `ChatGateway` | gateway handlers, rooms, sockets and messages, with the group tables changing underneath |
| `ChatDelivery` | the same with a history variable: who was entitled to a message |
| `ChatEntry` | `ChatDelivery` with another one: who was let into a chat too late |
| `AiAdvice` | rate limit, cache and AI call of one endpoint |
| `RateLimiter` | abstract specification of a sliding-window limit that forgets nothing, implemented by `AiAdvice` |
| `SignupVerification` | code by mail, verification and signup for one address |
| `Sessions` | login, refresh and logout of one user over the stored refresh token |
| `Submissions` | find-then-save of a group's assignment and of a student's survey |
| `Classroom` | class codes, joining, and notices, one action per awaited call |
| `FileUrls` | the URL of a file from its upload over submissions and restarts to its download |
| `AiAnswers` | what is answered to the client for each reply of the AI, malformed ones included |
| `GroupServiceProofs`, `GroupMembershipProofs`, `ChatProofs`, `AiProofs`, `SignupProofs`, `SessionProofs`, `SubmissionProofs`, `ClassroomProofs` | theorems and proofs |
| `MCGroupService`, `MCGroupHistory`, `MCChat`, `MCChatEntry`, `MCAiAdvice`, `MCSignup`, `MCSessions`, `MCSubmissions`, `MCClassroom`, `MCInputs` | instances for TLC: constant functions, symmetry, enumerated inputs |

### Common conventions

A request or handler is a process: `pc[r]` names its next awaited call and `job[r]` (`task[t]` in
the chat) its local variables, which may be stale. Each runs once; its name also serves as the UUID
or the code it generates. When a handler ends, its locals are dropped. `Abort` is a call that throws
or a process that dies between two steps: the tables keep what was committed. Unique keys, foreign
keys and cascades of the migrations are guards and effects of the database actions.
Text (names, contents, wording, hashes) is abstracted to values that can be told apart.
Definitions marked `Mutant:` are wrong variants of the definition below them; each property is
violated when the variant takes its place, and no specification uses them.

### Groups

`createGroup` is `CreateGroup`, then (if there are members) `FindNicknames`, `DrawNickname` or
`RefuseNickname` per participant, `SaveNicknames`, `InsertGroup`, `FindMoves`, `RemoveMoves`,
`AddMembers`. `updateGroup` is `UpdateGroup`, `FindParticipants`, `FindMembers`, the nickname steps,
the moves, `RemoveLeavers`, `AddMembers`, `SaveGroup`, and `ReinsertGroup` if the row was deleted
meanwhile. `deleteGroup` is `DeleteGroup`, `RemoveGroup`. Which calls are skipped is decided by
`NicknameStep`, `NamedStep`, `MoveStep`, `LeaveStep`, `AddStep` from the locals, as in the code.
The AI's answer is nondeterministic: a free well-formed name, or anything that has to be asked for
again. `CallsLeft` is the most awaited calls a request may still make: those of its handler from
where it is (`CallsFrom`), and the attempts its participants may still cost (`AttemptsLeft`). The calls into the chat (`syncGroupAudience`, `closeGroup`) touch none of these tables and are
part of `ChatGateway`. `JoinClass` is `joinClass` of the class service.

`NicknameBook` says what nickname assignment promises: a set of entries that only grows and assigns
names one to one. `ImplementsBook` is the refinement, with the nickname table as the book.

`GroupQueries` has one operator per query that returns rows of these tables, and one (`May...`) per
check that refuses it: `GroupDetail` (`getGroupDetail` for students), `ChatName`
(`getChatParticipantInfo`, `getMyGroupNickname`), `Roster` (what the AI is told), `StudentClasses`,
`TeacherClasses`, `ClassParticipants`, `ClassGroups`. A query is one statement and changes nothing, so it
is evaluated in every reachable state, also between the steps of requests, and is no action.
`NicknameOr(p, other)` is the fallback each of them has for a missing nickname: the real name in two, a
placeholder in the other two. The properties say that no fallback is ever taken for a member of a
group, and that two queries that look a student up by different keys agree.

### Chat

A database call of a handler is two moments: the query, which sees the tables as they are, and the
continuation, which uses the answer later. So `chat.join` is `JoinRead` (membership query),
`JoinEnter` (leave the old room, enter, `chat.joined`; the history query is sent), `ReadHistory`
(the database answers it), `ShowHistory` (`chat.history`). `chat.send` is `BeginSend`, `SendRead`,
`StoreMessage`, `ReadAudience`, `Deliver`. An update of a group ends in `SyncRead`, `Deliver`; a
deletion is `BeginClose`, `CloseRoom`, `RemoveGroup`. `InsertGroup`, `AddMember`, `RemoveMember`
stand for all the group service may do to the rows, and `Disconnect` for the network. A user may be in
several groups: the unique key is per class participant, and a student may be in several classes.

Room operations of Socket.IO's in-memory adapter (`join`, `leave`, `fetchSockets`) are awaited in the
code but resolve in the same turn of the event loop; they are atomic with the continuation they occur
in. `shown[s]` is what the client has been shown since it last got `chat.joined`.

### AI advice

The three endpoints share one shape: `Accept` or `Refuse` (rate limit, before any await), `Read`
(roster and recent messages, i.e. the fingerprint), `AnswerFromCache` or `Miss`, `AnswerFromAi`,
with `Fail` where a query or the AI may fail. `history` is what the code keeps, the timestamps that
still counted when it last looked (`Recent`); `accepted` is auxiliary and keeps all of them. A timestamp
is recorded with the request it is of, so that two in one moment are two. The keys of both maps name endpoint and group, so one of
each is modelled. The instance uses the analyses' cache, which all users of a group share; the
one of message advice, with a key per user, is the easier case. The limit of `chat.send` is the same
algorithm per socket.

`RateLimiter` says what a sliding window promises, over everything that was ever let through: a call
passes exactly if fewer than the limit passed in the window that ends now. `ImplementsLimiter` is the
refinement, with `accepted` and what each request was told (`Verdict`): throwing timestamps away
changes no decision, and neither reading, the cache, the AI nor a failure gives a request back.

### Signup

`sendVerificationCode` is `BeginSend` (account query, then the clock), `SendFind` (row query,
cooldown), `Insert` or the save of the row, `Mail`. `signup` is `BeginSignup`, `VerifyFind`, then
`RemoveRow` (expired or out of attempts), the save of the counted failure, or `CreateUser`,
`ConsumeFind`, `ConsumeRemove`. A save is `SaveSelect`, `SaveUpdate` / `SaveInsert`. The auxiliary
variables record the codes issued, the newest code mailed, the wrong codes entered since the last
accepted send, and whether requests have overlapped since then. The generated code is a fresh
value; the chance that two of them collide is left out.

### Sessions

`save` is `Find`, then `Insert` or `SaveSelect` and `SaveUpdate` (`Insert` again if the row is gone);
`login` is `Login`, `save`, `Answer`; `refresh` is `Begin`, `Validate` (or `RemoveExpired`),
`SignAgain`, `save`, `Answer`; `logout` is `Begin`, `Validate`, `Remove`. What a login reads of the
user does not change in between, so its first two steps are one, and so are a refresh's query of the
user and the signing. Deletions are by user id, saves by primary key.

Hashes are modelled by what bcrypt does: it reads the first 72 bytes. The header of a token and the
first half of the user's id fill them, so `Compare` is true of any refresh token of the user, and the
row decides by its presence and its expiry alone whether the session lives. `exp` is each token's
expiry, in the seconds in which both JWT and row count. The auxiliary variables record the token
received last (`newest`), whether anything has overlapped since it began to be stored (`quiet`), and
who could still store a token when the last logout deleted the row (`over`).

### Submissions

`submitAssignment` is `Submit` or `Refuse`, `Access` (group with members), `Find`, and the save;
`submitSurvey` is the same without `Access`. Both tables are one variable `rows`, by group and
by student, with the columns of both; `Fits` says which of them a row may use. `AddMember`,
`RemoveMember`, `DeleteGroup` and `ReinsertGroup` stand for the requests of `GroupService`; they may
happen whenever the rows allow it, which is more often than they can. Statuses, downloads and other
queries change nothing and are left out. `shared`, `late` and `kept` record which submissions
overlapped, which were under way when the group was deleted, and for whom one was answered.

### Classes and notices

`createClass` is `CreateClass`, then `CodeTaken` (the drawn code is in use: draw another) until
`CodeFree`, then `InsertClass`. `regenerateClassCode` is `RegenerateCode` (which finds the class), the
same loop, `SelectCode` and `UpdateCode`. `joinClass` is `JoinClass` (the code is looked up, once),
`FindParticipant`, `InsertParticipant`. `createNotice` is `CreateNotice`, `InsertNotice`; `updateNotice`
is `UpdateNotice` (the notice and the ownership of its class), then the save: `SelectNotice`,
`WriteNotice` with the columns that differ or `ReinsertNotice` if the row is gone; `deleteNotice` is
`DeleteNotice`, `RemoveNotice`. The two unique keys are guards of the inserts and of `UpdateCode`.

`told` holds what teachers were told last of each row, and `shared` the requests that have
overlapped another one on the same row; when that happens, what was told of the row is dropped, as
the code makes no promise about it. A class is never deleted, and nothing but these requests writes
classes, codes and notices.

### Files

A URL is a host and the segments of a path: directories, and the file, of which only its number and
whether its name could be read back are told apart. `IssueUpload` is `createPresignedUploadUrl`
(`ObjectKey` with `SafeName`, `FileUrl`), `SubmitFile` the part of `submitAssignment` that judges the
URL (`Accepted`, with `AllowedPrefixes` of the assignment service), `Download` is
`getSubmissionDownloadUrl` (`ExtractedKey`), and `Redeploy` starts the server with another environment,
which is what makes the three disagree if they can. Of an environment the model keeps the public
address (`base`), the bucket, and which of the S3 settings are there: those that a URL is made from
(`located`) and all that signing needs (`complete`). Decoding an escape that a name did not need is
modelled by what it does to the name. Signing itself is the AWS library's.

### Answers of the AI

Each of the four methods of the OpenAI client is an operator from a reply to an answer: a failure
(no key, unreachable, timeout, error status, no text, not JSON, `null`) or an object whose fields may
be missing, of another type, blank, padded, unknown, or out of range. `MessageResponse`,
`ContributionResponse` (`Merged`, `Level`) are what `chat.service.ts` makes of them. Scores are counted in
halves so that some have to be rounded. A reply's list of entries is a list of any length; the loops over it are recursive functions
(`KnownAmong`: the known roles without repetitions, `SeenAmong`: the names met so far), and what they leave
is a set of entries with distinct names. Each action answers one request, after which nothing
happens: the module is a function checked over its inputs, and caching and asking again are in
`AiAdvice` and `GroupService`.

## Runs

| Run | Instance | Checks | Result |
|---|---|---|---|
| `group_safety` | 3 requests, 2 classes, 2 students, 3 names, 2 attempts | `TypeOK MembersNicknamed MembersOfClass UniqueNicknames StudentsSeeNicknames ViewsAgree NobodyStranded RemovalsAsked ImplementsBook AloneIsExact CallsCountDown` | holds |
| `group_liveness` | 3 requests, 1 class, 1 student, 2 names, 2 attempts | `RequestsEnd` | holds |
| `classroom` | 3 requests, 1 teacher, 1 student, 1 class with a notice, 4 codes, 2 texts | `TypeOK ToldCodesLeadHome ToldNoticesShown RequestsEnd` | holds |
| `chat_rooms` | 4 handlers, a student's socket, 2 groups, history of 1 | `TypeOK RoomIsCurrent NoGap LiveToAudience` | holds |
| `chat_shown` | 3 handlers, the sockets of a student and of the teacher, 1 group, history of 1 | `ShownToAudience` | violated |
| `ai_advice` | 3 requests, 2 users, 2 inputs, window 2, limit 2, TTL 2, clock to 5 | `TypeOK WindowNeverExceeded AnswersOwnInput ImplementsLimiter` | holds |
| `inputs` | 2 uploads and a foreign URL, 11 environments; every reply of four kinds, lists of up to 2 entries | `IssuedUrlsAccepted DownloadsNameUploads ResponsesWellFormed WarningsConsistent AnalysisOfRoster` | holds |
| `signup_verification` | 4 requests, expiry 2, cooldown 1, 2 attempts, clock to 3 | `TypeOK VerifiedAccounts MailedCodeWorksAlone AttemptsLimited SignupConsumes` | holds |
| `signup_mail` | the same | `MailedCodeWorks` | violated |
| `sessions` | 4 requests, lifetime 2, clock to 3 | `TypeOK LogoutFinal NewestWorksAlone` | holds |
| `submissions` | 3 requests, 1 group, 2 students, 1 value | `TypeOK AnsweredIsStored ExactAlone` | holds |
| `submission_empty` | the same | `SomethingSubmitted` | violated |

All runs set `CHECK_DEADLOCK FALSE`: requests run once, so the system stops when all have ended.

**Bounds.** The hazards are races of two handlers over state that a third one made, hence three
requests (four for signup: a code sent, a wrong entry, a resend and a final signup; four for sessions: a
login, two that overlap, and one after them; four chat handlers: a join and three messages through a
history of one). A submission's columns are set or empty, which one value can tell; what they
say plays no part. In `classroom` one
teacher suffices, since requests check ownership once, before anything else. There are as many codes as
classes can exist, so whoever still draws has a free code left, and every other draw is taken; two
texts give notices that differ in one column or in both. `inputs` holds two modules that share no
variable, `FileUrls` and `AiAnswers`; to keep the product of their states away, a behaviour is of one of
them. Its environments are no public address, one without a path and one with a final slash, each with all
S3 settings, without the access keys, and without region and bucket too; and with all settings, one
with a path and one whose path is `assignments`. Its entries of a contribution have every combination of name,
score (junk, negative, half a point below either level, above 100) and roles (junk, one, too many with
repetitions and unknown ones), alone and in pairs. Two students and two classes are
needed for a move that concerns some of a group's members and for names shared across classes; three
names leave one to be taken away. Limits (`MaxAttempts`, `MaxFailed`, `MaxRequests`, `HistoryLimit`)
are the smallest values whose boundary can be approached, reached and passed. `MaxTime` bounds the
clock so that windows, expiries and cooldowns can all pass at least once. The theorems show
for most safety properties that the size of the instance does not matter.
Symmetry is declared over values that neither the specification nor a property singles out; the
liveness run uses none.

**Fairness.** `RequestsEnd` assumes weak fairness of each request's next step: the event loop
resumes a request whose awaited call has answered, and database and AI calls answer or fail (the
clients have timeouts). Nothing is assumed about requests beginning, about aborts, or about what the
AI answers: it may refuse forever, and the bounded retries make the request end anyway.
In `classroom`, `RequestsEnd` needs two assumptions: weak fairness of each request's steps other than
drawing again, for the same reason; and weak fairness of drawing a free code. The loop of
`generateUniqueClassCode` has no limit, and the code draws each time at random and independently of
what it drew before, so a request that goes on drawing while some code is free draws a free one with
probability one. A request that draws the same code for ever does not end, as the mutant
`CodeTakenForGood` shows. All other specifications are safety only.

### Disagreements the runs show

* `chat_shown`: only members are meant to enter a group's chat, but the membership is checked before
  the awaits of `chat.join`. In the run's trace the teacher is in the room, a student passes the check
  and is then removed from the group, enters the room all the same, and is shown by the history a
  message that the teacher sent and that was stored after the removal. `ShownToAudience` speaks of
  clients that were in no chat before and entered one their user had left by then, so that an honest
  member's entry, or a sender's own message, does not count. `LiveToAudience` (in `chat_rooms`) shows that live
  messages are not affected.
* `signup_mail`: the mail says its code can be entered within ten minutes; a wrong entry that
  overlaps a resend saves the row it had read and brings the old code back.
  `MailedCodeWorksAlone` shows that it takes an overlap.
* `submission_empty`: the documentation requires a file URL or a link. Two overlapping resubmissions,
  one with the file only and the other with the link only, each clear the other's column, because
  `save` writes what differs from a row it selects itself. `ExactAlone` shows that it takes an overlap.

Some disagreements need no run:

* `test/group.e2e-spec.ts:66` expects a new nickname when a student changes groups, while
  `ensureClassScopedNicknames` (`group.service.ts:492`) keeps the nickname a student has in the class,
  as `ImplementsBook` shows: the book only grows.
* `test/auth.e2e-spec.ts:52-61` signs up without a verification code and expects 201, and so do the
  other suites that need a user (`assignment.e2e-spec.ts:88`, `class.e2e-spec.ts:67`,
  `group-detail.e2e-spec.ts:73`, `group.e2e-spec.ts:73`, `notice.e2e-spec.ts:73`,
  `survey.e2e-spec.ts:68`, all in `test/`). The code refuses such a request: the DTO requires a
  `verificationCode` of six characters
  (`auth/signup/dto/signup.request.dto.ts`), and `signup` verifies it
  (`auth/signup/signup.service.ts:38`) before it creates the account. The model follows the code, and
  `VerifiedAccounts` is what these tests contradict.
* `.agents/product-overview.md:121` (at the root of the repository) names 'refresh token rotation'. A
  refresh does store and answer a new token, but the old one stays accepted: bcrypt compares the first
  72 bytes only, which all refresh tokens of a user share (`Compare` in `Sessions`).
* `.agents/product-overview.md:122` promises 'logout 시 refresh token 폐기' (revocation at logout). The
  logout deletes the row, but a refresh that is past its validation then inserts it again
  (`auth/login/refresh-token/refresh-token.service.ts:28`), and so does a login that overlaps.
  `LogoutFinal` shows that this takes a refresh or a login already about to store a token.

## Proofs

All theorems are about the specifications without the bounds of the instances: any sets of requests,
users, classes, sockets, names, and any limits that satisfy the `ASSUME` of the module (limits are
positive, `None` is not a request, each class has an owner, and the like).

| Theorem | Says | Inductive argument |
|---|---|---|
| `TypeCorrect` | `Spec => []TypeOK` (groups) | inductive as it stands |
| `Anonymity` | `[]MembersNicknamed` | `NicknamedInv`: a request past its nickname step adds only named participants; during the step those without a name are still to be drawn for or hold a drawn one. `MembersNicknamed` alone is not inductive, as it says nothing about members about to be added |
| `NicknamesUnique` | `[]UniqueNicknames` | `NamesInv`: a reserved name is in one row or in the batch of one request |
| `NicknameBookImplemented` | `Spec => Book!Spec` | from the same invariants, step by step |
| `NobodyLeftOut` | `HSpec => []NobodyStranded` | `StrandedInv`: whoever was released and is in no group is still on the list of the request that released them, or that request has failed; with `MovesInv`: a request releases nobody it is not about to add |
| `RemovalsOnlyAsked` | `RemovalsAsked` | `ListsInv`: the lists of a request stay within what it was asked for, whatever has happened to the rows since they were read |
| `NicknamesShown` | `[]StudentsSeeNicknames` | from `NicknamedInv` and `NamesInv`: with every member named, and names unique, no query falls back |
| `ViewsConsistent` | `[]ViewsAgree` | from `OneGroupEach` (a lemma: the unique key) and `ClassInv`: the participant and the student find the same row |
| `OwnClass` | `[]MembersOfClass` | `ClassInv`: the class of a group is the same in its row and in every request that works on it, also when it is inserted again |
| `AloneExact` | `HSpec => AloneIsExact` | `SoleInv`: who is under way and not in `shared` is the only one under way (`Record`), and at each step what it has still to add and remove is the `Difference` between its group and its wish; the lists themselves are within bounds by `ListsInv` |
| `ChatTypeCorrect`, `OneRoom` | `[]TypeOK`, `[]RoomIsCurrent` | `RoomIsCurrent` is inductive with the types |
| `LiveMessages` | `DSpec => LiveToAudience` | whoever is in the audience a delivery has read was recorded as entitled |
| `NoMessageMissed` | `[]NoGap` | `GapInv`: only a send past its insert has a stored message to deliver, a client that waits for its history is in the room of the group it asked for, and each delivered recent message is in what the client was shown or in the history read for it |
| `CallsBounded` | `Spec => CallsCountDown`, if the students are finitely many | `TodoInv`: who draws nicknames has some left to draw, and finitely many; by `ListsInv` the participants of a request are of one class, so there are no more of them than students, and each list is part of the one it was made from. A draw takes a participant off and gives back fewer attempts than it saves, a refusal costs one, a skipped call only helps |
| `AnswersAreOwn` | `[]AnswersOwnInput` | `CacheSound`: a cache entry was made from what its fingerprint says |
| `AiTypeCorrect` | `[]TypeOK` (AI advice) | with `CacheSound` and the history's type |
| `WindowHolds` | `[]WindowNeverExceeded` | `HistoryKeepsWindow`: what is kept was accepted, and every accepted request that still counts is kept. Then the list that is counted is the window that ends now, and a window that ends later holds nothing newer |
| `LimiterImplemented` | `Spec => ImplementsLimiter` | from the same invariant: `Recent` is the limiter's own window, at every moment |
| `WarningsAgree`, `ResponsesShaped` | `AiSpec => []WarningsConsistent`, `[]ResponsesWellFormed` | `AiInv`: whatever is answered is one of the four functions of some reply. For roles, `KnownHolds`: the known roles of a list, each once, whatever its length |
| `RosterAnalysed` | `AiSpec => []AnalysisOfRoster` | `SeenHolds`: a name has been seen exactly if an earlier entry has it; so an entry is kept exactly if it is the first of its name (`FirstIsKept`), and `Merged` finds that one or none |
| `IssuedAccepted` | `FileSpec => []IssuedUrlsAccepted` | `FileInv`: issued URLs are those of a key with a purpose and a safe name, under some environment, and the last judgement is that of `Accepted` under its own |
| `DownloadsFound` | `FileSpec => []DownloadsNameUploads` | `FileInv`: the path of what is stored begins with the assignments directory, and an answer is the key found in it |
| `SignupTypeCorrect` | `[]TypeOK` (signup) | with the rows that requests hold |
| `AccountsVerified` | `[]VerifiedAccounts` | `Issued`: the code of the row, of whoever is about to create the account and of the account were all stored |
| `MailedCodes`, `CodesConsumed` | `[]MailedCodeWorksAlone`, `[]SignupConsumes` | `Alone`: while it is quiet one request runs and finds at each step what it left (`Undisturbed`); between requests the row holds the code mailed last and has counted no more failures than wrong codes were entered since (`Settled`) |
| `GuessesLimited` | `[]AttemptsLimited` | `Counted`: while it is quiet the row has counted every wrong code, except between the entry of one and the end of its save, when the local row has (`CountedAt`); whoever is about to create an account found fewer than the limit |
| `SessionTypeCorrect`, `SubmissionTypeCorrect` | `[]TypeOK` | with the rows that requests hold |
| `LogoutIsFinal` | `[]LogoutFinal` | `Final`: with no row after the logout, no request is at a step that stores; without that a save of a row that is gone would break it |
| `NewestWorks` | `[]NewestWorksAlone` | `Alone`: while it is quiet one request runs, and what it holds agrees with the row, step by step (`Undisturbed`); between requests the row has the newest token's expiry (`Kept`) |
| `AnsweredStored` | `[]AnsweredIsStored` | `Stored`: whoever is about to answer an update saw a row which only a deletion removes, and then it is recorded as late |
| `SubmissionsExact` | `ExactAlone` | `Alone`: a request no other overlapped holds what it was asked for, and the columns it will not write are the same already |
| `ClassroomTypeCorrect` | `[]TypeOK` (classes, notices) | `RowsInv`: a request that works on a row has local variables of that kind of row, and rows have keys |
| `ToldCodes`, `ToldNotices` | `[]ToldCodesLeadHome`, `[]ToldNoticesShown` | `RowsInv`, `OverlapInv` (who works on a row of another is in `shared`, and nothing is told of their row), `TruthInv` (whatever is told is so, and an unshared request finds its notice as it read it). Alone the properties are not inductive: they say nothing about a save under way that would overwrite what was told |

Every safety property of the passing runs is a theorem. What the provers cannot reach stays with
TLC: the two liveness properties under fairness (`RequestsEnd` of the groups and of the classroom).
`CallsBounded` is the part of the first that is an invariant argument: with it, a request can only
fail to end if some awaited call never answers, which is what the fairness excludes.

Induction over data is done by the least counterexample. The library's induction theorems take a
predicate as a parameter, which the provers cannot instantiate; its well-foundedness of the order of
numbers has none (`WFMin`). From it `Least` gives the least number of a nonempty set, `UpTo` a claim
for every number up to `n` from one step to the next, with the set of numbers that satisfy it in place
of a predicate, and `Solution` that the recursive definition of a function over `0..n` has a value.
`KnownSteps` and `SeenAmong`'s lemmas then unfold the loops of `AiAnswers` once, and the rest of the
proofs are about sets of entries.

The invariants `Inv` of `AiProofs`, like those of the other modules, were first checked by TLC on the
instances of the runs. The hypotheses of the theorems are the named assumptions of the modules, and
`IsFiniteSet(Students)` in `CallsBounded`, without which a class of infinitely many students could ask
for infinitely many nicknames. `IssuedUrlsAccepted` and `DownloadsNameUploads` have their own
preconditions on the public address (`IsOrigin`, `BaseApart`), which the instance both meets and breaks.

## Not modelled, and why

Profile queries, the status list of a class's assignments and the lists of messages and surveys:
single reads that show rows of one table. Controllers, DTO validation, filters, interceptors,
guards, start-up: routing and formatting; an error a filter answers is a step `Abort` or `Fail`. The
wording of prompts and answers, and the requests to OpenAI and S3 themselves: the results are
nondeterministic inputs of the models that use them. Password hashing and access tokens: nothing they
do depends on the order of events. Migrations other than the constraints they establish: run once,
in a transaction, before the service starts.

Known exposures without a property, because no text of the repository promises otherwise
(the others are among the disagreements above):

* Groups: after a failed `addMembers`, released students are in no group.
* Chat: live messages may reach clients in another order than the history gives them, and a message can
  arrive both ways; a message whose audience query fails is stored though the sender gets an error;
  `createGroup` does not sync the room of the group a student is moved from (the next message there
  does).
* AI: caches and request histories are never emptied; a fallback is cached like an answer and served
  until it expires or the messages change; an intervention's `needed`, `type` and `message` are each taken
  as the AI says and need not fit together.
* Sessions: the deletion of a row found expired is by user id and may remove the one a login has just stored.
* Submissions: a student removed from a group during a submission still submits.
* Classes: of two overlapping regenerations both are answered, and one of the codes is dead. Notices:
  two overlapping updates can leave the title of one and the content of the other; an update that
  overlaps a deletion can insert the notice again, or be answered for a row that is gone.
* Files: with a public address whose path begins with a directory `assignments`, uploads for other
  purposes can be submitted too, and the key a download finds is not the one they were uploaded
  under (`BaseApart` excludes it; the proof attempt found it); with a public address that has a path or a second slash at its end, the URLs
  that uploads are answered are refused when they are submitted, and so they are with blanks around
  it, which `storage/storage.service.ts:179` keeps and `assignment/assignment.service.ts:211` trims
  (the model's addresses have none); a stored URL with a malformed escape
  makes the download an internal error; the status list offers a download path also for submissions
  that are a link only (`assignment/assignment.service.ts:154`), which then answers 404;
  `docs/file-upload-flow.md` has step 7 get the stored URL back, where the code answers that path.

## Order of the work

Groups with their abstract nickname book, chat, AI advice, signup, sessions, submissions, classes
and notices, queries, files, answers of the AI; then the abstract limiter, the proofs about the AI and
the files, and the bound on the calls of a request. What is left is worth doing in this order:

1. An abstract specification of a session that ends with the logout, implemented by `Sessions` up to
   the race named above.
2. The data migration of nicknames to class scope, as a function checked over small tables.
