------------------------------ MODULE FileUrls ------------------------------
(***************************************************************************)
(* The address of a submitted file on its way through the system:          *)
(* storage.service.ts makes a key and a URL for an upload,                 *)
(* assignment.service.ts judges the URL when it is submitted, and          *)
(* storage.service.ts finds the key in it again when the file is           *)
(* downloaded, each with the environment of that moment.                   *)
(*                                                                         *)
(* A URL is a host and the segments of its path: directories, of which the *)
(* one after a final slash is empty, and the file.  Dates are left out.    *)
(***************************************************************************)
EXTENDS Naturals, FiniteSets, SequencesExt

CONSTANTS
  Configs,      \* the environments the server may be started with
  ForeignUrls,  \* URLs that no upload was given
  MaxUploads,   \* bound on the uploads
  Absent

VARIABLES
  config,       \* the environment of the running server
  issued,       \* auxiliary: the uploads, with their URLs and what they were issued under
  stored,       \* assignment_submissions.fileUrl of a group: a URL or Absent
  answers,      \* auxiliary: what downloads of stored URLs were answered
  judged        \* auxiliary: what submitAssignment last said of a URL, and under which environment

fileVars == <<config, issued, stored, answers, judged>>

Purposes == {"assignments", "images", "general"}

\* What a file is called: with safe characters only, with others, or not at all.
FileNames == {"safe", "unsafe", "blank"}

Dir(name) == [dir |-> name]
Slash == Dir("")

\* base is AWS_S3_PUBLIC_BASE_URL or Absent, bucket the host of the bucket, located whether AWS_REGION and
\* AWS_S3_BUCKET are set, complete whether the two access keys are as well.
ASSUME FileAssumption ==
  /\ \A c \in Configs : /\ c.located \in BOOLEAN /\ c.complete \in BOOLEAN
                        /\ c.complete => c.located
                        /\ c.base # Absent => c.base.path \in Seq([dir : STRING])
  /\ MaxUploads \in Nat
  /\ Absent \notin ForeignUrls

FileInit ==
  /\ config \in Configs
  /\ issued = {}
  /\ stored = Absent
  /\ answers = {}
  /\ judged = Absent
-----------------------------------------------------------------------------
(* storage.service.ts *)

\* Mutant: a name goes into the key as it is.
NameKept(name) == name
\* normalizeFileName: slashes and all but a few characters become dashes.
SafeName(name) == "safe"

\* createObjectKey: the purpose, and a name made unique by user, time and a random number.
ObjectKey(purpose, name, n) == <<Dir(purpose), [upload |-> n, name |-> SafeName(name)]>>

\* replace(/\/$/, '')
WithoutSlash(path) == IF path # <<>> /\ Last(path) = Slash THEN Front(path) ELSE path

\* createFileUrl, under environment c
FileUrl(key, c) ==
  IF c.base = Absent THEN [host |-> c.bucket, path |-> key]
  ELSE [host |-> c.base.host, path |-> WithoutSlash(c.base.path) \o key]

\* A URL reads a segment as it was written if its characters are safe: others are escapes, or end the path.
Decoded(segment) ==
  IF "name" \in DOMAIN segment /\ segment.name # "safe" THEN [segment EXCEPT !.name = "garbled"] ELSE segment

\* Where a path begins behind its leading slashes; 0 if there is nothing else.
Beginning(path) == SelectInSeq(path, LAMBDA segment : segment # Slash)

\* extractObjectKey: the path without the slashes it begins with, if it is an assignment's.
ExtractedKey(url) ==
  LET first == Beginning(url.path)
      key   == [i \in 1..(Len(url.path) - first + 1) |-> Decoded(url.path[first + i - 1])]
  IN  IF first # 0 /\ Len(key) > 1 /\ key[1] = Dir("assignments") THEN key ELSE Absent

\* createPresignedUploadUrl
IssueUpload(purpose, name) ==
  LET key == ObjectKey(purpose, name, Cardinality(issued))
  IN  /\ Cardinality(issued) < MaxUploads
      /\ config.complete
      /\ name # "blank"
      /\ issued' = issued \cup {[key |-> key, url |-> FileUrl(key, config), under |-> config]}
      /\ UNCHANGED <<config, stored, answers, judged>>
-----------------------------------------------------------------------------
(* assignment.service.ts *)

\* Mutant: with a public base, URLs of the bucket are not taken any more.
PrefixesBaseOnly(c) ==
  IF c.base # Absent THEN {[host |-> c.base.host, path |-> WithoutSlash(c.base.path)]}
  ELSE IF c.located THEN {[host |-> c.bucket, path |-> <<>>]} ELSE {}
\* getAllowedAssignmentFileUrlPrefixes, under environment c
AllowedPrefixes(c) ==
  (IF c.base = Absent THEN {}
   ELSE {[host |-> c.base.host, path |-> WithoutSlash(c.base.path)]})
  \cup (IF c.located THEN {[host |-> c.bucket, path |-> <<>>]} ELSE {})

StartsWith(url, prefix) == url.host = prefix.host /\ IsStrictPrefix(prefix.path, url.path)

\* validateAssignmentFileUrl, under environment c
Accepted(url, c) ==
  /\ AllowedPrefixes(c) # {} => \E prefix \in AllowedPrefixes(c) : StartsWith(url, prefix)
  /\ Len(url.path) > 1 /\ url.path[1] = Dir("assignments")

\* submitAssignment with a file.
SubmitFile(url) ==
  /\ stored' = IF Accepted(url, config) THEN url ELSE stored
  /\ judged' = [url |-> url, accepted |-> Accepted(url, config), under |-> config]
  /\ UNCHANGED <<config, issued, answers>>

\* submitAssignment with a link only.
SubmitLink ==
  /\ stored' = Absent
  /\ UNCHANGED <<config, issued, answers, judged>>

\* getSubmissionDownloadUrl: the address that is signed is of the key found in the URL.
Download ==
  /\ stored # Absent
  /\ ExtractedKey(stored) # Absent => config.complete
  /\ answers' = answers \cup {[url |-> stored, key |-> ExtractedKey(stored)]}
  /\ UNCHANGED <<config, issued, stored, judged>>

\* The server is started again, maybe with another environment.
Redeploy(c) ==
  /\ config' = c
  /\ UNCHANGED <<issued, stored, answers, judged>>

FileNext ==
  \/ \E purpose \in Purposes, name \in FileNames : IssueUpload(purpose, name)
  \/ \E url \in {i.url : i \in issued} \cup ForeignUrls : SubmitFile(url)
  \/ SubmitLink \/ Download
  \/ \E c \in Configs : Redeploy(c)

FileSpec == FileInit /\ [][FileNext]_fileVars
-----------------------------------------------------------------------------
(* Properties *)

\* A base that is an address without a path, with or without a final slash, as .env.example has it.
IsOrigin(c) == c.base # Absent => WithoutSlash(c.base.path) = <<>>

\* docs/file-upload-flow.md: the URL of an upload can be submitted if it was issued for assignments,
\* and only then; also when a public address has been configured since.  The two services derive the
\* same prefix from the environment, each on its own.
IssuedUrlsAccepted ==
  judged # Absent => \A i \in issued : i.url = judged.url /\ IsOrigin(i.under) =>
    /\ judged.accepted => i.key[1] = Dir("assignments")
    /\ /\ i.key[1] = Dir("assignments")
       /\ \/ i.under = judged.under
          \/ i.under.base = Absent /\ i.under.bucket = judged.under.bucket /\ judged.under.located
       => judged.accepted

\* A base whose path does not itself begin with the directory that marks an assignment's key.
BaseApart(c) == c.base # Absent /\ c.base.path # <<>> => c.base.path[1] # Dir("assignments")

\* A file that was submitted is found again: its download is signed for the key it was uploaded under,
\* and never refused, with whatever public address the server has been started since.
DownloadsNameUploads ==
  \A a \in answers : \A i \in issued : i.url = a.url /\ BaseApart(i.under) => a.key = i.key
=============================================================================
