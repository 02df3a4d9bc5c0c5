SPECIFICATION Spec
CONSTANTS
  Configs <- MCConfigs
  ForeignUrls <- MCForeignUrls
  MaxUploads = 2
  Words = {Mina, Juno, Stranger}
  Rosters <- MCRosters
  MemberReplies <- MCMemberReplies
  Cdn = Cdn
  Bucket = Bucket
  Elsewhere = Elsewhere
  Mina = Mina
  Juno = Juno
  Stranger = Stranger
  Junk = Junk
  Null = Null
  Absent = Absent
INVARIANTS IssuedUrlsAccepted DownloadsNameUploads ResponsesWellFormed WarningsConsistent AnalysisOfRoster
CHECK_DEADLOCK FALSE
