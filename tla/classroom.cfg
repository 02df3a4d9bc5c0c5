SPECIFICATION FairSpec
CONSTANTS
  Requests = {r1, r2, r3}
  Teachers = {t1}
  Students = {s}
  Codes = {k1, k2, k3, k4}
  Texts = {a, b}
  Old = old
  OldTeacher = t1
  OldCode = k1
  OldText = a
  OldClasses <- OneClass
  OldNotices <- OneNotice
  None = None
INVARIANTS TypeOK ToldCodesLeadHome ToldNoticesShown
PROPERTIES RequestsEnd
CHECK_DEADLOCK FALSE
