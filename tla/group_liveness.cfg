SPECIFICATION FairSpec
CONSTANTS
  Requests = {r1, r2, r3}
  Teacher = t
  Users = {t}
  Classes = {c}
  Owner <- OneTeacher
  Students = {s1}
  Names = {n1, n2}
  MaxAttempts = 2
  None = None
PROPERTIES RequestsEnd
CHECK_DEADLOCK FALSE
