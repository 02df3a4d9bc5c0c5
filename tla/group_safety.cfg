SPECIFICATION HSpec
CONSTANTS
  Requests = {r1, r2, r3}
  Teacher = t
  Users = {t}
  Classes = {c1, c2}
  Owner <- OneTeacher
  Students = {s1, s2}
  Names = {n1, n2, n3}
  MaxAttempts = 2
  None = None
SYMMETRY Interchangeable
INVARIANTS TypeOK MembersNicknamed MembersOfClass UniqueNicknames StudentsSeeNicknames ViewsAgree NobodyStranded
PROPERTIES RemovalsAsked ImplementsBook AloneIsExact CallsCountDown
CHECK_DEADLOCK FALSE
