SPECIFICATION Spec
CONSTANTS
  Requests = {r1, r2, r3, r4}
  User = user
  Lifetime = 2
  MaxTime = 3
  None = None
SYMMETRY Interchangeable
INVARIANTS TypeOK LogoutFinal NewestWorksAlone
CHECK_DEADLOCK FALSE
