SPECIFICATION Spec
CONSTANTS
  Requests = {r1, r2, r3}
  Users = {u1, u2}
  Inputs = {i1, i2}
  Shared = shared
  CacheKeys = {shared}
  CacheKey <- OneKey
  Window = 2
  MaxRequests = 2
  TTL = 2
  MaxTime = 5
  None = None
SYMMETRY Interchangeable
INVARIANTS TypeOK WindowNeverExceeded AnswersOwnInput
PROPERTIES ImplementsLimiter
CHECK_DEADLOCK FALSE
