SPECIFICATION Spec
CONSTANTS
  Requests = {r1, r2, r3, r4}
  Expiration = 2
  Cooldown = 1
  MaxFailed = 2
  MaxTime = 3
  None = None
SYMMETRY Interchangeable
INVARIANT MailedCodeWorks
CHECK_DEADLOCK FALSE
