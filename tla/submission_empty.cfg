SPECIFICATION Spec
CONSTANTS
  Requests = {r1, r2, r3}
  Groups = {g}
  Students = {s1, s2}
  Values = {v}
  None = None
SYMMETRY Interchangeable
INVARIANTS SomethingSubmitted
CHECK_DEADLOCK FALSE
