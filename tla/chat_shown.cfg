SPECIFICATION ESpec
CONSTANTS
  Tasks = {t1, t2, t3}
  Teacher = teacher
  Desk = desk
  Sockets = {s1, desk}
  Users = {teacher, s1}
  UserOf <- Handshakes
  Groups = {g}
  HistoryLimit = 1
  None = None
SYMMETRY Interchangeable
INVARIANTS ShownToAudience
CHECK_DEADLOCK FALSE
