SPECIFICATION DSpec
CONSTANTS
  Tasks = {t1, t2, t3, t4}
  Teacher = teacher
  Desk = desk
  Sockets = {s1}
  Users = {teacher, s1}
  UserOf <- Handshakes
  Groups = {g, h}
  HistoryLimit = 1
  None = None
SYMMETRY Interchangeable
INVARIANTS TypeOK RoomIsCurrent NoGap
PROPERTIES LiveToAudience
CHECK_DEADLOCK FALSE
