SPECIFICATION FairSpec
CONSTANTS
  a = a
  b = b
  o1 = o1
  o2 = o2
  Nil = Nil
  Conns = {a, b}
  FloorIDs = {"f1"}
  Cells = {o1}
  UserOf <- TwoUsers
  IdSpace = 1
  Decisions = {TRUE, FALSE}
  AppOps = {"Close"}
  Messages = {"Hello", "FloorRequest", "Goodbye"}
CHECK_DEADLOCK FALSE
INVARIANTS SessionsAreLive
PROPERTIES RequestDecided GoodbyeCompletes CloseEndsSessions
