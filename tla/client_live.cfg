SPECIFICATION FairSpec
CONSTANTS
  me = me
  other = other
  t1 = t1
  t2 = t2
  Nil = Nil
  None = None
  Threads = {t1, t2}
  FloorIDs = {"f1"}
  ReqIDs = {0, 1}
  MaxInbox = 2
  Conns = {me, other}
  Me = me
  Cells = {"o1"}
  UserOf <- TwoUsers
  IdSpace = 2
  Decisions = {TRUE, FALSE}
  AppOps = {}
  Messages = {"Hello", "FloorRequest", "FloorRelease", "FloorQuery", "Goodbye"}
  Setups <- LiveSetups
CHECK_DEADLOCK FALSE
PROPERTIES CallsReturn LossIsNoticed
