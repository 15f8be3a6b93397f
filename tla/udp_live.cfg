SPECIFICATION FairSpec
CONSTANTS
  a = a
  b = b
  None = None
  Clients = {a, b}
  FloorIDs = {"f1"}
  UserOf <- TwoUsers
  MaxCalls = 2
  Setups <- LiveSetups
PROPERTIES CallsReturn ImplementsFloorControl
CHECK_DEADLOCK FALSE
