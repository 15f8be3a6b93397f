SPECIFICATION Spec
CONSTANTS
  a = a
  b = b
  None = None
  Clients = {a, b}
  FloorIDs = {"f1", "f2"}
  UserOf <- TwoUsers
  MaxCalls = 3
  Setups <- SafetySetups
INVARIANTS TypeOK GrantsAreReal HasFloorIsHolder
PROPERTIES ImplementsFloorControl
CHECK_DEADLOCK FALSE
