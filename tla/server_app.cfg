SPECIFICATION Spec
CONSTANTS
  a = a
  b = b
  o1 = o1
  o2 = o2
  Nil = Nil
  Conns = {a, b}
  FloorIDs = {"f1"}
  Cells = {o1, o2}
  UserOf <- NamelessUser
  IdSpace = 1
  Decisions = {TRUE}
  AppOps = {"Grant", "Deny", "Revoke", "Release", "ReleaseFloor"}
  Messages = {"FloorRequest", "FloorRelease"}
SYMMETRY CellSymmetry
INVARIANTS HeldIffOwned
PROPERTIES ImplementsFloorControl OnlyHolderGivesUp DeniedIsFinal
