SPECIFICATION Spec
CONSTANTS
  a = a
  b = b
  o1 = o1
  o2 = o2
  Nil = Nil
  Conns = {a, b}
  FloorIDs = {"f1", "f2"}
  Cells = {o1, o2}
  UserOf <- TwoUsers
  IdSpace = 1
  Decisions = {TRUE}
  AppOps = {}
  Messages = {"Hello", "FloorRequest", "FloorRelease", "FloorQuery", "Goodbye"}
SYMMETRY CellSymmetry
INVARIANTS GrantedIsHolder CallbacksMatchFloors GoodbyeFreesFloors
