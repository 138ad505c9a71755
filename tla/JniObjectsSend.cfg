SPECIFICATION Spec
CONSTANTS
  Threads = {t1, t2}
  Objs <- SendObjs
  Kind <- SendKind
  Parent <- SendParent
  NoObj = NoObj
  MaxCreated = 3
SYMMETRY ThreadSymmetry
INVARIANTS
  UsesAreLive
  ChildrenEndWithTransport
  ChildrenEndOnce
CHECK_DEADLOCK FALSE
