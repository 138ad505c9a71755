SPECIFICATION Spec
CONSTANTS
  Threads = {t1, t2}
  Objs <- AllObjs
  Kind <- AllKind
  Parent <- AllParent
  NoObj = NoObj
  MaxCreated = 2
INVARIANTS
  ListenersFollowObjects
  MediaCallbacksAreNamed
PROPERTIES
  CallsReturn
CHECK_DEADLOCK FALSE
