SPECIFICATION Spec
CONSTANTS
  Threads = {t1, t2, t3}
  Methods <- CalledMethods
  Classes <- TwoClasses
  ClassOf <- MethodClass
  Unset = Unset
INVARIANTS
  ClassIsStored
  OneReferenceIsKept
  NoExceptionEscapes
PROPERTIES
  ImplementsOnceCells
  CallsEnd
CHECK_DEADLOCK FALSE
