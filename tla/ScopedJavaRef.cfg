SPECIFICATION Spec
CONSTANTS
  Threads = {t1, t2}
  Handles = {x1, x2, x3}
  Objects = {o1, o2}
  Refs = {r1, r2, r3, r4}
  NoRef = NoRef
  NoEnv = NoEnv
  Nil = Nil
  OutOfScope = OutOfScope
SYMMETRY Symmetry
INVARIANTS
  OneOwner
  LiveIffHeld
  OwnsItsKind
PROPERTY
  HandlesAreVariables
CHECK_DEADLOCK FALSE
