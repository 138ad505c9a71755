SPECIFICATION ResultSpec
CONSTANTS
  Threads = {t1}
  Handles <- StackAndMember
  Objects = {o1, o2}
  Refs = {r1, r2, r3, r4}
  NoRef = NoRef
  NoEnv = NoEnv
  Nil = Nil
  OutOfScope = OutOfScope
SYMMETRY Symmetry
INVARIANTS
  ReleasedIsLive
  FrameIsClean
  MembersAreLive
