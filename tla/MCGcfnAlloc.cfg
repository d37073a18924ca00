SPECIFICATION AllocSpec
CONSTANTS
  Sock = {s1, s2}
  Fn = {g1, g2, g3}
  NULL = NULL
  DONE = DONE
  ForeignDel = FALSE
SYMMETRY Symm
INVARIANTS AllocTypeOK NoFreedPointer
CHECK_DEADLOCK FALSE
