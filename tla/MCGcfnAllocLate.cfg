SPECIFICATION AllocSpec
CONSTANTS
  Sock = {s1, s2}
  Fn = {g1, g2, g3}
  NULL = NULL
  DONE = DONE
  ForeignDel = FALSE
SYMMETRY Symm
INVARIANTS NoneForgotten
CHECK_DEADLOCK FALSE
