SPECIFICATION FairSpec
CONSTANTS
  Sock = {s1, s2}
  Fn = {g1, g2}
  NULL = NULL
  DONE = DONE
  ForeignDel = FALSE
  Fd = {3, 4}
  NoFd = NoFd
  Setups <- MCSetups
INVARIANTS TypeOK NoLeak OneInCharge CloseHitsOwn ClosedIsDone NoneStranded
PROPERTIES TeardownAfterUdfs TeardownCompletes
CHECK_DEADLOCK FALSE
