SPECIFICATION FairSpec
CONSTANTS
  Sock = {s1, s2}
  Fn = {g1, g2, g3}
  NULL = NULL
  DONE = DONE
  ForeignDel = FALSE
INVARIANTS TypeOK NoStalePointer ListsIntact SavedNextIsCurrent AllCalledAtEnd
PROPERTIES CalledOnceNewestFirst DoneOnlyCalls EventuallyCalled ImplementsStack
CHECK_DEADLOCK FALSE
