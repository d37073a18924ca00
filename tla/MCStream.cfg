SPECIFICATION FairSpec
CONSTANTS
  Setups <- MCSetups
  Cap = 6
  BufSize = 4
  File = 4
  Slots = 2
  INT = 16
INVARIANTS TypeOK SenderInStep NoByteLost ClosedByPeer FdsInOrder
PROPERTIES BothEnd
CHECK_DEADLOCK FALSE
