SPECIFICATION FairSpec
CONSTANTS
  Client = {c1, c2}
  Server = {v1, v2}
  Setups <- MCSetups
  Backlog = 1
  MaxFaults = 2
INVARIANTS TypeOK DownIsFailed
PROPERTIES UpIsConnected Settles
CHECK_DEADLOCK FALSE
