SPECIFICATION Spec
CONSTANTS
  m1 = m1
  m2 = m2
  m3 = m3
  Msg = {m1, m2, m3}
  Size <- MCSize
  HDR = 4
  ALIGN = 2
  WORD = 256
  MaxLen = 20
INVARIANTS TypeOK WellFormed HoldsWhatCame
PROPERTIES ImplementsQueue
CHECK_DEADLOCK FALSE
