SPECIFICATION Spec
CONSTANTS
  l1 = l1
  l2 = l2
  Links <- MCLinks
  Six = {l1}
  Nil = Nil
  Setups <- MCSetups
  Group = {g1}
  Source = {x1, x2}
  Addr = {a1, a2}
  ANY = ANY
  MaxChanges = 4
SYMMETRY Symm
INVARIANTS NeverCrashes
CHECK_DEADLOCK FALSE
