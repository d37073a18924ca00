SPECIFICATION Spec
CONSTANTS
  Header = {h1, h2}
  Addr = {a1, a2}
  Iov = {v1, v2}
  Ctl = {c1, c2}
  NULL = NULL
SYMMETRY Symm
INVARIANTS TypeOK NameAndControlAlive NameAndControlAsSet
