SPECIFICATION Spec
CONSTANTS
  c1 = c1
  Conns = {c1}
  MaxEdits = 3
INVARIANTS
  NoMixedConnection
