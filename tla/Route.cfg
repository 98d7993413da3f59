SPECIFICATION FairSpec
CONSTANTS
  c1 = c1
  c2 = c2
  c3 = c3
  Conns = {c1, c2}
INVARIANTS
  TypeOK
  BooksBalance
  GaugesMatchReality
  RetriesExplained
  StuckAtMost
PROPERTIES
  Settles
