SPECIFICATION FairSpec
CONSTANTS
  c1 = c1
  Conns = {c1}
  MaxEdits = 4
INVARIANTS
  TypeOK
  InstalledPairMatches
  NotHalfApplied
  ReloadTakesEffect
PROPERTIES
  LastHupWins
