SPECIFICATION Spec
CONSTANTS
  Files <- SmallFiles
  Envs <- SmallEnvs
INVARIANTS
  TypeOK
  SoundToRunOn
  NamesReachTheirRoute
  EnvironmentWins
  NoSilentDrift
