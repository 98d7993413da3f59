SPECIFICATION Spec
CONSTANTS
  Files <- SmallFiles
  Envs <- SmallEnvs
PROPERTIES
  WarnedIsNotApplied
