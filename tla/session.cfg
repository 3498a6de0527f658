CONSTANTS
  None = None
  Sessions = {s1, s2}
  Versions <- MCVersions
  Builds <- MCBuilds
  Modules <- MCModules
  MaxCalls = 4
SPECIFICATION Spec
INVARIANTS
  TypeOK
  SavedAsFresh
  LeftByOwnExports
