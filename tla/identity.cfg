SPECIFICATION FairSpec
CONSTANTS
  None = None
  Names <- OneClient
  Users = {u1, u2}
  NormalName <- SameName
  Requests <- SomeRequests
  ConfigMaps <- SomeConfigMaps
  Callers = {p1}
  Migrates = TRUE
  Orphans = FALSE
  MaxUids = 2
  MaxKeys = 2
  MaxYears = 1
  MaxChanges = 1
  MaxFaults = 1
INVARIANTS
  LetInRightly
  RefusedRightly
PROPERTY
  CredentialsConverge
CHECK_DEADLOCK FALSE
