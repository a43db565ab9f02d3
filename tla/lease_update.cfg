SPECIFICATION FairSpec
CONSTANTS
  None = None
  Second = 2
  Exporters <- OneExporter
  Clients = {c1}
  Leases = {l1}
  Selectors <- ConvertibleOrNot
  Texts <- BoardTexts
  ExporterLabels <- BoardLabels
  PolicySets <- Unrestricted
  Asks <- EveryAsk
  LegacyDurations <- OneUnit
  Flaky = {}
  Deletable = {}
  Removable = {}
  Resyncs = TRUE
  MaxTime = 3
  MaxOps = 2
  MaxPatches = 2
  MaxFaults = 1
INVARIANTS
  NoLostWakeup
  StatusCoherent
PROPERTIES
  StatusFinal
  ReleaseKept
  AssignedWhenWanted
  WindowFollows
  ReleaseHonoured
  ExpiryHonoured
CHECK_DEADLOCK FALSE
