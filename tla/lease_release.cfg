SPECIFICATION FairSpec
CONSTANTS
  None = None
  Second = 2
  Exporters <- OneExporter
  Clients = {c1}
  Leases = {l1}
  Selectors <- ConvertibleOrNot
  Texts <- BoardTexts
  ExporterLabels <- BoardLabels
  PolicySets <- Unrestricted
  Asks <- NoAsks
  LegacyDurations <- OneUnit
  Flaky = {}
  Deletable = {}
  Removable = {}
  Resyncs = TRUE
  MaxTime = 0
  MaxOps = 1
  MaxPatches = 1
  MaxFaults = 0
PROPERTY ReleaseAlwaysHonoured
CHECK_DEADLOCK FALSE
