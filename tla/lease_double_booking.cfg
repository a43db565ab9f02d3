SPECIFICATION Spec
CONSTANTS
  None = None
  Second = 1
  Exporters <- OneExporter
  Clients = {c1}
  Leases = {l1, l2}
  Selectors <- SelectsAll
  Texts <- BoardTexts
  ExporterLabels <- BoardLabels
  PolicySets <- Unrestricted
  Asks <- NoAsks
  LegacyDurations <- OneUnit
  Flaky = {}
  Deletable = {}
  Removable = {}
  Resyncs = FALSE
  MaxTime = 0
  MaxOps = 0
  MaxPatches = 0
  MaxFaults = 0
INVARIANT ExclusiveExporter
CHECK_DEADLOCK FALSE
