SPECIFICATION Spec
CONSTANTS
  None = None
  Second = 1
  Exporters <- TwoExporters
  Clients = {c1}
  Leases = {l1, l2}
  Selectors <- EverySelector
  Texts <- BoardTexts
  ExporterLabels <- BoardLabels
  PolicySets <- EveryPolicy
  Asks <- NoAsks
  LegacyDurations <- OneUnit
  Flaky = {1}
  Deletable = {2}
  Removable = {c1}
  Resyncs = FALSE
  MaxTime = 0
  MaxOps = 0
  MaxPatches = 0
  MaxFaults = 0
SYMMETRY Interchangeable
INVARIANTS
  NoLostWakeup
PROPERTIES
  DecisionJustified
CHECK_DEADLOCK FALSE
