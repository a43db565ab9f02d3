SPECIFICATION FairSpec
CONSTANTS
  None = None
  Second = 2
  Exporters <- OneExporter
  Clients = {c1}
  Leases = {l1, l2}
  Selectors <- WrittenByClients
  Texts <- BoardTexts
  ExporterLabels <- BoardLabels
  PolicySets <- Unrestricted
  Asks <- OneAsk
  LegacyDurations <- NoLegacy
  Flaky = {}
  Deletable = {}
  Removable = {}
  Resyncs = FALSE
  MaxTime = 2
  MaxOps = 1
  MaxPatches = 1
  MaxFaults = 0
INVARIANTS
  TypeOK
  SelectorHonoured
PROPERTIES
  ImplementsLifecycle
  SecondBookingUnseen
  FreeExporterGranted
CHECK_DEADLOCK FALSE
