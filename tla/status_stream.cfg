SPECIFICATION FairSpec
CONSTANTS
  None = None
  Leases = {l1, l2}
  Clients = {c1, c2}
  MaxEvents = 3
  MaxChanges = 3
INVARIANTS
  NoFalseAlarm
PROPERTIES
  ReportsCurrent
  DeletedExporterLeft
CHECK_DEADLOCK FALSE
