SPECIFICATION FairSpec
CONSTANTS
  None = None
  Specs <- ScaledSpecs
  MaxReplicas = 3
  MaxEndpoints = 1
  RouteAvailable = FALSE
  IngressAvailable = FALSE
  Lagging = {}
  Removable = {}
  Pods = {}
  Batches <- OneBatch
  MaxChanges = 1
  MaxFaults = 1
PROPERTY
  ExcessRemoved
CHECK_DEADLOCK FALSE
