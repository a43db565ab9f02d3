SPECIFICATION FairSpec
CONSTANTS
  None = None
  Specs <- TwoSpecs
  MaxReplicas = 2
  MaxEndpoints = 2
  RouteAvailable = FALSE
  IngressAvailable = TRUE
  Lagging = {"RouterSecret"}
  Removable = {"Ingress"}
  Pods <- ControllerPod
  Batches <- OneBatch
  MaxChanges = 1
  MaxFaults = 1
INVARIANT
  KeysAgree
PROPERTIES
  KeysKept
  Converges
  Idempotent
  PodsRun
CHECK_DEADLOCK FALSE
