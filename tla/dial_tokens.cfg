SPECIFICATION FairSpec
CONSTANTS
  None = None
  Leases = {l1}
  Clients = {c1, c2}
  e1 = e1
  e2 = e2
  r1 = r1
  r2 = r2
  Exporters = {e1, e2}
  Routers = {r1, r2}
  Labels <- LabelsOfTwo
  Dials = {d1, d2}
  Listens = {s1, s2}
  Capacity = 1
INVARIANTS
  TokenOnce
  DeliveredToHolder
  RouterFits
PROPERTY TokenServed
CHECK_DEADLOCK FALSE
