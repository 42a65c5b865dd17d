CONSTANTS
  k1 = k1
  k2 = k2
  v1 = v1
  c1 = c1
  c2 = c2
  Keys <- MCKeys
  Clients <- MCClients
  Values = {v1}
  NoValue = NoValue
  TsoMayFail = TRUE
  WriteMayFail = TRUE
  RequestOps = {"put", "delete", "putIfAbsent", "cas"}
  MaxBatch = 1
SPECIFICATION Spec
INVARIANT WriteSeesPredecessor
SYMMETRY Symmetry
\* The engine takes no step of its own: once every client's call has
\* returned, the system is idle.
CHECK_DEADLOCK FALSE
