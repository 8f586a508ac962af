\* A user request (reprocess, delete, mapping, staging clean) at any point of the
\* work of two workers, one import being received in a transaction; no faults.
SPECIFICATION Spec
CONSTANTS
  w1 = w1  w2 = w2  c1 = c1  i1 = i1  i2 = i2  r1 = r1  r2 = r2  r3 = r3
  s1 = s1  s2 = s2  k1 = k1  k2 = k2  k3 = k3
  Worker = {w1, w2}
  Container = {c1}
  Import = {i1, i2}
  Record = {r1, r2, r3}
  Shape = {s1, s2}
  Key = {k1, k2, k3}
  NullKey = {}
  containerOf <- OneContainer
  importOf <- TwoImports
  shapeOf <- TwoShapes
  keyOf <- OwnKeys
  rankOf <- OwnKeys
  produces <- NodesAndOneEdge
  endpoints <- EdgeOfR2
  Preloaded = {i1}
  TxImport = {i2}
  MaxImportRetries = 1
  MaxFaults = 0
  MaxRequests = 1
INVARIANTS
  MarkedHasRow
CHECK_DEADLOCK FALSE
