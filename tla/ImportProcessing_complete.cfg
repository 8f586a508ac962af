\* Both imports are staged, nothing fails and nobody interferes: what the job and
\* two workers of the container promise, retries included.
SPECIFICATION FairSpec
CONSTANTS
  w1 = w1  w2 = w2  c1 = c1  i1 = i1  i2 = i2  r1 = r1  r2 = r2  r3 = r3
  s1 = s1  s2 = s2  k1 = k1  k2 = k2  k3 = k3
  Worker = {w1, w2}
  Container = {c1}
  Import = {i1, i2}
  Record = {r1, r2, r3}
  Shape = {s1, s2}
  Key = {k1, k2, k3}
  NullKey = {k2}
  containerOf <- OneContainer
  importOf <- TwoImports
  shapeOf <- TwoShapes
  keyOf <- OwnKeys
  rankOf <- OwnKeys
  produces <- NodesAndOneEdge
  endpoints <- EdgeAcross
  Preloaded = {i1, i2}
  TxImport = {}
  MaxImportRetries = 3
  MaxFaults = 0
  MaxRequests = 0
INVARIANTS
  NoDuplicates
  Complete
  TempEmptied
  AllTagged
  NoDanglingEdge
PROPERTIES
  NodesBeforeEdges
  EventuallyNode
CHECK_DEADLOCK FALSE
