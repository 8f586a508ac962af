\* Two imports of one container, the second still being uploaded; a crash or a
\* failed statement may happen at any point.  r3 repeats the key of r1,
\* and its edge connects the nodes that r2's does.
SPECIFICATION Spec
CONSTANTS
  w1 = w1  w2 = w2  c1 = c1  i1 = i1  i2 = i2  r1 = r1  r2 = r2  r3 = r3
  s1 = s1  s2 = s2  k1 = k1  k2 = k2  k3 = k3
  Worker = {w1, w2}
  Container = {c1}
  Import = {i1, i2}
  Record = {r1, r2, r3}
  Shape = {s1, s2}
  Key = {k1, k2, k3}
  NullKey = {}
  containerOf <- OneContainer
  importOf <- TwoImports
  shapeOf <- TwoShapes
  keyOf <- EdgesRepeat
  rankOf <- OriginalIds
  produces <- NodesAndTwoEdges
  endpoints <- TwoEdges
  Preloaded = {i1}
  TxImport = {}
  MaxImportRetries = 2
  MaxFaults = 1
  MaxRequests = 0
INVARIANTS
  TypeOK
  OneWorkerPerContainer
  UniqueKeys
PROPERTIES
  GraphWrittenUnderLock
  ImplementsStore
CHECK_DEADLOCK FALSE
