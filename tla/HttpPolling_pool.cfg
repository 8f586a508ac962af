\* Two sources are polled by one thread, over a pool of two clients.
SPECIFICATION Spec
CONSTANTS
  v1 = v1  v2 = v2  s1 = s1  s2 = s2
  Server = {v1}
  Source = {s1, s2}
  PoolSize = 2
  Answers = {{"rest"}}
  MaxImports = 1
  MaxFaults = 1
INVARIANTS
  NoClientLost
PROPERTIES
  RunsEnd
CHECK_DEADLOCK FALSE
