\* Two sources are polled by one thread, over one pool of clients.
SPECIFICATION Spec
CONSTANTS
  v1 = v1  v2 = v2  s1 = s1  s2 = s2
  Server = {v1}
  Source = {s1, s2}
  PoolSize = 3
  Answers = {{"full", "rest"}}
  MaxImports = 1
  MaxFaults = 1
INVARIANTS
  PollIsAtomic
CHECK_DEADLOCK FALSE
