\* Two servers poll one source; a statement may fail, threads may end anywhere.
SPECIFICATION Spec
CONSTANTS
  v1 = v1  v2 = v2  s1 = s1  s2 = s2
  Server = {v1, v2}
  Source = {s1}
  PoolSize = 2
  Answers = {{"full"}, {"rest"}, {"full", "rest"}}
  MaxImports = 2
  MaxFaults = 1
INVARIANTS
  TypeOK
  PollIsAtomic
CHECK_DEADLOCK FALSE
