\* Two exports of a container and two runs, of requests and of the job, with
\* pools that the clients left behind can use up.
SPECIFICATION Spec
CONSTANTS
  e1 = e1  e2 = e2  n1 = n1  n2 = n2
  Export = {e1, e2}
  Run = {n1, n2}
  PoolSize = 3
  MaxRequests = 2
  MaxFaults = 1
INVARIANTS
  TypeOK
  LeftOpenLocksNothing
PROPERTIES
  StopEnds
CHECK_DEADLOCK FALSE
