\* A version cloned from the first while users edit it.
SPECIFICATION Spec
CONSTANTS
  t1 = t1  t2 = t2  m1 = m1
  MaxVersions = 2
  Type = {t1, t2}
  Mapping = {m1}
  MaxRequests = 3
  MaxFaults = 0
PROPERTIES
  CloneIsSnapshot
CHECK_DEADLOCK FALSE
