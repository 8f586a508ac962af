\* One version beside the first: requests and the statements of a clone or of an
\* import in any order, edits, two statements or servers that fail.
SPECIFICATION Spec
CONSTANTS
  t1 = t1  t2 = t2  m1 = m1
  MaxVersions = 2
  Type = {t1}
  Mapping = {m1}
  MaxRequests = 4
  MaxFaults = 2
INVARIANTS
  TypeOK
  KeysHaveTypes
PROPERTIES
  PublishedNotDeleted
  GenerationEnds
CHECK_DEADLOCK FALSE
