\* Four requests of any kind for one transformation, in any order.
SPECIFICATION Spec
CONSTANTS
  r1 = r1  r2 = r2  r3 = r3  r4 = r4
  Gone = Gone
  Req = {r1, r2, r3, r4}
SYMMETRY Alike
INVARIANTS
  TypeOK
  SaveIsSeen
PROPERTIES
  EditsKept
CHECK_DEADLOCK FALSE
