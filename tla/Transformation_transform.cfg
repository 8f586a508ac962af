\* Every record with up to two elements at two levels, under every choice of
\* root array, conditions and error actions.  A record is done after its last
\* transformation, so the system stops.
SPECIFICATION Spec
CONSTANTS
  Values <- AllValues
  Payloads <- Records
  Mappings <- AllMappings
INVARIANTS
  TypeOK
  OnePerElement
  OwnElement
  RequiredPresent
CHECK_DEADLOCK FALSE
