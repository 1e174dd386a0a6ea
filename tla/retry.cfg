SPECIFICATION Spec
CONSTANTS
  c1 = c1  c2 = c2
  Call = {c1, c2}
  MaxRetries = 3
INVARIANTS TypeOK AtMostOnce RetriesCarryBody
PROPERTIES Returns ImplementsRemoteCall
CHECK_DEADLOCK FALSE
