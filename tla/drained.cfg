SPECIFICATION Spec
CONSTANTS
  m1 = m1
  m2 = m2
  Message <- MCMessage
INVARIANT CloseDrains
CHECK_DEADLOCK FALSE
