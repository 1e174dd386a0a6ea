SPECIFICATION Spec
CONSTANTS
  Message = {m1, m2, m3}
  Plan <- MCPlan
  Setting = {0, 1, 8}
  DefaultAuth = 1
  Budget = 6
  HTTPTimeout = 3
  MaxRetries = 3
  FirstBackoff = 1
SYMMETRY Messages
INVARIANTS TypeOK AnsweredInTurn
