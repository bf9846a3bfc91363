CONSTANTS
  Wing = {wa, wb}
  Reader = {r}
  Node = {n1}
  Nobody = Nobody
  Elsewhere = Elsewhere
  MaxCommit = 2
  MaxAttempts = 2
  Settings <- OneRead
SPECIFICATION Spec
INVARIANTS ClaimsKept
CHECK_DEADLOCK FALSE
