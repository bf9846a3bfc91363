CONSTANTS
  a = a
  b = b
  Caller = {a, b}
  Programs <- OnlyTwice
  Edit = {e1}
  MaxCommit = 4
  MaxAttempts = 1
  Mishaps = {}
SPECIFICATION Spec
SYMMETRY Sym
INVARIANTS Landed
CHECK_DEADLOCK FALSE
