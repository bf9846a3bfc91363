CONSTANTS
  a = a
  b = b
  Caller = {a, b}
  Programs <- OnlyPolled
  Edit = {e1}
  MaxCommit = 4
  MaxAttempts = 1
  Mishaps = {}
SPECIFICATION Spec
SYMMETRY Sym
INVARIANTS HeadBack
CHECK_DEADLOCK FALSE
