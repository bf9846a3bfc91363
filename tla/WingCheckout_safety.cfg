CONSTANTS
  a = a
  b = b
  Caller = {a, b}
  Programs <- PolledOrCommitting
  Edit = {e1, e2}
  MaxCommit = 4
  MaxAttempts = 2
  Mishaps = {"remote", "failure", "restart"}
SPECIFICATION Spec
SYMMETRY Sym
INVARIANTS TypeOK WorkKept
PROPERTIES HeadComesBack ImplementsLedger
CHECK_DEADLOCK FALSE
