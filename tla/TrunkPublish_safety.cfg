CONSTANTS
  a = a
  b = b
  c = c
  Wing = {a, b}
  MaxCommit = 4
  MaxAttempts = 2
  Mishaps = {"remote", "outside", "failure", "restart"}
  Ops <- AllOps
SPECIFICATION Spec
SYMMETRY Sym
INVARIANTS TypeOK LocalNeverAhead OneFetch QueuesServe NobodyStranded
PROPERTIES ImplementsLedger CallsBounded NeverOvertaken
