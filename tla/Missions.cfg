CONSTANTS
  Mission = {m1}
  Call = {c1, c2, c3}
  Minion = {s1, s2}
  Agent = Agent
  None = None
SPECIFICATION Spec
SYMMETRY Sym
INVARIANTS TypeOK FirstWordStands Unforgotten
PROPERTIES KilledAtEnd CancelReaches CancelledStays
CHECK_DEADLOCK FALSE
