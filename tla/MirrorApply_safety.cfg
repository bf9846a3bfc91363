CONSTANTS
  Wing = {wa, wb}
  Reader = {r}
  Node = {n1, n2}
  Nobody = Nobody
  Elsewhere = Elsewhere
  MaxCommit = 3
  MaxAttempts = 2
  Settings <- AllSettings
SPECIFICATION Spec
SYMMETRY Sym
INVARIANTS TypeOK OneApply FromScratch
PROPERTIES OnlyOwnNode ImplementsRegistry ImplementsLedger
