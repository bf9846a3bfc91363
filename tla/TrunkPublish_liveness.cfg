CONSTANTS
  a = a
  b = b
  c = c
  Wing = {a, b}
  MaxCommit = 4
  MaxAttempts = 2
  Mishaps = {"remote", "failure"}
  Ops <- MergeOps
SPECIFICATION FairSpec
PROPERTIES CallsReturn
