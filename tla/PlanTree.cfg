CONSTANTS
  r = r
  s = s
  x = x
  Item = {r, s, x}
  FirstPlan <- MCFirstPlan
  Wing = {w1, w2}
  Lair = lair
  Null = null
  MaxEdits = 2
  MaxWaits = 1
  Ops = {"local", "across", "gone", "node", "leaf"}
SPECIFICATION Spec
SYMMETRY MCSymmetry
INVARIANTS TypeOK Forest ClaimStands Released
CHECK_DEADLOCK FALSE
