CONSTANTS
  j1 = j1
  r1 = r1
  r2 = r2
  Jobs = {j1}
  Reqs = {r1, r2}
  Ops <- TwoTransitions
  Patches <- NoPatches
  HistoryBound = 3
SPECIFICATION Spec
SYMMETRY Symmetry
INVARIANTS TrailIsChain
CHECK_DEADLOCK FALSE
