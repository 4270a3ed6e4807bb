CONSTANTS
  j1 = j1
  r1 = r1
  Jobs = {j1}
  Reqs = {r1}
  Ops <- Reopeners
  Patches <- BoardPatches
  HistoryBound = 4
SPECIFICATION Spec
PROPERTIES ReopenClearsStamps
