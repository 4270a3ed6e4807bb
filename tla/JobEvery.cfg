CONSTANTS
  j1 = j1
  r1 = r1
  r2 = r2
  Jobs = {j1}
  Reqs = {r1, r2}
  Ops <- Movers
  Patches <- BoardPatches
  HistoryBound = 2
SPECIFICATION Spec
SYMMETRY Symmetry
INVARIANTS TypeOK TrailCoversStatus ArchivedWasClosed InspectionMeansCheckedIn
