CONSTANTS
  j1 = j1
  r1 = r1
  r2 = r2
  Jobs = {j1}
  Reqs = {r1, r2}
  Ops <- Stampers
  Patches <- NoPatches
  HistoryBound = 4
SPECIFICATION Spec
SYMMETRY Symmetry
INVARIANTS ReadyIsCompleted ClosedOrArchivedIsInvoiced RecordedMovesAreLegal
