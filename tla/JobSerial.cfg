CONSTANTS
  j1 = j1
  r1 = r1
  Jobs = {j1}
  Reqs = {r1}
  Ops <- OneAtATime
  Patches <- PartsPatches
  HistoryBound = 6
  Notes = {1, 2}
  Unconfigured = {1}
  MaxAttempts = 2
  PollBatch = 1
  MaxUpsets = 2
SPECIFICATION ProgressSpec
INVARIANTS TrailIsChain LanesAgree ReadyPartsAreQueued
PROPERTIES FollowsMachine VerdictMovesJob NoRowStuck
CHECK_DEADLOCK FALSE
