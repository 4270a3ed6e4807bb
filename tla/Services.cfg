CONSTANTS
  Notes = {1, 2}
  Unconfigured = {1}
  MaxAttempts = 2
  PollBatch = 1
  MaxUpsets = 2
  n1 = n1
  Inspections = {n1}
  i1 = i1
  Items = {i1}
  Kind <- AllChoices
  Answers <- TwoFindings
  b1 = b1
  Browsers = {b1}
  p1 = p1
  Phones = {p1}
  f1 = f1
  f2 = f2
  Files = {f1, f2}
  r1 = r1
  Targets = {r1}
  u1 = u1
  u2 = u2
  Removers = {u1}
  Tabs = {u1, u2}
  Cookie <- OneCookie
  MaxTokens = 2
  MaxEndings = 2
  d1 = d1
  Deferred = {d1}
  Staff = {u1, u2}
  MaxReminders = 3
  Admins = {u1, u2}
  basic = basic
  pro = pro
  Plans = {basic, pro}
  c1 = c1
  c2 = c2
  Counters = {c1, c2}
  MaxSubs = 3
  Instances <- TwoInstances
  Pool <- TwoConnections
  w1 = w1
  w2 = w2
  Due = {w1, w2}
  MaxFirings = 3
  Releasers = {u1, u2}
  Readers = {c1}
  MaxEditions = 3
  MaxSnapshots = 3
  j1 = j1
  BoardJobs = {j1}
  First = "quality_check"
  Lanes = {"in_progress"}
  m1 = m1
  m2 = m2
  Moves = {m1, m2}
  Fetches = {f1}
  MaxChanges = 1
SPECIFICATION ServicesSpec
INVARIANTS
  ServicesTypeOK
  SecondDeliveryExplained
  FindingsBecomeConcerns
  CountFollowsPhotos
  ListedHasContent
  SessionsDoNotMultiply
  EndedStaysEnded
  BookedOncePerClick
  BilledOnce
  WarnedOnce
  ReleasesReachThePortal
  BoardShowsRealStatuses
CHECK_DEADLOCK FALSE
