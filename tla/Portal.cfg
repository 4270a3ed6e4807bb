CONSTANTS
  l1 = l1
  l2 = l2
  t1 = t1
  t2 = t2
  c1 = c1
  a1 = a1
  Lines = {l1, l2}
  Links = {t1, t2}
  Customers = {c1}
  Advisors = {a1}
SPECIFICATION Spec
SYMMETRY Symmetry
INVARIANTS TypeOK DecidedOnce RefusalsFollowedUp FollowedUpOnce DetachedHasReason
PROPERTIES DecisionsAreFinal ImplementsPromise
CHECK_DEADLOCK FALSE
