CONSTANTS
  l1 = l1
  t1 = t1
  t2 = t2
  c1 = c1
  c2 = c2
  a1 = a1
  Lines = {l1}
  Links = {t1, t2}
  Customers = {c1, c2}
  Advisors = {a1}
SPECIFICATION Spec
INVARIANTS DecidedOnce
CHECK_DEADLOCK FALSE
