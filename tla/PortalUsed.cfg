CONSTANTS
  l1 = l1
  l2 = l2
  t1 = t1
  c1 = c1
  a1 = a1
  Lines = {l1, l2}
  Links = {t1}
  Customers = {c1}
  Advisors = {a1}
SPECIFICATION Spec
PROPERTIES UsedLinkDecidesNothing
CHECK_DEADLOCK FALSE
