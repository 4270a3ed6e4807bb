CONSTANTS
  w1 = w1
  p1 = p1
  o1 = o1
  i1 = i1
  i2 = i2
  r1 = r1
  r2 = r2
  Warehouses = {w1}
  Parts = {p1}
  Orders = {o1}
  Items = {i1, i2}
  OrderOf <- BothOfOne
  Needs = {1}
  Amounts <- SignedAmounts
  Lots = {1}
  StockBound = 2
  Reqs = {r1, r2}
SPECIFICATION RSpec
INVARIANTS AvailableIsDifference
CHECK_DEADLOCK FALSE
