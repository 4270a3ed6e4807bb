CONSTANTS
  w1 = w1
  w2 = w2
  p1 = p1
  p2 = p2
  o1 = o1
  i1 = i1
  i2 = i2
  r1 = r1
  Warehouses = {w1, w2}
  Parts = {p1, p2}
  Orders = {o1}
  Items = {i1, i2}
  OrderOf <- BothOfOne
  Needs = {1, 2}
  Amounts <- SignedAmounts
  Lots = {1}
  StockBound = 2
  Reqs = {r1}
SPECIFICATION RSpec
SYMMETRY Symmetry
INVARIANTS TypeOK AvailableIsDifference LedgerExplainsStock ReservationsBacked
  OversoldIsAccountedFor OrdersFillUp ReceiptsReachStock
PROPERTIES ImplementsLedger
CHECK_DEADLOCK FALSE
