\* Vendor bills, payments and stock-in, with overlapping requests.
CONSTANTS
  Bill = {b1, b2}
  Material = {m1}
  Quantity = {0, 1, 2}
  Price = {0, 1, 2}
  Discount = {0, 1}
  Worker = {w1, w2}
  MaxRequests = 5
  MaxOverlapped = 4
SPECIFICATION Spec
SYMMETRY RowSymmetry
INVARIANTS
  TypeOK
  PaidWithinTotal
  LedgerCountsBillsOnce
CHECK_DEADLOCK FALSE
