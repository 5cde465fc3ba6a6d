\* Settlements, refunds, the customer book and the business day, overlapping.
CONSTANTS
  Order = {o1, o2}
  Customer = {c1, c2}
  Phone = {p1}
  Grand <- TwoRupees
  LastDay = 2
  Worker = {w1, w2}
  Amount = {1, 2}
  MaxRequests = 4
  MaxOverlapped = 3
SPECIFICATION Spec
SYMMETRY RowSymmetry
INVARIANTS
  StatsExact
  OneCustomerPerNumber
  RefundsWithinBill
  ClosedDayBalances
CHECK_DEADLOCK FALSE
