\* Two workers whose requests overlap: what survives without locks.
CONSTANTS
  Line = {l1, l2}
  Bill = {b1, b2}
  Worker = {w1, w2}
  Amount = {1, 2}
  Discount = {0}
  Charge = {0}
  OrderType = {"DINE_IN", "TAKEAWAY"}
  Rate <- TakeawaysTaxed
  MaxRequests = 6
SPECIFICATION Spec
SYMMETRY RowSymmetry
INVARIANTS
  SettledOrderHasSettledBill
  InvoicesUnique
CHECK_DEADLOCK FALSE
