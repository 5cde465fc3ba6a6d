\* Requests one at a time: what the handlers promise.
CONSTANTS
  Line = {l1, l2}
  Bill = {b1, b2}
  Worker = {w1}
  Amount = {1, 2}
  Discount = {0, 1}
  Charge = {0, 1}
  OrderType = {"DINE_IN", "TAKEAWAY"}
  Rate <- TakeawaysTaxed
  MaxRequests = 8
SPECIFICATION SerialSpec
SYMMETRY RowSymmetry
INVARIANTS
  TypeOK
  BillsFollowOrder
  SettledInFull
PROPERTIES
  ClosedOrderFrozen
  StaleOnlyByRemoveOrUpdate
CHECK_DEADLOCK FALSE
