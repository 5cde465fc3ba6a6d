\* One request at a time.
CONSTANTS
  Order = {o1, o2}
  Line = {l1, l2}
  Dish = {d1}
  Item = {i1}
  NoOrder = NoOrder
  NoDish = NoDish
  Worker = {w1}
  Portions = {1, 2}
  Amount = {10}
  Opening = {0, 10}
  MaxStock = 20
  LastDay = 1
  LastToday = 2
SPECIFICATION SerialSpec
SYMMETRY KitchenSymmetry
INVARIANTS
  StockIsLedger
  StockNotNegative
  ReturnedOnce
PROPERTIES
  ClosedOrdersTakeNothing
CHECK_DEADLOCK FALSE
