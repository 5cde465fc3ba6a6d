\* Requests that overlap.
CONSTANTS
  Order = {o1}
  Line = {l1}
  Dish = {d1}
  Item = {i1}
  NoOrder = NoOrder
  NoDish = NoDish
  Worker = {w1, w2}
  Portions = {1}
  Amount = {10}
  Opening = {10}
  MaxStock = 10
  LastDay = 2
  LastToday = 1
SPECIFICATION Spec
SYMMETRY KitchenSymmetry
INVARIANT OneDeductionPerDay
CHECK_DEADLOCK FALSE
