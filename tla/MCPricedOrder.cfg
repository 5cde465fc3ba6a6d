\* An order priced from a menu and tax rules that are being edited.
CONSTANTS
  i1 = i1
  i2 = i2
  Category = {c1, c2}
  Dish = {i1, i2}
  TaxedDish = {i1, i2}
  CategoryName = {n1, n2}
  OrderType = {"DINE_IN", "TAKEAWAY"}
  Line = {l1, l2}
  Price = {0, 101}
  Charge = {0, 99}
  SizeList <- MCSizeList
  Topping <- MCTopping
  NewRule <- MCNewRule
  RuleChange <- MCChange
  Preview <- MCPreview
  Policy <- MCPolicy
  NewDiet = {"NON_VEG"}
  MaxMenu = 2
  MaxTax = 2
  MaxOrder = 4
  MaxPolicy = 1
  MaxRequests = 4
SPECIFICATION PricingSpec
SYMMETRY RowSymmetry
INVARIANTS
  BilledHistoryKept
  ShownPriceCharged
  TaxesAddUp
  OneGstRate
  DiscountWithinCap
PROPERTIES
  TaxedBillStaysTaxed
CHECK_DEADLOCK FALSE
