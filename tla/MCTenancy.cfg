\* Two businesses, their logins and the sales team, overlapping.
CONSTANTS
  Business = {b1, b2}
  Rep = {r1}
  Contact = {c1, c2, c3, c4}
  Password = {p1}
  Admin = {a1}
  Worker = {w1, w2}
  Date = {1, 6}
  Window = 3
  NewEmployment = {"ACTIVE", "PART_TIME"}
  MaxAttempts = 2
  LockoutTime = 1
  ResetLife = 1
  AccessLife = 1
  MaxTime = 1
  MaxConsole = 2
  MaxSales = 3
  MaxAccess = 4
  MaxAdmin = 3
  MaxRequests = 4
  MaxOverlapped = 2
SPECIFICATION Spec
SYMMETRY RowSymmetry
INVARIANTS
  TypeOK
  SalesTeamInOrder
  ListedDueIsCalled
  SuspensionRunsOut
  TokenSetsOnePassword
  TicksDecide
PROPERTIES
  LocksAreEarned
CHECK_DEADLOCK FALSE
