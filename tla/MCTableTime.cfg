\* Two areas, two tables and the time session of one order.
CONSTANTS
  Area = {s1, s2}
  Table = {t1, t2}
  NoTable = NoTable
  Worker = {w1, w2}
  Rate = {0, 90}
  Minutes = {1}
  MaxTime = 3
  MaxRequests = 3
  MaxOverlapped = 2
SPECIFICATION Spec
SYMMETRY FloorSymmetry
INVARIANTS
  TypeOK
  ChargeFitsSession
  TimedFloorPriced
CHECK_DEADLOCK FALSE
