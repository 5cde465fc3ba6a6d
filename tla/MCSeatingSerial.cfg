\* Order requests one at a time, the manager at any time.
CONSTANTS
  Order = {o1, o2, o3}
  Table = {t1, t2}
  Label = {n1, n2}
  NoTable = NoTable
  NoLabel = NoLabel
  Worker = {w1}
SPECIFICATION SerialSpec
SYMMETRY SeatingSymmetry
INVARIANT OneOpenOrderPerTable
PROPERTIES
  HistoryKeepsLabel
  ImplementsFloorPlan
CHECK_DEADLOCK FALSE
