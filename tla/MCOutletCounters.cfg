\* Four requests race for two kinds of numbers over two days; no symmetry,
\* because one of the properties is liveness.
CONSTANTS
  Request = {r1, r2, r3, r4}
  Kind = {order, invoice}
  LastDay = 2
SPECIFICATION FairCountersSpec
PROPERTIES
  ImplementsDispenser
  EveryCallEnds
CHECK_DEADLOCK FALSE
