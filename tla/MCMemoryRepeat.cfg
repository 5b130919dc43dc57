CONSTANTS
  Keys = {k1}
  Items = {i1, i2}
  ContextCount = 2
  MaxPending = 2
  RepeatHoist = TRUE
  Absent = Absent
  Null = Null
SPECIFICATION Spec
PROPERTY HoistReachesParent
