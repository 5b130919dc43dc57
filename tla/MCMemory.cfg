CONSTANTS
  Keys = {k1, k2}
  Items = {i1, i2, i3}
  ContextCount = 3
  MaxPending = 2
  RepeatHoist = FALSE
  Absent = Absent
  Null = Null
SPECIFICATION Spec
INVARIANTS TypeOK Ownership HoistedIsTheLoop
PROPERTY ImplementsStore
