CONSTANTS
  Threads = {t1, t2}
  Keys = {k1}
  Items = {i1, i2}
  ContextCount = 2
  MaxPending = 1
  Absent = Absent
  Null = Null
SPECIFICATION Spec
INVARIANT NoUseAfterDestroy
CHECK_DEADLOCK FALSE
