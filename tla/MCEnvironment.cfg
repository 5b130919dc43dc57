CONSTANTS
  Threads = {t1, t2}
  Keys = {k1}
  Items = {i1, i2}
  ContextCount = 2
  MaxPending = 1
  Absent = Absent
  Null = Null
SPECIFICATION FairSpec
INVARIANTS TypeOK MutualExclusion
PROPERTIES ImplementsMemory DestructionCompletes
CHECK_DEADLOCK FALSE
