SPECIFICATION LocksSpec
CONSTANTS
  Threads = {t1, t2, t3}
  NoThread = nobody
  Slots = {outer, inner}
  MaxStray = 0
INVARIANTS
  Exclusion NoStrayUnlock MutualExclusion
PROPERTY
  LockIsTaken
