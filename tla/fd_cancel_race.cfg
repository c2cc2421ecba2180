SPECIFICATION Spec
CONSTANTS
  NoThread = nobody
  NoWaiter = none
  CountBits = 4
  Fds = {3}
  Callers = {t1}
  Dispatchers = {d1}
  Waiters = {w1, w2}
  Events = {"READ", "WRITE"}
  Conditions = {"IN", "OUT"}
  Duplicates = FALSE
  Deletes = FALSE
INVARIANT
  AssertionsHold
