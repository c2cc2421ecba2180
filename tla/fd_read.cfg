SPECIFICATION FairSpec
CONSTANTS
  NoThread = nobody
  NoWaiter = none
  CountBits = 4
  Fds = {3}
  Callers = {t1, t2}
  Dispatchers = {d1, d2}
  Waiters = {w1, w2, w3}
  Events = {"READ"}
  Conditions = {"IN", "HUP"}
  Duplicates = FALSE
  Deletes = FALSE
INVARIANTS
  PendingAccurate NoWaiterLost InterestMatches AssertionsHold
PROPERTY
  ReadableIsTriggered
