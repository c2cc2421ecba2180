SPECIFICATION TestSpec
CONSTANTS
  Threads = {t1, t2}
  NoThread = nobody
  Slots = {only}
  MaxStray = 0
  Rounds = 2
CHECK_DEADLOCK FALSE
PROPERTY Passed
