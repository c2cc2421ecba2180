SPECIFICATION FairSpec
CONSTANTS
  main = main  w1 = w1  w2 = w2
  c1 = c1  c2 = c2  f1 = f1  f2 = f2
  root = root  nobody = nobody  none = none
  Main = main
  RootFiber = root
  NoThread = nobody
  NoEntry = none
  Workers = {w1, w2}
  UseCaller = TRUE
  Callbacks = {c1, c2}
  UserFibers = {}
  PinTargets <- NoPins
  WakeRunning = FALSE
  MaxWakes = 0
  MaxYields = 0
  MaxStarts = 1
  MaxStops = 1
INVARIANTS
  NothingLost NoThreadLeft
PROPERTIES
  StopReturns CallbacksRun
