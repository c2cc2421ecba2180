SPECIFICATION Spec
CONSTANTS
  main = main  w1 = w1  w2 = w2
  c1 = c1  c2 = c2  f1 = f1  f2 = f2
  root = root  nobody = nobody  none = none
  Main = main
  RootFiber = root
  NoThread = nobody
  NoEntry = none
  Workers = {w1}
  UseCaller = TRUE
  Callbacks = {}
  UserFibers = {f1}
  PinTargets <- NoPins
  WakeRunning = TRUE
  MaxWakes = 3
  MaxYields = 1
  MaxStarts = 2
  MaxStops = 2
INVARIANTS
  TypeOK ActiveAccurate
