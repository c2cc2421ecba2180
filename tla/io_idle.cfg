SPECIFICATION FairSpec
CONSTANTS
  Workers = {w1}
  Main = main
  UseCaller = TRUE
  Tasks = {k1, k2}
  NoTask = none
  Tickle = tickle
INVARIANTS
  CountersAccurate QueueDrained EventsKept IdsRecorded
PROPERTIES
  ImplementsCallbacks StopReturns ScheduledRuns
