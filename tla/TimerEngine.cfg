SPECIFICATION FairSpec
CONSTANTS
  MaxTasks = 3
  Delays = {0, 2}
  Intervals = {0, 1}
  MaxLate = 1
INVARIANTS
  MapMatchesQueue
PROPERTIES
  ImplementsTimers
  EveryTaskRuns
  StopReturnsAfterTask
