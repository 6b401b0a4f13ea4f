SPECIFICATION FairSpec
CONSTANTS
  MaxTasks = 1
  Delays = {0, 2}
  Intervals = {0, 1}
  MaxLate = 1
PROPERTY StopReturns
