SPECIFICATION Spec
\* Behaviours end at the bounds.
CHECK_DEADLOCK FALSE
CONSTANTS
  TimePeriod = 2
  MaxResolution = 1
  Sleepable = 4
  Delay = {0, 5}
  Resolutions <- MCResolutions
  IsrFreqs = {0, 1, 2, 3}
  Periods = {1, 2}
  MaxRuns = 2
  MaxTicks = 4
INVARIANTS TypeOK LatenessAccounted
PROPERTIES TimeForward ReturnsDuration ServicedEachTick
