SPECIFICATION Spec
\* Behaviours end at the bounds.
CHECK_DEADLOCK FALSE
CONSTANTS
  TimePeriod = 2
  MaxResolution = 5
  Sleepable = 8
  Delay = {0, 1, 7}
  Resolutions <- MCResolutions
  IsrFreqs = {0, 1, 2, 3}
  Periods = {1, 2}
  MaxRuns = 1
  MaxTicks = 7
PROPERTY ServicedAfterEachTick
