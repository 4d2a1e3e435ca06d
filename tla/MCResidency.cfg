\* Three samples and two states in a trace of seven units, a row every two.
CONSTANTS
  STEP = 2
  END = 7
  Values = {1, 2}
  Starts = {0, 3}
  Ends = {4, 7}
  MaxSamples = 3
  MaxSlices = 2
SPECIFICATION FrameSpec
CHECK_DEADLOCK FALSE
INVARIANT
  ResidencyClose
  RunningExact
