SPECIFICATION CanSpec
CONSTANTS
  Drives = {1, 2}
  StopRetries = 1
PROPERTY UnstoppedIsNotCovered
CHECK_DEADLOCK FALSE
