SPECIFICATION EarnSpec
CONSTANTS
  Jobs = {1, 2}
  Reward = 1
  Floor = 2
  Lookback = 3
  DisputeWindow = 0
  MaxHead = 5
  MaxFailures = 1
PROPERTIES
  RegistersInTheEnd
CHECK_DEADLOCK FALSE
