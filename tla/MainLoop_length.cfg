CONSTANTS
  MOTOR_TIMER_THRESHOLD = 2
  MaxInputs = 0
SPECIFICATION FairSpec
PROPERTIES
  CommandsInStep
CHECK_DEADLOCK FALSE
