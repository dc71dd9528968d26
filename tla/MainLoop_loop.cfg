CONSTANTS
  MOTOR_TIMER_THRESHOLD = 2
  MaxInputs = 3
SPECIFICATION FairSpec
INVARIANTS
  TypeOK
PROPERTIES
  FullTurn
  MotorStops
  ModuleServed
  PressServed
CHECK_DEADLOCK FALSE
