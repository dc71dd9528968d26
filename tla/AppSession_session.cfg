CONSTANTS
  MaxTickets = 2
  MaxPresses = 2
  MaxFaults = 4
SPECIFICATION FairSpec
INVARIANTS
  TypeOK
  TimeoutOfAttempt
  ReadyMeansOpen
  NoncesApart
  EvenAndOdd
  OverrunNeedsCrossing
PROPERTIES
  PressAnswered
CHECK_DEADLOCK FALSE
