CONSTANTS
  TicketNonces = {1}
  RequestNonces = {2}
  Ops = {"ROTATE_CW"}
  Faults = {"module"}
  MaxFaults = 1
  MaxQueue = 2
SPECIFICATION Spec
INVARIANTS
  TicketComplete
CHECK_DEADLOCK FALSE
