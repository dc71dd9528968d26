CONSTANTS
  TicketNonces = {1}
  RequestNonces = {2}
  Ops = {"ROTATE_CW"}
  Faults = {"params"}
  MaxFaults = 1
  MaxQueue = 2
SPECIFICATION FairSpec
PROPERTIES
  SessionKept
CHECK_DEADLOCK FALSE
