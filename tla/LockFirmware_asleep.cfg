CONSTANTS
  TicketNonces = {1}
  RequestNonces = {2}
  Ops = {"ROTATE_CW"}
  Faults = {}
  MaxFaults = 0
  MaxQueue = 2
SPECIFICATION FairSpec
PROPERTIES
  PacketsHandled
CHECK_DEADLOCK FALSE
