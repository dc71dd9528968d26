CONSTANTS
  TicketNonces = {1}
  RequestNonces = {2}
  Ops = {"ROTATE_CCW", "OTHER"}
  Faults = {"power", "soft", "module", "params", "write"}
  MaxFaults = 1
  MaxQueue = 2
SPECIFICATION FairSpec
PROPERTIES
  Reachable
CHECK_DEADLOCK FALSE
