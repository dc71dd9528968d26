CONSTANTS
  TicketNonces = {1, 2}
  RequestNonces = {2, 3}
  Ops = {"ROTATE_CW"}
  Faults = {"power", "soft", "write"}
  MaxFaults = 2
  MaxQueue = 2
SPECIFICATION Spec
INVARIANTS
  TypeOK
  NewestSession
  AdvertisesComplete
  TicketComplete
  ServesLink
PROPERTIES
  TicketsInOrder
  RotateOnce
  NonceUsedOnce
  KeepsPromise
  FreshConnection
  SessionKept
CHECK_DEADLOCK FALSE
