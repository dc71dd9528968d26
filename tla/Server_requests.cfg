CONSTANTS
  Owner = Owner
  Asker = Asker
  Users = {Owner, Asker, Guest}
  MaxRequests = 3
SPECIFICATION FairSpec
INVARIANTS
  TypeOK
PROPERTIES
  WritesByAdmins
  RevokedStaysOut
  AskerServed
CHECK_DEADLOCK FALSE
