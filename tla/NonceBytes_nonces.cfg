CONSTANTS
  NONCE_LEN = 3
  MAX_VALUE = 3
SPECIFICATION Spec
INVARIANTS
  TypeOK
  ComparesOrder
  LockCounts
  AppCounts
  OneCounting
CHECK_DEADLOCK FALSE
