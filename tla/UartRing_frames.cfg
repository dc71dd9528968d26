CONSTANTS
  RX_MAX_BUFFER_SIZE = 4
  HeaderLen = 2
  PayloadLens = {0, 1, 2}
  MaxFrames = 4
SPECIFICATION Spec
INVARIANTS
  TypeOK
  FramesInOrder
  NeverAhead
CHECK_DEADLOCK FALSE
