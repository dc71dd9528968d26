CONSTANTS
  Classes = {0, 1, 2, 3, 4, 5, 6, 7, 8, 9, 10, 255}
  Numbers = {0, 1, 2, 3, 4, 5, 6, 7, 8, 9, 10, 11, 12, 13, 14, 15, 16, 17, 18, 19, 20, 21, 255}
  DataLens = {0, 1, 20, 26, 40}
  MAX_PAYLOAD = 60
SPECIFICATION Spec
INVARIANTS
  TypeOK
  CommandWhole
  HandlerFits
  OnlyUnknownResets
