CONSTANTS
  M = 6
  Input = {0, 1, 2, 4, 6}
SPECIFICATION Safety
INVARIANT DropEndsWithDatagram
