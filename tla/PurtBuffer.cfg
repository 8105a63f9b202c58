SPECIFICATION Spec
CONSTANTS
  M = 4
  Input = {0, 1, 4}
INVARIANTS
  QueueIsUniqueList
  NulRunEndsDatagram
  WritesFit
  AcceptedIsQueued
PROPERTIES
  BufferIsStable
  AcceptedIsHandled
