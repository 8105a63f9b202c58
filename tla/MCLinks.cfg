SPECIFICATION LinksSpec
CONSTANTS
  W = 10
  Junk = {3}
  Messages <- MCMessages
  Value <- MCValue
  AppType = 2
  Uid = 1
  Leftovers <- MCLeftovers
  MaxPending = 0
  b1 = b1
  b2 = b2
  m = m
  none = none
  Boards = {b1, b2}
  Controller = m
  NoPort = none
  MaxPlugs = 2
INVARIANTS
  InStep
  OneDevicePerPort
PROPERTIES
  StaysUp
  LinkComesUp
  ControllerIsTaken
  BoardIsWatched
CHECK_DEADLOCK FALSE
