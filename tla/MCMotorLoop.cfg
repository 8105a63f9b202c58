SPECIFICATION Spec
CONSTANTS
  Channel <- MCChannel
  Speeds = {0, 100}
  Texts <- MCTexts
  Unset = Unset
  text = text
  BatteryWatched = TRUE
  SilenceLimit = 1
  MaxPending = 2
  MaxInbox = 2
INVARIANTS
  FollowsState
  NotGivenUp
PROPERTY LoopNotStarved
CHECK_DEADLOCK FALSE
