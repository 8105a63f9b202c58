SPECIFICATION Spec
CONSTANTS
  p1 = p1
  p2 = p2
  away = away
  noFix = noFix
  malformed = malformed
  noFrame = noFrame
  Places = {p1, p2}
  Elsewhere = away
  NoFix = noFix
  Malformed = malformed
  NoFrame = noFrame
  Unset = Unset
  Files <- MCFiles
  Sentences <- MCSentences
  Frames <- MCFrames
  Bearing <- MCBearing
  AvoidAngle <- MCAvoidAngle
  Sonars = {5, 21}
  Compasses = {0, 180}
  FootTicks = 2
  BACKUP_DIST = 12
  DISTANCE_THRESHOLD_FT = 14
  PauseTicks = 1
  ConeTicks = 1
  MaxAge = 3
  MaxCovered = 12
INVARIANTS
  AtRest
  Survives
PROPERTIES
  DistanceIsReal
  NoTrap
CHECK_DEADLOCK FALSE
