SPECIFICATION Spec
CONSTANTS
  NsPerMs = 2
  MsPerSec = 3
  timeout = 2
  MaxBusy = 2
  MaxAge = 16
  watchTimeout = 6
PROPERTIES
  IntervalOnTime
  SlotsRecur
  OncePerSilence
  SilenceIsReported
