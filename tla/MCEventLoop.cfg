SPECIFICATION Spec
CONSTANTS
  s1 = s1
  s2 = s2
  s3 = s3
  Source = {s1, s2, s3}
  Keeps = {"add once", "remove once", "no empty add"}
  MaxQueue = 3
INVARIANTS
  NoDuplicates
  IndicesDenote
PROPERTIES
  OnlyAskedLeave
  ImplementsWatchSet
