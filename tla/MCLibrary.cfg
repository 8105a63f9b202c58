SPECIFICATION LibrarySpec
CONSTANTS
  MaxPending = 6
  p = p
  q = q
  Programs = {p, q}
INVARIANTS
  NoneDropped
  TrippedStaysStopped
PROPERTIES
  OneTripUnlessOverrun
  SilenceTrips
  ChildrenAreReaped
