SPECIFICATION Safety
CONSTANTS
  d1 = d1
  d2 = d2
  c1 = c1
  k1 = k1
  v1 = v1
  v2 = v2
  Device = {d1, d2}
  Socket = {c1}
  Key = {k1}
  Value = {v1, v2}
  Unset = Unset
  None = None
  MaxSlots = 2
PROPERTIES
  OnlyOwnFaultDrops
