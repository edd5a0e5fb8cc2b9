CONSTANTS
  k1 = k1  k2 = k2  x = x  y = y  z = z  u = u  v = v
  Machine = {k1}
  NIC = {x, y}
  Nics <- OneMachine
  Reports <- Partial
  URL = {u, v}
  NoURL = NoURL
  MayOmitURL = FALSE
  MaxNodes = 2
  MaxDrivers = 2
  MaxPolls = 1
SPECIFICATION Spec
PROPERTIES AllNicsIndexed
