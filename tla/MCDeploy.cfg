CONSTANTS
  k1 = k1  k2 = k2  x = x  y = y  z = z  u = u  v = v
  Machine = {k1, k2}
  NIC = {x, y, z}
  Nics <- TwoMachines
  Reports <- Whole
  URL = {u, v}
  NoURL = NoURL
  MayOmitURL = TRUE
  MaxNodes = 2
  MaxDrivers = 3
  MaxPolls = 1
SPECIFICATION Spec
SYMMETRY Alike
\* TypeOK and DriverAgrees are conjuncts of DInv.
INVARIANTS OneDriver GatedByAllNics DInv WInv
PROPERTIES StatesForward RecordedIsWritten ImagedOnce ImplementsProvision
