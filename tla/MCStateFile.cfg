CONSTANTS
  x = x  y = y  i1 = i1  i2 = i2  i3 = i3  i4 = i4
  MAC = {x, y}
  Server = Server
  Tool = {tool}
  Inode = {i1, i2, i3, i4}
  NoInode = NoInode
  OneAtATime = TRUE
SPECIFICATION Spec
SYMMETRY Symmetric
\* TypeOK is a conjunct of SInv.
INVARIANTS MarkedSurvives ForgottenStays SInv
PROPERTY ImplementsDurableSet
