SPECIFICATION Spec
CONSTANTS
  g1 = g1  g2 = g2  old = old
  Generators = {g1, g2}
  Old = old
  Count <- Counts
  TmpName <- OwnNames
  Target = Target
  NoInode = NoInode
INVARIANTS
  TypeOK
  AcceptedIsWhole
  WholeUnlessDiskFilled
  NoLitter
PROPERTIES
  UntouchedUnlessPublished
