SPECIFICATION FairSpec
CONSTANTS
  Threads = {1, 2}
  NPaths = 2
  Kinds = {"missing", "raster", "unreadable", "index", "unfit"}
  MaxOpen = 1
  MaxQueued = 1
  Changes = 1
INVARIANTS
  TypeOK
  ContextsFreedOnce
  NothingLeftAtExit
  ProjExclusive
  TakenApartInOrder
  ServesOneWorld
PROPERTIES
  NeverStuck
