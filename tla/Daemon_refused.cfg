SPECIFICATION Spec
CONSTANTS
  Threads = {1, 2}
  NPaths = 2
  Kinds = {"raster", "index", "unfit"}
  MaxOpen = 1
  MaxQueued = 1
  Changes = 0
INVARIANTS
  RefusedIndexRefusesStart
