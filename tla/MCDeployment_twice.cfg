SPECIFICATION Spec
CHECK_DEADLOCK FALSE
CONSTANTS
  Paths <- SmallPaths
  Local <- SmallLocal
  RequestSRS = "WGS84"
  Rewritten <- SmallRewritten
  Resolved <- SmallResolved
  Places <- SmallPlaces
  Settings <- Twice
  Replacements <- SomeReplacements
  MaxChanges = 1
  MaxCellsPerBox = 2
  MaxSide = 4
  MaxCells = 8
  NoPlace = NoPlace
  Unreadable = Unreadable
  IndexName = IndexName
  NoIndex = NoIndex
  Nobody = Nobody
  Nothing = Nothing
INVARIANTS
  EveryDifferenceReported
