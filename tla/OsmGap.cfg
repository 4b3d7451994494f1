SPECIFICATION Spec
CONSTANTS
  None = None
  MaxSnaps = 1
  MaxLvl = 5
  Padding = 1
  Docs <- MCOneWayOut
  Opts <- MCOpts
  Filters <- MCFilters
  Boxes <- MCBoxes
  Norm <- MCNorm
INVARIANT StationDistances
