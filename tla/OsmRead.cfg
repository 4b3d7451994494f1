SPECIFICATION Spec
CONSTANTS
  None = None
  MaxSnaps = 2
  MaxLvl = 5
  Padding = 1
  Docs <- MCDocs
  Opts <- MCOpts
  Filters <- MCFilters
  Boxes <- MCBoxes
  Norm <- MCNorm
INVARIANTS BoxesCovered FilteredFileSame StationDistances RulesEnforced GeometryJoinsEnds ComponentsExact
