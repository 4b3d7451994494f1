SPECIFICATION Spec
CONSTANTS
  bus = bus  rail = rail
  Types = {bus, rail}
  Options <- MCDefault
  Repeated = {}
  InputDisks <- MCGood
  MaxRuns = 1
INVARIANT ShapesDroppedOnlyOnDemand
