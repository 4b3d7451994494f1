SPECIFICATION Spec
CONSTANTS
  bus = bus  rail = rail
  Types = {bus, rail}
  Options <- MCAll
  Repeated <- MCTwice
  InputDisks <- MCInput
  MaxRuns = 2
INVARIANTS AcceptedBeforeWriting SuccessMeansWritten SingleTripOutputsPath ReadShapesKept
PROPERTY InputKept
