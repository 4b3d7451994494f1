SPECIFICATION Spec
CONSTANTS
  WayNodes = {w1, w2}
  NewNodes = {1, 2, 3}
  Groups = {1, 2, 3, 4, 5, 6, 7, 8}
  Stops = {s1, s2}
  NumDist = 2
  MaxPlaced = 1
  Inputs <- MCInputs
  NoSI = NoSI  NoGroup = NoGroup  NoNode = NoNode  NoStop = NoStop
SYMMETRY Symmetry
INVARIANTS RefsExact GroupsConsistent MergedGroupsDeleted StopsResolve CandidatesFound
