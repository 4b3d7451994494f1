SPECIFICATION Spec
CONSTANTS
  n1 = n1  n2 = n2  n3 = n3
  Nodes = {n1, n2, n3}
  Pos <- MCPos
  Calls <- MCCalls
  Null = Null
INVARIANTS SearchExact PathsMatchCosts
