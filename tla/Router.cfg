SPECIFICATION Spec
CONSTANTS
  n1 = n1  n2 = n2  n3 = n3  n4 = n4  n5 = n5  n6 = n6  g1 = g1  g2 = g2  g3 = g3
  Nodes = {n1, n2, n3, n4, n5, n6}
  Edges <- MCEdges
  NodeInfo <- MCNodeInfo
  EdgeInfo <- MCEdgeInfo
  Sharp <- MCSharp
  Forbidden <- MCForbidden
  Opts <- MCOpts
  Calls <- MCCalls
  Caching = {TRUE, FALSE}
  None = None
INVARIANTS RouteContiguous CacheSound
