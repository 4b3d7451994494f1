SPECIFICATION Spec
CONSTANTS
  t1 = t1  t2 = t2  t3 = t3  t4 = t4
  r1 = r1  r2 = r2  bus = bus  tram = tram
  a = a  b = b  b2 = b2  c = c  e = e  p = p
  Trips = {t1, t2, t3, t4}
  Routes = {r1, r2}
  Types = {bus, tram}
  Stops = {a, b, b2, c, e, p}
  RouteOf <- MCRouteOf
  TypeOf <- MCTypeOf
  LineOf <- MCLineOf
  StopTimes <- MCStopTimes
  NameOf <- MCNameOf
  Near <- MCNear
  ParentOf <- MCParentOf
  Snapped = {a, b, b2, c, p}
  MotCfgs <- MCMotCfgs
  Mots = {bus, tram}
  Options <- MCOptions
  InputIds <- MCInputIds
  MaxShpCnt = 6
  NoRoute = NoRoute  NoStop = NoStop  NoShape = NoShape  NoId = NoId  Input = Input
INVARIANTS Bookkeeping AttrsCached FeedShaped LoadedShapesKept DiesOnlyAtEntrances
PROPERTIES OnlyAssignedTripChanges LastUserErasesShape RunEnds
