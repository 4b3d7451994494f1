--------------------------- MODULE GtfsShapeProofs ---------------------------
(***************************************************************************)
(* The shape written for a trip is well-formed whatever the geometry: its  *)
(* points increase and every stop lies at one of them.  The interpolated   *)
(* times of its stops are in order whatever the costs of the hops.         *)
(***************************************************************************)
EXTENDS GtfsShape, Induction, TLAPS

\* Before the first point nothing was gone or emitted; after a point the last
\* stop is no further than the last point.  Needed because hopDists only
\* takes over lastDist at the end of a hop.
Progress ==
    /\ Len(points) = 0 => dist = -100 /\ lastDist = -100 /\ visited = 0 /\ Len(hopDists) = 1
    /\ Len(points) > 0 => dist >= 0
    /\ Len(hopDists) = 1 => hopDists[1] = 0
    /\ Len(points) > 0 => hopDists[Len(hopDists)] <= lastDist
    /\ visited = 0 /\ Len(hopDists) > 1 => hopDists[Len(hopDists)] = lastDist
    /\ Len(hopDists) = NumStops => visited = 0
    /\ pc # "shape" => Len(hopDists) = NumStops

ShapeInv == ShapeTypeOK /\ PointsIncrease /\ StopsOnShape /\ Progress

\* The shape of Init
LEMMA InitShape == Init => ShapeInv
  BY ShapeAssumption
  DEF Init, ShapeInv, ShapeTypeOK, PointsIncrease, StopsOnShape, Progress, NumStops

\* A point leaves the points increasing, and the stops where they were
LEMMA PointStep ==
  ASSUME ShapeInv, NEW gap \in Gaps, VisitPoint(gap)
  PROVE  ShapeInv'
  <1> DEFINE d == DistAfter(gap)
  <1> USE ShapeAssumption
  <1>1. d \in Nat /\ lastDist \in Int /\ dist \in Int
    BY DEF ShapeInv, ShapeTypeOK, Progress, PointsIncrease, DistAfter
  <1>2. /\ dist' = d /\ lastDist' = (IF d - lastDist > 1 THEN d ELSE lastDist)
        /\ points' = (IF d - lastDist > 1 THEN Append(points, d) ELSE points)
        /\ visited' = visited + 1 /\ visited' \in 1..MaxPoints
        /\ hopDists' = hopDists /\ costs' = costs /\ pc' = pc /\ pc = "shape"
    BY DEF VisitPoint, IsEmitted, LastDistAfter, ShapeInv, ShapeTypeOK
  <1>3. Len(points) = 0 => d = 0 /\ d - lastDist > 1
    BY <1>1 DEF ShapeInv, Progress, DistAfter
  <1>4. Len(points) > 0 => d >= dist /\ d >= lastDist
    BY <1>1 DEF ShapeInv, Progress, PointsIncrease, DistAfter
  <1>5. points \in Seq(Nat) /\ hopDists \in Seq(Int) /\ Len(hopDists) \in Nat \ {0}
    BY DEF ShapeInv, ShapeTypeOK
  <1> HIDE DEF d
  <1>6. ShapeTypeOK'
    BY <1>1, <1>2, <1>5 DEF ShapeInv, ShapeTypeOK
  <1>7. PointsIncrease'
    <2>1. CASE d - lastDist > 1
      <3>1. points' = Append(points, d) /\ lastDist' = d /\ dist' = d
        BY <2>1, <1>2
      <3>2. /\ Len(points') = Len(points) + 1 /\ points'[Len(points')] = d
            /\ \A m \in 1..Len(points) : points'[m] = points[m]
        BY <3>1, <1>1, <1>5
      <3>3. \A m \in 1..Len(points) : points[m] + 1 < d
        <4> TAKE m \in 1..Len(points)
        <4>1. points[m] \in Nat /\ Len(points) \in Nat /\ Len(points) > 0
          BY <1>5
        <4>2. points[Len(points)] = lastDist
          BY <4>1 DEF ShapeInv, PointsIncrease
        <4>3. m < Len(points) => points[m] + 1 < lastDist
          BY <4>1, <4>2 DEF ShapeInv, PointsIncrease
        <4> QED BY <4>1, <4>2, <4>3, <2>1, <1>1
      <3>4. \A m, n \in 1..Len(points') : m < n => points'[m] + 1 < points'[n]
        <4> SUFFICES ASSUME NEW m \in 1..Len(points'), NEW n \in 1..Len(points'), m < n
                     PROVE  points'[m] + 1 < points'[n]
          OBVIOUS
        <4>1. m \in 1..Len(points) /\ Len(points) \in Nat
          BY <3>2, <1>5
        <4>2. CASE n = Len(points')
          BY <4>1, <4>2, <3>2, <3>3
        <4>3. CASE n # Len(points')
          <5>1. n \in 1..Len(points)
            BY <4>1, <4>3, <3>2
          <5> QED BY <4>1, <5>1, <3>2 DEF ShapeInv, PointsIncrease
        <4> QED BY <4>2, <4>3
      <3>5. points'[1] = 0
        BY <3>2, <1>3, <1>5 DEF ShapeInv, PointsIncrease
      <3> QED
        BY <3>1, <3>2, <3>4, <3>5, <1>1 DEF PointsIncrease
    <2>2. CASE ~(d - lastDist > 1)
      BY <2>2, <1>1, <1>2, <1>3, <1>4, <1>5 DEF ShapeInv, PointsIncrease
    <2> QED BY <2>1, <2>2
  <1>8. StopsOnShape'
    <2>1. \A m \in 1..Len(points) : m \in 1..Len(points') /\ points'[m] = points[m]
      BY <1>1, <1>2, <1>5
    <2> QED
      BY <2>1, <1>2, <1>5 DEF ShapeInv, StopsOnShape
  <1>9. Progress'
    <2>1. Len(points') > 0 /\ dist' >= 0
      BY <1>1, <1>2, <1>3, <1>5
    <2>2. hopDists'[Len(hopDists')] <= lastDist'
      <3>1. CASE Len(points) > 0
        <4>1. hopDists[Len(hopDists)] <= lastDist /\ hopDists[Len(hopDists)] \in Int
          BY <3>1, <1>5 DEF ShapeInv, Progress
        <4> QED BY <4>1, <3>1, <1>1, <1>2, <1>4
      <3>2. CASE Len(points) = 0
        <4>1. Len(hopDists) = 1 /\ hopDists[1] = 0
          BY <3>2 DEF ShapeInv, Progress
        <4>2. lastDist' = 0
          BY ONLY <3>2, <1>2, <1>3
        <4>3. hopDists' = hopDists
          BY <1>2
        <4>4. hopDists'[Len(hopDists')] = 0
          BY ONLY <4>1, <4>3
        <4> QED BY ONLY <4>2, <4>4
      <3> QED BY <3>1, <3>2, <1>5
    <2>3. Len(hopDists) < NumStops /\ visited' # 0
      BY <1>2 DEF VisitPoint
    <2> QED
      BY <2>1, <2>2, <2>3, <1>2, <1>5 DEF ShapeInv, Progress, NumStops
  <1> QED
    BY <1>6, <1>7, <1>8, <1>9 DEF ShapeInv

\* The end of a hop puts its stop at the last point
LEMMA HopStep ==
  ASSUME ShapeInv, NEW cost \in HopCosts, EndHop(cost)
  PROVE  ShapeInv'
  <1> USE ShapeAssumption
  <1>1. /\ points \in Seq(Nat) /\ hopDists \in Seq(Int) /\ lastDist \in Int
        /\ Len(hopDists) \in Nat \ {0} /\ Len(points) > 0
    BY DEF ShapeInv, ShapeTypeOK, Progress, EndHop
  <1>2. /\ hopDists' = Append(hopDists, lastDist) /\ visited' = 0 /\ visited >= 2
        /\ UNCHANGED <<dist, lastDist, points, pc>> /\ pc = "shape"
        /\ Len(hopDists) < NumStops
    BY DEF EndHop, HopDist
  <1>3. /\ Len(hopDists') = Len(hopDists) + 1 /\ hopDists'[Len(hopDists')] = lastDist
        /\ \A k \in 1..Len(hopDists) : hopDists'[k] = hopDists[k]
    BY <1>1, <1>2
  <1>4. ShapeTypeOK'
    BY <1>1, <1>2, <1>3 DEF EndHop, ShapeInv, ShapeTypeOK, NumStops
  <1>5. PointsIncrease'
    BY <1>2 DEF ShapeInv, PointsIncrease
  <1>6. StopsOnShape'
    <2>1. lastDist = points[Len(points)] /\ points[1] = 0
      BY <1>1 DEF ShapeInv, PointsIncrease
    <2>2. \A k \in 1..Len(hopDists) : \E m \in 1..Len(points) : hopDists[k] = points[m]
      <3>1. CASE Len(hopDists) > 1
        BY <3>1 DEF ShapeInv, StopsOnShape
      <3>2. CASE Len(hopDists) = 1
        <4>1. hopDists[1] = points[1] /\ 1 \in 1..Len(points)
          BY <3>2, <2>1, <1>1 DEF ShapeInv, Progress
        <4> QED BY <4>1, <3>2
      <3>3. Len(hopDists) > 1 \/ Len(hopDists) = 1
        <4>1. \A n \in Nat \ {0} : n > 1 \/ n = 1
          OBVIOUS
        <4> QED BY ONLY <4>1, <1>1
      <3> QED BY <3>1, <3>2, <3>3
    <2>3. \A k \in 1..Len(hopDists') : \E m \in 1..Len(points') : hopDists'[k] = points'[m]
      <3> TAKE k \in 1..Len(hopDists')
      <3>1. points' = points /\ Len(points) \in 1..Len(points)
        BY <1>1, <1>2
      <3>2. CASE k = Len(hopDists')
        BY <3>1, <3>2, <2>1, <1>3
      <3>3. CASE k # Len(hopDists')
        <4>1. k \in 1..Len(hopDists)
          BY <3>3, <1>1, <1>3
        <4> QED BY <4>1, <3>1, <2>2, <1>3
      <3> QED BY <3>2, <3>3
    <2>4. \A k \in 1..Len(hopDists) : hopDists[k] <= lastDist
      <3> TAKE k \in 1..Len(hopDists)
      <3>1. /\ Len(hopDists) \in 1..Len(hopDists) /\ k <= Len(hopDists)
            /\ hopDists[k] \in Int /\ hopDists[Len(hopDists)] \in Int
        BY <1>1
      <3>2. hopDists[k] <= hopDists[Len(hopDists)]
        BY <3>1 DEF ShapeInv, StopsOnShape
      <3>3. hopDists[Len(hopDists)] <= lastDist
        BY <1>1 DEF ShapeInv, Progress
      <3> QED BY <3>1, <3>2, <3>3, <1>1
    <2>5. \A k, l \in 1..Len(hopDists') : k <= l => hopDists'[k] <= hopDists'[l]
      <3> SUFFICES ASSUME NEW k \in 1..Len(hopDists'), NEW l \in 1..Len(hopDists'), k <= l
                   PROVE  hopDists'[k] <= hopDists'[l]
        OBVIOUS
      <3>1. CASE l = Len(hopDists')
        <4>1. k = l \/ k \in 1..Len(hopDists)
          BY <3>1, <1>1, <1>3
        <4> QED BY <4>1, <3>1, <2>4, <1>1, <1>3
      <3>2. CASE l # Len(hopDists')
        <4>1. k \in 1..Len(hopDists) /\ l \in 1..Len(hopDists)
          BY <3>2, <1>1, <1>3
        <4> QED BY <4>1, <1>3 DEF ShapeInv, StopsOnShape
      <3> QED BY <3>1, <3>2
    <2> QED
      BY <2>3, <2>5, <1>2 DEF StopsOnShape
  <1>7. Progress'
    BY <1>1, <1>2, <1>3 DEF ShapeInv, Progress
  <1> QED
    BY <1>4, <1>5, <1>6, <1>7 DEF ShapeInv

\* set_shape leaves the shape alone
LEMMA TripStep ==
  ASSUME ShapeInv, StartTrip \/ (\E k \in 1..NumStops : SetStop(k)) \/ StopsDone \/ Done
  PROVE  ShapeInv'
  <1> USE ShapeAssumption
  <1>1. UNCHANGED shapeVars /\ pc' \in {"shape", "stops", "done"}
    BY DEF ShapeInv, ShapeTypeOK, StartTrip, SetStop, StopsDone, Done, vars
  <1>2. pc' # "shape" => Len(hopDists) = NumStops
    BY DEF ShapeInv, Progress, StartTrip, SetStop, StopsDone, Done, vars
  <1>3. Len(hopDists) = NumStops => hopDists[NumStops] = points[Len(points)]
    <2> SUFFICES ASSUME Len(hopDists) = NumStops
                 PROVE  hopDists[NumStops] = points[Len(points)]
      OBVIOUS
    <2>1. Len(hopDists) > 1 /\ Len(hopDists) \in Nat /\ Len(points) \in Nat
      BY DEF NumStops, ShapeInv, ShapeTypeOK
    <2>2. Len(points) > 0 /\ visited = 0
      BY <2>1 DEF ShapeInv, Progress
    <2> QED
      BY <2>1, <2>2 DEF ShapeInv, Progress, PointsIncrease
  <1>4. ShapeTypeOK' /\ PointsIncrease'
    BY <1>1 DEF ShapeInv, ShapeTypeOK, PointsIncrease, shapeVars
  <1>5. StopsOnShape' /\ Progress'
    BY <1>1, <1>2, <1>3 DEF ShapeInv, StopsOnShape, Progress, shapeVars
  <1> QED
    BY <1>4, <1>5 DEF ShapeInv

\* Every step keeps the shape well-formed
LEMMA ShapeStep == ShapeInv /\ [Next]_vars => ShapeInv'
  <1> SUFFICES ASSUME ShapeInv, [Next]_vars PROVE ShapeInv'
    OBVIOUS
  <1>1. CASE \E gap \in Gaps : VisitPoint(gap)
    BY <1>1, PointStep
  <1>2. CASE \E cost \in HopCosts : EndHop(cost)
    BY <1>2, HopStep
  <1>3. CASE StartTrip \/ (\E k \in 1..NumStops : SetStop(k)) \/ StopsDone \/ Done
    BY <1>3, TripStep
  <1>4. CASE UNCHANGED vars
    BY <1>4 DEF ShapeInv, ShapeTypeOK, PointsIncrease, StopsOnShape, Progress, vars, shapeVars
  <1> QED
    BY <1>1, <1>2, <1>3, <1>4 DEF Next

\* Whatever the geometry of the hops, the distances in shapes.txt start at 0,
\* increase strictly and never lag behind the geometry (get_gtfs_shape).
THEOREM ShapeWellFormed == Spec => []PointsIncrease
  <1>1. ShapeInv => PointsIncrease
    BY DEF ShapeInv
  <1> QED
    BY <1>1, InitShape, ShapeStep, PTL DEF Spec

\* Every stop of stop_times.txt lies at one of the distances of shapes.txt, in
\* the order of the trip, the last one at the end (get_gtfs_shape, set_shape).
THEOREM StopsOnShapeThm == Spec => []StopsOnShape
  <1>1. ShapeInv => StopsOnShape
    BY DEF ShapeInv
  <1> QED
    BY <1>1, InitShape, ShapeStep, PTL DEF Spec

-----------------------------------------------------------------------------
(* Interpolated times.                                                     *)

\* The defining equation of the partial sums, up to n
SumsUpTo(f, n) == \A k \in 0..n : f[k] = IF k = 0 THEN 0 ELSE f[k - 1] + costs[k]

\* The partial sums are defined, natural, and grow
LEMMA CostSums ==
  ASSUME costs \in Seq(Nat), Len(costs) = NumStops
  PROVE  /\ CostUpTo \in [0..NumStops -> Nat] /\ CostUpTo[0] = 0
         /\ \A k \in 1..NumStops : CostUpTo[k] = CostUpTo[k - 1] + costs[k]
         /\ \A k \in 0..NumStops : CostUpTo[k] <= TotalCost
  <1>0. NumStops \in Nat \ {0} /\ \A k \in 1..NumStops : costs[k] \in Nat
    BY ShapeAssumption DEF NumStops
  <1> DEFINE T == {n \in Nat : n <= NumStops => \E f \in [0..n -> Nat] : SumsUpTo(f, n)}
  <1>1. 0 \in T
    <2>1. SumsUpTo([k \in 0..0 |-> 0], 0) /\ [k \in 0..0 |-> 0] \in [0..0 -> Nat]
      BY DEF SumsUpTo
    <2> QED BY <2>1
  <1>2. ASSUME NEW n \in T PROVE n + 1 \in T
    <2> SUFFICES ASSUME n + 1 <= NumStops
                 PROVE  \E f \in [0..(n + 1) -> Nat] : SumsUpTo(f, n + 1)
      <3>1. n + 1 \in Nat
        OBVIOUS
      <3> QED BY <3>1, Zenon
    <2>1. n \in Nat /\ n <= NumStops
      BY <1>0
    <2>2. PICK f \in [0..n -> Nat] : SumsUpTo(f, n)
      BY <2>1
    <2> DEFINE g == [k \in 0..(n + 1) |-> IF k = n + 1 THEN f[n] + costs[n + 1] ELSE f[k]]
    <2>3. g \in [0..(n + 1) -> Nat]
      BY <1>0, <2>1, <2>2
    <2>4. SumsUpTo(g, n + 1)
      <3> SUFFICES ASSUME NEW k \in 0..(n + 1)
                   PROVE  g[k] = IF k = 0 THEN 0 ELSE g[k - 1] + costs[k]
        BY DEF SumsUpTo
      <3>1. CASE k = n + 1
        BY <3>1, <2>1, <2>2
      <3>2. CASE k # n + 1
        BY <3>2, <2>1, <2>2 DEF SumsUpTo
      <3> QED BY <3>1, <3>2
    <2> HIDE DEF g
    <2> QED BY <2>3, <2>4
  <1>3. T = Nat
    <2> HIDE DEF T
    <2>1. T \in SUBSET Nat
      BY DEF T
    <2> QED BY <1>1, <1>2, <2>1, SetInduction
  <1>4. PICK f \in [0..NumStops -> Nat] : SumsUpTo(f, NumStops)
    <2>1. NumStops \in T
      <3> HIDE DEF T
      <3> QED BY <1>0, <1>3
    <2>2. NumStops <= NumStops
      BY <1>0
    <2> QED BY ONLY <2>1, <2>2, Zenon
  <1>5. f = [k \in 0..NumStops |-> IF k = 0 THEN 0 ELSE f[k - 1] + costs[k]]
    BY <1>4 DEF SumsUpTo
  <1>6. CostUpTo = [k \in 0..NumStops |-> IF k = 0 THEN 0 ELSE CostUpTo[k - 1] + costs[k]]
    BY <1>5, Zenon DEF CostUpTo
  <1>7. CostUpTo[0] = 0 /\ \A k \in 1..NumStops : CostUpTo[k] = CostUpTo[k - 1] + costs[k]
    BY <1>0, <1>6
  <1> DEFINE V == {n \in Nat : n <= NumStops => CostUpTo[n] \in Nat}
             W == {n \in Nat : n <= NumStops => CostUpTo[NumStops - n] <= CostUpTo[NumStops]}
  <1>8. V = Nat
    <2>1. V \in SUBSET Nat /\ 0 \in V
      BY <1>7
    <2>2. ASSUME NEW n \in V PROVE n + 1 \in V
      <3> SUFFICES ASSUME n + 1 <= NumStops PROVE CostUpTo[n + 1] \in Nat
        OBVIOUS
      <3>1. n \in Nat /\ n <= NumStops /\ n + 1 \in 1..NumStops /\ (n + 1) - 1 = n
        BY <1>0
      <3>2. CostUpTo[n] \in Nat /\ costs[n + 1] \in Nat
        BY <3>1, <1>0
      <3>3. CostUpTo[n + 1] = CostUpTo[n] + costs[n + 1]
        BY <3>1, <1>7
      <3> QED BY ONLY <3>2, <3>3
    <2> HIDE DEF V
    <2> QED BY <2>1, <2>2, SetInduction
  <1>9. \A k \in 0..NumStops : CostUpTo[k] \in Nat
    BY <1>0, <1>8
  <1>10. W = Nat
    <2>1. W \in SUBSET Nat /\ 0 \in W
      BY <1>0, <1>9
    <2>2. ASSUME NEW n \in W PROVE n + 1 \in W
      <3> SUFFICES ASSUME n + 1 <= NumStops
                   PROVE  CostUpTo[NumStops - (n + 1)] <= CostUpTo[NumStops]
        OBVIOUS
      <3>1. /\ NumStops - n \in 1..NumStops /\ NumStops - (n + 1) = (NumStops - n) - 1
            /\ n \in Nat /\ NumStops - (n + 1) \in 0..NumStops /\ n <= NumStops
        BY <1>0
      <3>2. CostUpTo[NumStops - n] <= CostUpTo[NumStops]
        BY <3>1
      <3>3. CostUpTo[NumStops - n] = CostUpTo[NumStops - (n + 1)] + costs[NumStops - n]
        BY <3>1, <1>7
      <3>4. /\ CostUpTo[NumStops - n] \in Nat /\ CostUpTo[NumStops - (n + 1)] \in Nat
            /\ costs[NumStops - n] \in Nat /\ CostUpTo[NumStops] \in Nat
        BY <3>1, <1>0, <1>9
      <3> QED BY ONLY <3>2, <3>3, <3>4
    <2> HIDE DEF W
    <2> QED BY <2>1, <2>2, SetInduction
  <1>11. ASSUME NEW k \in 0..NumStops PROVE CostUpTo[k] <= TotalCost
    <2>1. NumStops - k \in W /\ NumStops - k <= NumStops /\ NumStops - (NumStops - k) = k
      BY <1>0, <1>10
    <2> QED BY <2>1 DEF TotalCost
  <1>12. CostUpTo \in [0..NumStops -> Nat]
    BY <1>6, <1>9
  <1> QED
    BY <1>7, <1>11, <1>12

\* From seconds to gtfs::time and back, below the width of the hours
LEMMA SecondsRoundTrip ==
  ASSUME NEW sec \in Nat
  PROVE  /\ TotalSeconds(TimeOf(sec)) \in Nat
         /\ sec < 65536 * 3600 => TotalSeconds(TimeOf(sec)) = sec
  <1> DEFINE h == sec \div 3600
             m == (sec % 3600) \div 60
             s == sec % 60
  <1>1. h \in Nat /\ m \in 0..59 /\ s \in 0..59 /\ sec = h * 3600 + m * 60 + s
    OBVIOUS
  <1>2. h % 65536 \in Nat /\ (sec < 65536 * 3600 => h % 65536 = h)
    OBVIOUS
  <1>3. TotalSeconds(TimeOf(sec)) = (h % 65536) * 3600 + m * 60 + s
    BY DEF TotalSeconds, TimeOf
  <1> HIDE DEF h, m, s
  <1> QED
    BY <1>1, <1>2, <1>3

\* add_seconds adds the dwell time, although it leaves 60 seconds as they are
LEMMA DwellAdded ==
  ASSUME NEW t, t.hh \in Nat, t.mm \in 0..59, t.ss \in 0..59
  PROVE  TotalSeconds(AddSeconds(t, DwellTime)) = TotalSeconds(t) + DwellTime
  <1> DEFINE h == t.hh
             m == t.mm
             s == t.ss
             sum == AddSeconds(t, DwellTime)
  <1>1. h \in Nat /\ m \in 0..59 /\ s \in 0..59
    OBVIOUS
  <1>2. sum = Carried(h, m, s + 10)
    BY DEF AddSeconds, DwellTime
  <1>3. TotalSeconds(t) = h * 3600 + m * 60 + s
    BY DEF TotalSeconds
  <1> HIDE DEF h, m, s, sum
  <1>4. CASE s + 10 > 60
    <2>1. (s + 10) % 60 = s - 50 /\ ~(m + 1 > 60)
      BY <1>1, <1>4
    <2>2. sum = [hh |-> h, mm |-> m + 1, ss |-> s - 50]
      BY <1>2, <1>4, <2>1 DEF Carried
    <2>3. TotalSeconds(sum) = h * 3600 + (m + 1) * 60 + (s - 50)
      BY <2>2 DEF TotalSeconds
    <2> QED BY <1>1, <1>3, <2>3 DEF DwellTime, sum
  <1>5. CASE ~(s + 10 > 60)
    <2>1. ~(m > 60)
      BY <1>1
    <2>2. sum = [hh |-> h, mm |-> m, ss |-> s + 10]
      BY <1>2, <1>5, <2>1 DEF Carried
    <2>3. TotalSeconds(sum) = h * 3600 + m * 60 + (s + 10)
      BY <2>2 DEF TotalSeconds
    <2> QED BY <1>1, <1>3, <2>3 DEF DwellTime, sum
  <1> QED
    BY <1>4, <1>5

\* The share of a span that integer division leaves to a hop
LEMMA ShareBounded ==
  ASSUME NEW span \in Nat, NEW cost \in Nat, NEW total \in Nat \ {0}
  PROVE  /\ (span * cost) \div total \in Nat
         /\ ((span * cost) \div total) * total <= span * cost
  <1>1. span * cost \in Nat
    OBVIOUS
  <1>2. \A x \in Nat : x \div total \in Nat /\ (x \div total) * total <= x
    OBVIOUS
  <1> QED BY <1>1, <1>2

\* Cancelling a positive factor
LEMMA Cancel ==
  ASSUME NEW a \in Int, NEW b \in Int, NEW c \in Nat \ {0}, a * c <= b * c
  PROVE  a <= b
  <1> SUFFICES ASSUME a >= b + 1 PROVE FALSE
    OBVIOUS
  <1>1. (a - b) * c >= c
    OBVIOUS
  <1> QED BY <1>1

FirstDep == times[1].dep
LastDep == times[NumStops].dep

\* The premise of TimesInOrder
Ordered == TotalCost > 0 /\ FirstDep <= LastDep

\* Types of set_shape, and what is known of the times it started from
TripInv ==
    /\ i \in 0..NumStops /\ previous \in Nat /\ filled \subseteq 1..i
    /\ pc = "shape" => filled = {} /\ i = 0
    /\ pc # "shape" =>
        /\ times \in [1..NumStops -> [arr : Nat, dep : Nat, given : BOOLEAN]]
        /\ {FirstDep, LastDep} \subseteq Departures \cup {0}

\* previous_time never overtakes the share of the span that the costs up to
\* the current stop stand for; integer division only loses seconds.
WithinShare ==
    pc # "shape" /\ Ordered =>
        /\ previous \in FirstDep..LastDep
        /\ (previous - FirstDep) * TotalCost <= (LastDep - FirstDep) * CostUpTo[i]
        /\ \A k \in filled : times[k].arr \in FirstDep..previous
        /\ \A k, l \in filled : k < l => times[k].arr <= times[l].arr

TimesInv == ShapeInv /\ TripInv /\ WithinShare /\ DwellKept

\* What TimesInv says of the numbers set_shape computes with
LEMMA TripNumbers ==
  ASSUME TimesInv, pc # "shape"
  PROVE  /\ costs \in Seq(Nat) /\ Len(costs) = NumStops /\ NumStops \in Nat /\ NumStops > 1
         /\ FirstDep \in Nat /\ FirstDep < Wrap /\ FirstDep < 65536 * 3600
         /\ LastDep \in Nat /\ LastDep < Wrap /\ LastDep < 65536 * 3600
         /\ TotalCost \in Nat /\ \A k \in 0..NumStops : CostUpTo[k] \in Nat
         /\ Wrap \in Nat \ {0}
  <1>1. costs \in Seq(Nat) /\ Len(costs) = NumStops /\ NumStops \in Nat /\ NumStops > 1
    BY ShapeAssumption DEF TimesInv, ShapeInv, ShapeTypeOK, Progress, NumStops
  <1>2. {FirstDep, LastDep} \subseteq Departures \cup {0}
    BY DEF TimesInv, TripInv
  <1>3. \A d \in Departures \cup {0} : d \in Nat /\ d < Wrap /\ d < 65536 * 3600
    BY ShapeAssumption
  <1>4. TotalCost \in Nat /\ \A k \in 0..NumStops : CostUpTo[k] \in Nat
    <2>1. CostUpTo \in [0..NumStops -> Nat] /\ NumStops \in 0..NumStops
      BY <1>1, CostSums
    <2> QED BY ONLY <2>1 DEF TotalCost
  <1>5. FirstDep \in Departures \cup {0} /\ LastDep \in Departures \cup {0}
    BY ONLY <1>2
  <1>6. Wrap \in Nat \ {0}
    BY ShapeAssumption
  <1> QED
    BY ONLY <1>1, <1>3, <1>4, <1>5, <1>6

\* The interpolated second is a number, and a trip in order is reached no
\* earlier than before and within its share
LEMMA Reached ==
  ASSUME TimesInv, pc # "shape", NEW k \in 1..NumStops, k = i + 1, NEW sec \in ReachedAt(k)
  PROVE  /\ sec \in Nat
         /\ Ordered => /\ sec \in previous..LastDep
                       /\ (sec - FirstDep) * TotalCost <= (LastDep - FirstDep) * CostUpTo[k]
  <1> DEFINE T == TotalCost
             c == costs[k]
             S == TimeSpan
             q == (S * c) \div T
  <1>1. /\ T \in Nat /\ c \in Nat /\ previous \in Nat /\ Wrap \in Nat \ {0}
        /\ FirstDep \in Nat /\ LastDep \in Nat /\ LastDep < Wrap
        /\ S = (LastDep - FirstDep) % Wrap /\ S \in Nat
    <2>1. /\ T \in Nat /\ FirstDep \in Nat /\ LastDep \in Nat /\ LastDep < Wrap
          /\ Wrap \in Nat \ {0} /\ costs \in Seq(Nat) /\ Len(costs) = NumStops
      BY TripNumbers
    <2>2. c \in Nat
      BY <2>1
    <2>3. previous \in Nat
      BY DEF TimesInv, TripInv
    <2>4. S = (LastDep - FirstDep) % Wrap
      BY DEF TimeSpan, FirstDep, LastDep
    <2> HIDE DEF S
    <2>5. S \in Nat
      BY ONLY <2>1, <2>4
    <2> QED BY <2>1, <2>2, <2>3, <2>4, <2>5
  <1>2. \A s \in NaNValues : s \in Nat
    BY ShapeAssumption
  <1>3. CASE T = 0
    BY <1>2, <1>3 DEF ReachedAt, Ordered
  <1>4. CASE T # 0
    <2> HIDE DEF T, c, S
    <2>1. sec = (previous + q) % Wrap
      BY <1>4 DEF ReachedAt, T, c, S
    <2>2. q \in Nat /\ q * T <= S * c
      BY <1>1, <1>4, ShareBounded
    <2>3. sec \in Nat
      <3> HIDE DEF q
      <3> QED BY <1>1, <2>1, <2>2
    <2>4. ASSUME Ordered
          PROVE  /\ sec \in previous..LastDep
                 /\ (sec - FirstDep) * TotalCost <= (LastDep - FirstDep) * CostUpTo[k]
      <3> DEFINE a == CostUpTo[k - 1]
                 b == CostUpTo[k]
                 D == LastDep - FirstDep
                 p == previous - FirstDep
      <3>1. D \in Nat /\ S = D
        BY <1>1, <2>4 DEF Ordered
      <3>2. a \in Nat /\ b \in Nat /\ b = a + c /\ b <= T
        <4>1. k - 1 \in 0..NumStops /\ k \in 0..NumStops
          BY TripNumbers
        <4> QED BY <4>1, CostSums, TripNumbers DEF T, c
      <3>3. p \in Int /\ p * T <= D * a /\ previous >= FirstDep
        <4>1. i = k - 1
          BY DEF TimesInv, TripInv
        <4> QED BY <4>1, <2>4, <1>1 DEF TimesInv, WithinShare, T
      <3> HIDE DEF a, b, D, p, q
      <3>4. (p + q) * T <= D * b
        <4>1. (p + q) * T = p * T + q * T /\ D * b = D * a + D * c
          BY <3>1, <3>2, <3>3, <2>2, <1>1
        <4>2. p * T \in Int /\ q * T \in Int /\ D * a \in Int /\ D * c \in Int
          BY <3>1, <3>2, <3>3, <2>2, <1>1
        <4> QED BY <4>1, <4>2, <3>1, <3>3, <2>2
      <3>5. p + q <= D
        <4>1. D * b <= D * T
          BY <3>1, <3>2, <1>1
        <4>2. D * b \in Int /\ D * T \in Int /\ (p + q) * T \in Int /\ p + q \in Int
          BY <3>1, <3>2, <3>3, <2>2, <1>1
        <4>3. (p + q) * T <= D * T
          BY <4>1, <4>2, <3>4
        <4> QED BY <4>2, <4>3, <3>1, <1>1, <1>4, Cancel
      <3>6. previous + q <= LastDep /\ sec = previous + q
        <4>1. previous + q <= LastDep
          BY <3>5, <3>1, <2>2, <1>1 DEF p, D
        <4> QED BY <4>1, <2>1, <2>2, <1>1
      <3>7. sec - FirstDep = p + q /\ sec \in previous..LastDep
        BY <3>6, <2>2, <1>1 DEF p
      <3> QED BY <3>4, <3>7 DEF D, b, T
    <2> QED BY <2>3, <2>4
  <1> QED
    BY <1>3, <1>4

\* Nothing is interpolated before set_shape
LEMMA InitTimes == Init => TimesInv
  BY InitShape, ShapeAssumption
  DEF Init, TimesInv, TripInv, WithinShare, DwellKept, NumStops

\* The costs are those of the shape once it is walked
LEMMA CostsKept ==
  ASSUME UNCHANGED costs
  PROVE  CostUpTo' = CostUpTo /\ TotalCost' = TotalCost
  <1>1. CostUpTo' = CostUpTo
    BY DEF CostUpTo
  <1> QED
    BY <1>1 DEF TotalCost

\* Steps that leave the stop_times of the trip alone
LEMMA TimesFrame ==
  ASSUME TimesInv, ShapeInv', UNCHANGED tripVars,
         \/ pc = "shape" /\ pc' = "shape"
         \/ pc # "shape" /\ pc' # "shape" /\ UNCHANGED costs
  PROVE  TimesInv'
  <1>1. DwellKept' /\ TripInv'
    BY DEF TimesInv, TripInv, DwellKept, tripVars, FirstDep, LastDep
  <1>2. WithinShare'
    <2>1. CASE pc' = "shape"
      BY <2>1 DEF WithinShare
    <2>2. CASE pc' # "shape"
      <3>1. CostUpTo' = CostUpTo /\ TotalCost' = TotalCost
        BY <2>2, CostsKept
      <3>2. Ordered' = Ordered /\ FirstDep' = FirstDep /\ LastDep' = LastDep /\ pc # "shape"
        BY <2>2, <3>1 DEF Ordered, FirstDep, LastDep, tripVars
      <3> QED BY <3>1, <3>2 DEF TimesInv, WithinShare, tripVars
    <2> QED BY <2>1, <2>2
  <1> QED
    BY <1>1, <1>2 DEF TimesInv

\* The trip starts at its first departure, with nothing interpolated
LEMMA StartTimes ==
  ASSUME TimesInv, ShapeInv', StartTrip
  PROVE  TimesInv'
  <1>1. /\ times' \in [1..NumStops -> StopTimes] /\ previous' = FirstDep'
        /\ pc' = "stops" /\ pc = "shape" /\ UNCHANGED <<costs, filled, i>>
    <2>1. UNCHANGED <<costs, filled, i>>
      BY DEF StartTrip, shapeVars
    <2>2. times' \in [1..NumStops -> StopTimes] /\ previous' = FirstDep'
      BY DEF StartTrip, FirstDep
    <2> QED BY <2>1, <2>2 DEF StartTrip
  <1>2. filled' = {} /\ i' = 0 /\ NumStops \in Nat /\ NumStops > 1
    BY <1>1, ShapeAssumption DEF TimesInv, TripInv, NumStops
  <1>3. StopTimes \subseteq [arr : Nat, dep : Nat, given : BOOLEAN]
    <2>1. Departures \cup {0} \subseteq Nat
      BY ShapeAssumption
    <2> QED BY ONLY <2>1 DEF StopTimes
  <1>4. \A t \in StopTimes : t.dep \in Departures \cup {0}
    BY DEF StopTimes
  <1>5. FirstDep' \in Departures \cup {0} /\ LastDep' \in Departures \cup {0}
    BY <1>1, <1>2, <1>4 DEF FirstDep, LastDep
  <1>6. FirstDep' \in Nat /\ LastDep' \in Nat
    BY <1>5, ShapeAssumption
  <1>7. TripInv'
    <2>1. times' \in [1..NumStops -> [arr : Nat, dep : Nat, given : BOOLEAN]]
      BY <1>1, <1>3
    <2> QED BY <2>1, <1>1, <1>2, <1>5, <1>6 DEF TripInv
  <1>8. WithinShare'
    <2> SUFFICES ASSUME Ordered' PROVE /\ previous' \in FirstDep'..LastDep'
                                       /\ (previous' - FirstDep') * TotalCost' <= (LastDep' - FirstDep') * CostUpTo'[i']
      BY <1>2 DEF WithinShare
    <2>1. TotalCost' = TotalCost /\ CostUpTo' = CostUpTo
      BY <1>1, CostsKept
    <2>2. costs \in Seq(Nat) /\ Len(costs) = NumStops
      BY DEF TimesInv, ShapeInv, ShapeTypeOK, StartTrip
    <2>3. TotalCost \in Nat /\ CostUpTo[0] = 0
      BY <2>2, <1>2, CostSums DEF TotalCost
    <2>4. FirstDep' <= LastDep'
      BY DEF Ordered
    <2>5. previous' - FirstDep' = 0 /\ CostUpTo'[i'] = 0 /\ LastDep' - FirstDep' \in Int
      <3>1. previous' - FirstDep' = 0 /\ LastDep' - FirstDep' \in Int
        <4>1. previous' = FirstDep'
          BY <1>1
        <4>2. \A a, b \in Nat : a - a = 0 /\ b - a \in Int
          OBVIOUS
        <4> QED BY ONLY <4>1, <4>2, <1>6, Zenon
      <3>2. CostUpTo'[i'] = 0
        BY ONLY <1>2, <2>1, <2>3, Zenon
      <3> QED BY <3>1, <3>2
    <2>6. 0 * TotalCost' = 0 /\ (LastDep' - FirstDep') * 0 = 0
      BY ONLY <2>1, <2>3, <2>5
    <2>7. previous' \in FirstDep'..LastDep'
      BY ONLY <1>1, <1>6, <2>4
    <2> QED BY <2>5, <2>6, <2>7
  <1>9. DwellKept'
    BY <1>2 DEF DwellKept
  <1> QED
    BY <1>7, <1>8, <1>9 DEF TimesInv

\* A stop whose times are kept
LEMMA KeptStop ==
  ASSUME TimesInv, ShapeInv', NEW k \in 1..NumStops, SetStop(k), ~IsInterpolated(k)
  PROVE  TimesInv'
  <1>1. /\ i' = k /\ k = i + 1 /\ UNCHANGED <<previous, filled, times, costs, pc>> /\ pc = "stops"
    BY DEF SetStop, shapeVars
  <1>2. DwellKept' /\ FirstDep' = FirstDep /\ LastDep' = LastDep
    BY <1>1 DEF TimesInv, DwellKept, FirstDep, LastDep
  <1>3. 1..i \subseteq 1..k
    BY <1>1 DEF TimesInv, TripInv
  <1>4. TripInv'
    BY <1>1, <1>2, <1>3, TripNumbers DEF TimesInv, TripInv
  <1>5. WithinShare'
    <2> SUFFICES ASSUME Ordered'
                 PROVE  /\ previous' \in FirstDep'..LastDep'
                        /\ (previous' - FirstDep') * TotalCost' <= (LastDep' - FirstDep') * CostUpTo'[i']
                        /\ \A m \in filled' : times'[m].arr \in FirstDep'..previous'
                        /\ \A m, l \in filled' : m < l => times'[m].arr <= times'[l].arr
      BY DEF WithinShare
    <2>1. CostUpTo' = CostUpTo /\ TotalCost' = TotalCost
      BY <1>1, CostsKept
    <2>2. Ordered /\ FirstDep <= LastDep
      BY <1>2, <2>1 DEF Ordered
    <2>3. /\ previous \in FirstDep..LastDep
          /\ (previous - FirstDep) * TotalCost <= (LastDep - FirstDep) * CostUpTo[i]
          /\ \A m \in filled : times[m].arr \in FirstDep..previous
          /\ \A m, l \in filled : m < l => times[m].arr <= times[l].arr
      BY <1>1, <2>2 DEF TimesInv, WithinShare
    <2> DEFINE D == LastDep - FirstDep
               a == CostUpTo[i]
               b == CostUpTo[k]
               x == (previous - FirstDep) * TotalCost
    <2>4. D \in Nat /\ a \in Nat /\ b \in Nat /\ a <= b
      <3>1. k - 1 \in 0..NumStops /\ k \in 0..NumStops /\ i = k - 1 /\ costs[k] \in Nat
        BY <1>1, TripNumbers DEF TimesInv, TripInv
      <3>2. b = a + costs[k] /\ a \in Nat /\ b \in Nat
        BY <1>1, <3>1, CostSums, TripNumbers
      <3>3. FirstDep \in Nat /\ LastDep \in Nat
        BY <1>1, TripNumbers
      <3>4. D \in Nat
        BY <3>3, <2>2
      <3> HIDE DEF D, a, b
      <3> QED BY ONLY <3>1, <3>2, <3>4
    <2>5. x <= D * a /\ x \in Int
      BY <1>1, <2>3, TripNumbers DEF TimesInv, TripInv
    <2> HIDE DEF D, a, b, x
    <2>6. x <= D * b
      <3>1. D * a <= D * b /\ D * a \in Int /\ D * b \in Int
        BY <2>4
      <3> QED BY ONLY <3>1, <2>5
    <2> QED BY <1>1, <1>2, <2>1, <2>3, <2>6 DEF D, b, x
  <1> QED
    BY <1>2, <1>4, <1>5 DEF TimesInv

\* A stop whose times are interpolated
LEMMA InterpolatedStop ==
  ASSUME TimesInv, ShapeInv', NEW k \in 1..NumStops, SetStop(k), IsInterpolated(k)
  PROVE  TimesInv'
  <1>1. PICK sec \in ReachedAt(k) :
          /\ previous' = sec /\ filled' = filled \cup {k}
          /\ times' = [times EXCEPT ![k] =
                [arr |-> TotalSeconds(TimeOf(sec)),
                 dep |-> TotalSeconds(AddSeconds(TimeOf(sec), DwellTime)),
                 given |-> TRUE]]
    BY DEF SetStop
  <1>2. i' = k /\ k = i + 1 /\ UNCHANGED <<costs, pc>> /\ pc = "stops"
    BY DEF SetStop, shapeVars
  <1>3. k \notin {1, NumStops} /\ NumStops \in Nat /\ NumStops > 1 /\ i \in Nat
    BY <1>2, TripNumbers DEF IsInterpolated, TimesInv, TripInv
  <1>4. /\ sec \in Nat
        /\ Ordered => /\ sec \in previous..LastDep
                      /\ (sec - FirstDep) * TotalCost <= (LastDep - FirstDep) * CostUpTo[k]
    BY <1>1, <1>2, Reached
  <1> DEFINE arr == TotalSeconds(TimeOf(sec))
             dep == TotalSeconds(AddSeconds(TimeOf(sec), DwellTime))
  <1>5. arr \in Nat /\ (sec < 65536 * 3600 => arr = sec)
    BY <1>4, SecondsRoundTrip
  <1>6. dep = arr + DwellTime /\ dep \in Nat
    <2>1. /\ TimeOf(sec).hh \in Nat /\ TimeOf(sec).mm \in 0..59 /\ TimeOf(sec).ss \in 0..59
      BY <1>4 DEF TimeOf
    <2>2. dep = arr + DwellTime
      BY <2>1, DwellAdded
    <2> HIDE DEF arr, dep
    <2> QED BY <1>5, <2>2 DEF DwellTime
  <1> HIDE DEF arr, dep
  <1>7. times' = [times EXCEPT ![k] = [arr |-> arr, dep |-> dep, given |-> TRUE]]
    BY <1>1 DEF arr, dep
  <1>8. times \in [1..NumStops -> [arr : Nat, dep : Nat, given : BOOLEAN]]
    BY <1>2 DEF TimesInv, TripInv
  <1>9. /\ times'[k].arr = arr /\ times'[k].dep = dep
        /\ \A m \in 1..NumStops \ {k} : times'[m] = times[m]
        /\ times' \in [1..NumStops -> [arr : Nat, dep : Nat, given : BOOLEAN]]
    BY ONLY <1>5, <1>6, <1>7, <1>8, k \in 1..NumStops
  <1>10. FirstDep' = FirstDep /\ LastDep' = LastDep
    BY <1>3, <1>9 DEF FirstDep, LastDep
  <1>11. filled \subseteq 1..i /\ \A m \in filled : m \in 1..NumStops \ {k} /\ m < k
    BY <1>2, <1>3 DEF TimesInv, TripInv
  <1>12. DwellKept'
    BY <1>1, <1>6, <1>9, <1>11 DEF TimesInv, DwellKept
  <1>13. TripInv'
    <2>1. filled' \subseteq 1..k
      BY <1>1, <1>2, <1>3, <1>11
    <2> QED BY <1>1, <1>2, <1>3, <1>4, <1>9, <1>10, <2>1 DEF TimesInv, TripInv
  <1>14. WithinShare'
    <2> SUFFICES ASSUME Ordered'
                 PROVE  /\ previous' \in FirstDep'..LastDep'
                        /\ (previous' - FirstDep') * TotalCost' <= (LastDep' - FirstDep') * CostUpTo'[i']
                        /\ \A m \in filled' : times'[m].arr \in FirstDep'..previous'
                        /\ \A m, l \in filled' : m < l => times'[m].arr <= times'[l].arr
      BY DEF WithinShare
    <2>1. CostUpTo' = CostUpTo /\ TotalCost' = TotalCost
      BY <1>2, CostsKept
    <2>2. Ordered
      BY <1>10, <2>1 DEF Ordered
    <2>3. /\ previous \in FirstDep..LastDep
          /\ \A m \in filled : times[m].arr \in FirstDep..previous
          /\ \A m, l \in filled : m < l => times[m].arr <= times[l].arr
      BY <1>2, <2>2 DEF TimesInv, WithinShare
    <2>4. /\ FirstDep \in Nat /\ LastDep \in Nat /\ LastDep < 65536 * 3600
          /\ previous \in Nat /\ sec \in Nat /\ FirstDep <= previous /\ previous <= sec
          /\ sec <= LastDep
      BY <1>2, <1>4, <2>2, <2>3, TripNumbers DEF TimesInv, TripInv
    <2>5. arr = sec
      BY ONLY <1>5, <2>4
    <2>6. \A m \in filled : /\ times'[m].arr = times[m].arr /\ times[m].arr \in Nat
                            /\ FirstDep <= times[m].arr /\ times[m].arr <= previous
      BY <1>8, <1>9, <1>11, <2>3
    <2>7. previous' \in FirstDep'..LastDep'
      BY <1>1, <1>10, <2>4
    <2>8. (previous' - FirstDep') * TotalCost' <= (LastDep' - FirstDep') * CostUpTo'[i']
      BY <1>1, <1>2, <1>4, <1>10, <2>1, <2>2
    <2>9. ASSUME NEW m \in filled' PROVE times'[m].arr \in FirstDep'..previous'
      <3>1. CASE m = k
        BY <3>1, <1>1, <1>9, <1>10, <2>4, <2>5
      <3>2. CASE m # k
        <4>1. m \in filled
          BY <3>2, <1>1
        <4> QED BY <4>1, <1>1, <1>10, <2>4, <2>6
      <3> QED BY <3>1, <3>2
    <2>10. ASSUME NEW m \in filled', NEW l \in filled', m < l PROVE times'[m].arr <= times'[l].arr
      <3>1. m \in filled
        BY <1>1, <1>3, <1>11, <2>10
      <3>2. CASE l = k
        BY <3>1, <3>2, <1>9, <2>4, <2>5, <2>6
      <3>3. CASE l # k
        <4>1. l \in filled
          BY <3>3, <1>1
        <4> QED BY <3>1, <4>1, <2>3, <2>6, <2>10
      <3> QED BY <3>2, <3>3
    <2> QED BY <2>7, <2>8, <2>9, <2>10
  <1> QED
    BY <1>12, <1>13, <1>14 DEF TimesInv

\* The interpolated times, for every cost, departure and width
LEMMA TimesInvariant == Spec => []TimesInv
  <1>1. TimesInv /\ [Next]_vars => TimesInv'
    <2> SUFFICES ASSUME TimesInv, [Next]_vars PROVE TimesInv'
      OBVIOUS
    <2>0. ShapeInv'
      BY ShapeStep DEF TimesInv
    <2>1. CASE \E gap \in Gaps : VisitPoint(gap)
      BY <2>0, <2>1, TimesFrame DEF VisitPoint
    <2>2. CASE \E cost \in HopCosts : EndHop(cost)
      BY <2>0, <2>2, TimesFrame DEF EndHop
    <2>3. CASE StartTrip
      BY <2>0, <2>3, StartTimes
    <2>4. CASE \E k \in 1..NumStops : SetStop(k)
      BY <2>0, <2>4, KeptStop, InterpolatedStop
    <2>5. CASE StopsDone
      BY <2>0, <2>5, TimesFrame DEF StopsDone, shapeVars
    <2>6. CASE UNCHANGED vars
      BY <2>0, <2>6, TimesFrame DEF vars, shapeVars
    <2> QED
      BY <2>1, <2>2, <2>3, <2>4, <2>5, <2>6 DEF Next, Done
  <1> QED
    BY <1>1, InitTimes, PTL DEF Spec

\* Interpolated arrivals lie between the first and the last departure and never
\* run backwards, whatever the costs: no rounding of set_shape adds up beyond
\* the trip's span and no conversion to gtfs::time truncates.
THEOREM TimesInOrderThm == Spec => []TimesInOrder
  <1>1. TimesInv => TimesInOrder
    <2> SUFFICES ASSUME TimesInv, pc # "shape", TotalCost > 0,
                        times[1].dep <= times[NumStops].dep
                 PROVE  /\ \A k \in filled : times[k].arr \in times[1].dep..times[NumStops].dep
                        /\ \A k, l \in filled : k < l => times[k].arr <= times[l].arr
      BY DEF TimesInOrder
    <2>1. /\ previous \in FirstDep..LastDep
          /\ \A k \in filled : times[k].arr \in FirstDep..previous
          /\ \A k, l \in filled : k < l => times[k].arr <= times[l].arr
      BY DEF TimesInv, WithinShare, Ordered, FirstDep, LastDep
    <2>2. FirstDep \in Nat /\ LastDep \in Nat
      BY TripNumbers
    <2>3. \A k \in filled : times[k].arr \in FirstDep..LastDep
      BY <2>1, <2>2
    <2> QED BY <2>1, <2>3 DEF FirstDep, LastDep
  <1> QED
    BY <1>1, TimesInvariant, PTL

\* The dwell time survives the carries of add_seconds for every second a stop
\* can be reached at.
THEOREM DwellKeptThm == Spec => []DwellKept
  <1>1. TimesInv => DwellKept
    BY DEF TimesInv
  <1> QED
    BY <1>1, TimesInvariant, PTL

=============================================================================
