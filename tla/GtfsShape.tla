------------------------------ MODULE GtfsShape ------------------------------
(***************************************************************************)
(* What is written to the feed for one matched trip: get_gtfs_shape walks  *)
(* the geometry of the hops, emits shape points and notes how far along    *)
(* the shape each stop lies; set_shape then gives the stop_times of a trip *)
(* their distances and interpolates missing times from the hop costs.      *)
(*                                                                         *)
(* Distances are in units of 0.01 m, the threshold below which a point is  *)
(* not emitted; they and the hop costs are choices.  The code computes     *)
(* both in floating point; the model is exact.                             *)
(***************************************************************************)
EXTENDS Integers, Sequences

CONSTANTS
    NumHops,     \* hops of the trip: one less than its stops
    Gaps,        \* distances between consecutive points of the geometry
    HopCosts,    \* costs of a hop
    MaxPoints,   \* bound on the points of a hop
    Departures,  \* departures in seconds that occur in the input
    Interpolate, \* the values interpolate_times may have
    Wrap,        \* the number of values of size_t
    NaNValues    \* what a NaN may be converted to

NumStops == NumHops + 1

ASSUME ShapeAssumption ==
    /\ NumHops \in Nat \ {0}
    /\ Gaps \subseteq Nat /\ HopCosts \subseteq Nat
    /\ MaxPoints \in Nat \ {0, 1}
    /\ Departures \subseteq Nat
    \* a departure was read into hours of type uint16_t
    /\ \A d \in Departures : d < Wrap /\ d < 65536 * 3600
    /\ Interpolate \subseteq BOOLEAN
    /\ Wrap \in Nat \ {0}
    /\ NaNValues \subseteq 0..(Wrap - 1)

VARIABLES
    dist,      \* dist, the way gone so far; -100 (-1 m) before the first point
    lastDist,  \* lastDist, the distance of the last emitted point
    points,    \* the shape_dist_traveled of the emitted points
    visited,   \* points of this hop visited so far
    hopDists,  \* hopDists
    costs,     \* costs
    interpolate, \* interpolate_times
    times,     \* arrival, departure and whether both were provided, by stop
    filled,    \* history: the stops whose times were interpolated
    i,         \* stops that set_shape has visited
    previous,  \* previous_time
    stopDists, \* shape_dist_traveled of the stop_times
    pc

shapeVars == <<dist, lastDist, points, visited, hopDists, costs>>
tripVars == <<times, filled, i, previous, stopDists>>
vars == <<shapeVars, interpolate, tripVars, pc>>

-----------------------------------------------------------------------------
(* gtfs::time: hours, minutes and seconds.                                 *)

\* The hours are an uint16_t
TimeOf(seconds) ==
    [hh |-> (seconds \div 3600) % 65536, mm |-> (seconds % 3600) \div 60, ss |-> seconds % 60]

TotalSeconds(t) == t.hh * 3600 + t.mm * 60 + t.ss

\* Mutant: the minute is not carried
CarryLost(hh, mm, ss) ==
    [hh |-> hh, mm |-> mm, ss |-> IF ss > 60 THEN ss % 60 ELSE ss]

\* The carries of add_seconds: 60 seconds or 60 minutes are left as they are
Carried(hh, mm, ss) ==
    LET m == IF ss > 60 THEN mm + 1 ELSE mm
    IN  [hh |-> IF m > 60 THEN hh + 1 ELSE hh,
         mm |-> IF m > 60 THEN m % 60 ELSE m,
         ss |-> IF ss > 60 THEN ss % 60 ELSE ss]

\* add_seconds for less than a minute
AddSeconds(t, n) == Carried(t.hh, t.mm, t.ss + n)

DwellTime == 10

-----------------------------------------------------------------------------
\* The stop_times of a trip.  A stop has both times or none (the last one may
\* lack them too); a time that is not provided counts as 0 seconds.
StopTimes ==
    {t \in [arr : Departures \cup {0}, dep : Departures \cup {0}, given : BOOLEAN] :
        t.arr = t.dep /\ (~t.given => t.dep = 0)}

Init ==
    /\ dist = -100 /\ lastDist = -100
    /\ points = <<>>
    /\ visited = 0
    /\ hopDists = <<0>> /\ costs = <<0>>
    /\ interpolate \in Interpolate
    /\ times = <<>> /\ filled = {}
    /\ i = 0
    /\ previous = 0
    /\ stopDists = [k \in 1..NumStops |-> 0]
    /\ pc = "shape"

-----------------------------------------------------------------------------
(* get_gtfs_shape.                                                         *)

\* Mutant: points at the same place are emitted again
IsEmittedAgain(d) == d >= lastDist

\* A point is emitted when it is more than 0.01 m further than the last one
IsEmitted(d) == d - lastDist > 1

\* dist at the next point, gap away from the last: the first point has 0
DistAfter(gap) == IF dist > -50 THEN dist + gap ELSE 0

\* lastDist once a point at d was visited
LastDistAfter(d) == IF IsEmitted(d) THEN d ELSE lastDist

\* A point of an edge's geometry, or one end of a hop without edges
VisitPoint(gap) ==
    /\ pc = "shape" /\ Len(hopDists) < NumStops
    /\ visited < MaxPoints
    /\ dist' = DistAfter(gap)
    /\ points' = IF IsEmitted(DistAfter(gap)) THEN Append(points, DistAfter(gap)) ELSE points
    /\ lastDist' = LastDistAfter(DistAfter(gap))
    /\ visited' = visited + 1
    /\ UNCHANGED <<hopDists, costs, interpolate, tripVars, pc>>

\* Mutant: the way gone, whether or not its last point was emitted
WayGone == dist

\* The distance of the stop a hop leads to
HopDist == lastDist

\* The end of a hop, which has at least the points of its two stops
EndHop(cost) ==
    /\ pc = "shape" /\ Len(hopDists) < NumStops
    /\ visited >= 2
    /\ hopDists' = Append(hopDists, HopDist)
    /\ costs' = Append(costs, cost)
    /\ visited' = 0
    /\ UNCHANGED <<dist, lastDist, points, interpolate, tripVars, pc>>

-----------------------------------------------------------------------------
(* set_shape.                                                              *)

\* set_shape for a trip of the cluster, whose stop_times are chosen here
StartTrip ==
    /\ pc = "shape" /\ Len(hopDists) = NumStops
    /\ times' \in [1..NumStops -> StopTimes]
    /\ times'[1].given
    /\ previous' = times'[1].dep
    /\ pc' = "stops"
    /\ UNCHANGED <<shapeVars, interpolate, filled, i, stopDists>>

\* Partial sums of the costs
CostUpTo[k \in 0..NumStops] == IF k = 0 THEN 0 ELSE CostUpTo[k - 1] + costs[k]

TotalCost == CostUpTo[NumStops]

\* Mutant: measured from midnight
SpanFromMidnight == times[NumStops].dep % Wrap

\* The seconds between the first and the last departure, a size_t
TimeSpan == (times[NumStops].dep - times[1].dep) % Wrap

\* The stops whose times are interpolated
IsInterpolated(k) ==
    k \notin {1, NumStops} /\ (~times[k].given \/ interpolate)

\* previous_time after stop k.  Without any cost this is the conversion of a
\* NaN to size_t, which is undefined.
ReachedAt(k) ==
    IF TotalCost = 0
    THEN NaNValues
    ELSE {(previous + ((TimeSpan * costs[k]) \div TotalCost)) % Wrap}

SetStop(k) ==
    /\ pc = "stops" /\ k = i + 1 /\ k <= NumStops
    /\ IF IsInterpolated(k)
       THEN \E sec \in ReachedAt(k) :
              /\ previous' = sec
              /\ filled' = filled \cup {k}
              /\ times' = [times EXCEPT ![k] =
                    [arr |-> TotalSeconds(TimeOf(sec)),
                     dep |-> TotalSeconds(AddSeconds(TimeOf(sec), DwellTime)),
                     given |-> TRUE]]
       ELSE UNCHANGED <<previous, filled, times>>
    /\ stopDists' = [stopDists EXCEPT ![k] = hopDists[k]]
    /\ i' = k
    /\ UNCHANGED <<shapeVars, interpolate, pc>>

StopsDone ==
    /\ pc = "stops" /\ i = NumStops
    /\ pc' = "done"
    /\ UNCHANGED <<shapeVars, interpolate, tripVars>>

Done == pc = "done" /\ UNCHANGED vars

Next ==
    \/ \E gap \in Gaps : VisitPoint(gap)
    \/ \E cost \in HopCosts : EndHop(cost)
    \/ StartTrip
    \/ \E k \in 1..NumStops : SetStop(k)
    \/ StopsDone \/ Done

Spec == Init /\ [][Next]_vars

-----------------------------------------------------------------------------
(* Properties.                                                             *)

ShapeTypeOK ==
    /\ dist \in Int /\ lastDist \in Int
    /\ points \in Seq(Nat)
    /\ visited \in 0..MaxPoints
    /\ hopDists \in Seq(Int) /\ costs \in Seq(Nat)
    /\ Len(hopDists) \in 1..NumStops /\ Len(costs) = Len(hopDists)
    /\ pc \in {"shape", "stops", "done"}

TypeOK ==
    /\ ShapeTypeOK
    /\ pc # "shape" => times \in [1..NumStops -> [arr : Nat, dep : Nat, given : BOOLEAN]]
    /\ i \in 0..NumStops /\ previous \in Nat /\ filled \subseteq 1..i

\* The written points start at distance 0, increase strictly, and never lag
\* more than 0.01 m behind the geometry, although points are left out.
PointsIncrease ==
    /\ \A m, n \in 1..Len(points) : m < n => points[m] + 1 < points[n]
    /\ Len(points) > 0 => points[1] = 0 /\ points[Len(points)] = lastDist
    /\ Len(points) > 0 => dist - lastDist \in {0, 1}

\* Every stop lies at one of the written points, stops follow each other in
\* the order of the trip, and the last one is at the end of the shape:
\* shape_dist_traveled of stop_times.txt agrees with that of shapes.txt.
StopsOnShape ==
    /\ Len(hopDists) > 1 =>
        \A k \in 1..Len(hopDists) : \E m \in 1..Len(points) : hopDists[k] = points[m]
    /\ \A k, l \in 1..Len(hopDists) : k <= l => hopDists[k] <= hopDists[l]
    /\ pc # "shape" => hopDists[NumStops] = points[Len(points)]

\* The interpolated arrivals lie between the first and the last departure,
\* and each is no earlier than the one before it, if the trip has a cost and
\* its last departure is not before its first.
TimesInOrder ==
    pc # "shape" /\ TotalCost > 0 /\ times[1].dep <= times[NumStops].dep =>
        /\ \A k \in filled : times[k].arr \in times[1].dep..times[NumStops].dep
        /\ \A k, l \in filled : k < l => times[k].arr <= times[l].arr

\* The departure is the arrival and the dwell time, across the carries of
\* minutes and hours.
DwellKept == \A k \in filled : times[k].dep = times[k].arr + DwellTime
=============================================================================
