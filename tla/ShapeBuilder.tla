---------------------------- MODULE ShapeBuilder ----------------------------
(***************************************************************************)
(* The main loop of pfaedle: for every MOT configuration a shape_builder   *)
(* clusters the trips of the feed, map-matches one trip per cluster, gives *)
(* the resulting shape a free id and attaches it to every trip of the      *)
(* cluster, erasing old shapes that lose their last trip.                  *)
(*                                                                         *)
(* The program is sequential (the OpenMP pragmas are commented out); what  *)
(* makes it hard is the bookkeeping over the shared feed: ids that are     *)
(* generated, erased and generated again, usage counts taken once and      *)
(* decremented later, shape ids that do not resolve because shapes.txt was *)
(* not loaded, and several builders working on one feed in turn.           *)
(*                                                                         *)
(* Geometry is abstracted: a shape is the trip it was computed for, or     *)
(* Input when it was read from shapes.txt.  A generated id is the pair of  *)
(* its route and its counter (the string "shp_<route>_<type>_<counter>"    *)
(* determines both).                                                       *)
(***************************************************************************)
EXTENDS Integers, Sequences, FiniteSets

CONSTANTS
    Trips,       \* keys of feed.trips
    Routes,      \* keys of feed.routes
    Types,       \* route types (MOTs)
    Stops,       \* keys of feed.stops
    RouteOf,     \* RouteOf[t]: the route of trip t, NoRoute when it is missing
    TypeOf,      \* TypeOf[r]: route_type of route r
    LineOf,      \* LineOf[r]: normalised line name of route r
    StopTimes,   \* set of stop_times.txt tables: for each trip its stops, in order
    NameOf,      \* NameOf[s]: normalised name of stop s
    Near,        \* pairs of distinct stops with one track and at most 1 m apart
    ParentOf,    \* ParentOf[s]: parent station of an entrance, else NoStop
    Snapped,     \* stops to which osm_builder attaches a node of the graph
    MotCfgs,     \* sequence of the route_type sets of the MOT configurations
    Mots,        \* route types selected on the command line (-m)
    Options,     \* set of [drop, evaluate] command line flags
    InputIds,    \* shape ids that may occur in the input feed
    MaxShpCnt,   \* bound on the counter in generated shape ids
    NoRoute, NoStop, NoShape, NoId, Input

ShapeIds == Routes \X (1..MaxShpCnt)

Content == Trips \cup {Input}

ASSUME FeedAssumption ==
    /\ IsFiniteSet(Trips)
    /\ RouteOf \in [Trips -> Routes \cup {NoRoute}] /\ NoRoute \notin Routes
    /\ TypeOf \in [Routes -> Types]
    /\ DOMAIN LineOf = Routes
    /\ StopTimes \subseteq [Trips -> Seq(Stops)]
    /\ DOMAIN NameOf = Stops
    /\ Near \subseteq Stops \X Stops
    /\ ParentOf \in [Stops -> Stops \cup {NoStop}] /\ NoStop \notin Stops
    /\ Snapped \subseteq Stops

ASSUME RunAssumption ==
    /\ MotCfgs \in Seq(SUBSET Types)
    /\ Mots \subseteq Types
    /\ Options \subseteq [drop : BOOLEAN, evaluate : BOOLEAN]
    /\ MaxShpCnt \in Nat
    /\ InputIds \subseteq ShapeIds
    /\ NoId \notin ShapeIds
    /\ Input \notin Trips /\ NoShape \notin Trips \cup {Input}

VARIABLES
    opt,       \* the command line flags
    input,     \* the feed on disk: [ids: trip -> shape_id, shapes: shapes.txt,
               \* stops: stop_times.txt]
    shapes,    \* feed.shapes: id -> content, NoShape when the key is absent
    shapeId,   \* trip.shape_id
    pc,        \* where the run is
    cfgIdx,    \* index of the MOT configuration being processed
    todo,      \* trips cluster_trips has not visited yet
    clusters,  \* clusters built so far: [rep: first trip, members: trips]
    rAttrs,    \* keys of shape_builder::_rAttrs
    left,      \* indices of clusters still to be matched
    usage,     \* shpUsage
    shpCnt,    \* _curShpCnt
    cur        \* the cluster being assigned: [id, rep, members left]

vars == <<opt, input, shapes, shapeId, pc, cfgIdx, todo, clusters, rAttrs,
          left, usage, shpCnt, cur>>

feedVars == <<shapes, shapeId>>

-----------------------------------------------------------------------------
(* The feed.                                                               *)

Present(id) == id \in ShapeIds /\ shapes[id] # NoShape

\* trip::shape(): the key lookup in feed.shapes; a stored shape has points
HasShape(t) == Present(shapeId[t])

Users(id) == {t \in Trips : shapeId[t] = id}

TripType(t) == TypeOf[RouteOf[t]]

\* trip::stop_times(): the stops of a trip
StopsOf == input.stops

UsedMots(i) == MotCfgs[i] \cap Mots

\* The stop write_mot_stops registers for s: the parent of an entrance
RoutingStop(s) == IF ParentOf[s] # NoStop THEN ParentOf[s] ELSE s

\* Mutant: only the first stop of a trip is registered
FirstFeedStops(i) ==
    {RoutingStop(StopsOf[t][1]) :
        t \in {u \in Trips : /\ StopsOf[u] # <<>> /\ RouteOf[u] # NoRoute
                             /\ TripType(u) \in UsedMots(i)}}

\* write_mot_stops: the keys of feed_stops for MOT configuration i
FeedStops(i) ==
    UNION {{RoutingStop(StopsOf[t][k]) : k \in DOMAIN StopsOf[t]} :
             t \in {u \in Trips : /\ RouteOf[u] # NoRoute
                                  /\ TripType(u) \in UsedMots(i)}}

\* get_node_candidate_route: every stop of the trip has a node candidate.
\* The lookup is by the stop itself, not by its RoutingStop.
Routable(i, t) ==
    \A k \in DOMAIN StopsOf[t] : StopsOf[t][k] \in FeedStops(i) \cap Snapped

\* Mutant: the dropShapes test inverted
KeepsShapeInverted(t) == HasShape(t) /\ opt.drop

\* Trips that keep the shape they have: skipped by get_gtfs_box, cluster_trips
KeepsShape(t) == HasShape(t) /\ ~opt.drop

\* stop_times() of a trip without any stop_time throws out_of_range
ReadsMissingStopTimes(i) ==
    \E t \in Trips :
        /\ StopsOf[t] = <<>>
        /\ \/ RouteOf[t] # NoRoute /\ TripType(t) \in UsedMots(i)
           \/ ~KeepsShape(t)

\* Mutant: trips of exactly two stops are left out
EligibleLonger(i, t) ==
    /\ ~KeepsShape(t)
    /\ Len(StopsOf[t]) > 2
    /\ RouteOf[t] # NoRoute
    /\ TripType(t) \in UsedMots(i)

\* cluster_trips: the conditions under which a trip gets into a cluster
Eligible(i, t) ==
    /\ ~KeepsShape(t)
    /\ Len(StopsOf[t]) >= 2
    /\ RouteOf[t] # NoRoute
    /\ TripType(t) \in Mots
    /\ TripType(t) \in MotCfgs[i]

Ends(t) == <<StopsOf[t][1], StopsOf[t][Len(StopsOf[t])]>>

Attrs(t) ==
    [short_name |-> LineOf[RouteOf[t]],
     from |-> NameOf[Ends(t)[1]], to |-> NameOf[Ends(t)[2]]]

StopRoutingEqual(a, b) ==
    a = b \/ (NameOf[a] = NameOf[b] /\ <<a, b>> \in Near)

RoutingEqual(a, b) ==
    /\ Len(StopsOf[a]) = Len(StopsOf[b])
    /\ Attrs(a) = Attrs(b)
    /\ \A k \in DOMAIN StopsOf[a] : StopRoutingEqual(StopsOf[a][k], StopsOf[b][k])

\* Clusters of the index bucket of t whose first trip is routing-equal to t
Matching(t) ==
    {c \in DOMAIN clusters : /\ Ends(clusters[c].rep) = Ends(t)
                             /\ RoutingEqual(clusters[c].rep, t)}

NoCluster == [id |-> NoId, rep |-> Input, members |-> {}]

-----------------------------------------------------------------------------
Init ==
    /\ opt \in Options
    /\ input \in [ids : [Trips -> InputIds \cup {NoId}], shapes : SUBSET InputIds,
                  stops : StopTimes]
    /\ shapeId = input.ids
    /\ shapes = [id \in ShapeIds |->
                    IF opt.evaluate /\ id \in input.shapes THEN Input ELSE NoShape]
    /\ pc = "next"
    /\ cfgIdx = 0
    /\ todo = {}
    /\ clusters = <<>>
    /\ rAttrs = {}
    /\ left = {}
    /\ usage = [id \in ShapeIds |-> 0]
    /\ shpCnt = 0
    /\ cur = NoCluster

(***************************************************************************)
(* The loop over the MOT configurations in app::run.  A configuration      *)
(* without selected route types is skipped.  Otherwise feed_stops and the  *)
(* bounding box are computed, which visits the trips' stop_times, and a    *)
(* fresh shape_builder is made.                                            *)
(***************************************************************************)
\* Mutant: "continue" without going to the next configuration
SkipConfigForever ==
    /\ pc = "next" /\ cfgIdx < Len(MotCfgs)
    /\ UsedMots(cfgIdx + 1) = {}
    /\ UNCHANGED vars

SkipConfig ==
    /\ pc = "next" /\ cfgIdx < Len(MotCfgs)
    /\ UsedMots(cfgIdx + 1) = {}
    /\ cfgIdx' = cfgIdx + 1
    /\ UNCHANGED <<opt, input, feedVars, pc, todo, clusters, rAttrs, left,
                   usage, shpCnt, cur>>

StartConfig ==
    /\ pc = "next" /\ cfgIdx < Len(MotCfgs)
    /\ UsedMots(cfgIdx + 1) # {}
    /\ cfgIdx' = cfgIdx + 1
    /\ pc' = IF ReadsMissingStopTimes(cfgIdx + 1) THEN "died" ELSE "cluster"
    /\ todo' = Trips
    /\ clusters' = <<>>
    /\ rAttrs' = {}
    /\ shpCnt' = 0
    /\ UNCHANGED <<opt, input, feedVars, left, usage, cur>>

(***************************************************************************)
(* cluster_trips visits the trips in the order of their ids; ids are       *)
(* arbitrary, so any order is possible.  getRAttrs is called, and caches,  *)
(* for both trips of every comparison and for the first trip of a cluster. *)
(***************************************************************************)
SkipTrip(t) ==
    /\ pc = "cluster" /\ t \in todo
    /\ ~Eligible(cfgIdx, t)
    /\ todo' = todo \ {t}
    /\ UNCHANGED <<opt, input, feedVars, pc, cfgIdx, clusters, rAttrs, left,
                   usage, shpCnt, cur>>

\* routingEqual compares the lengths before it asks for the attributes
Compared(t) ==
    {u \in Trips : \E c \in DOMAIN clusters :
        /\ u \in {t, clusters[c].rep}
        /\ Ends(clusters[c].rep) = Ends(t)
        /\ Len(StopsOf[clusters[c].rep]) = Len(StopsOf[t])
        /\ \A m \in Matching(t) : c <= m}

\* Mutant: no explicit getRAttrs call for a new cluster
ComparedOnly(t) == Compared(t)

\* ... and the explicit call that caches the attributes of a new cluster
CachedForNew(t) == Compared(t) \cup {t}

JoinCluster(t) ==
    /\ pc = "cluster" /\ t \in todo
    /\ Eligible(cfgIdx, t)
    /\ \E c \in Matching(t) :
        /\ \A m \in Matching(t) : c <= m
        /\ clusters' = [clusters EXCEPT ![c] = [rep |-> @.rep, members |-> @.members \cup {t}]]
    /\ rAttrs' = rAttrs \cup Compared(t)
    /\ todo' = todo \ {t}
    /\ UNCHANGED <<opt, input, feedVars, pc, cfgIdx, left, usage, shpCnt, cur>>

NewCluster(t) ==
    /\ pc = "cluster" /\ t \in todo
    /\ Eligible(cfgIdx, t)
    /\ Matching(t) = {}
    /\ clusters' = Append(clusters, [rep |-> t, members |-> {t}])
    /\ rAttrs' = rAttrs \cup CachedForNew(t)
    /\ todo' = todo \ {t}
    /\ UNCHANGED <<opt, input, feedVars, pc, cfgIdx, left, usage, shpCnt, cur>>

\* get_shape: count the trips of every shape, shuffle the clusters
CountUsage ==
    /\ pc = "cluster" /\ todo = {}
    /\ usage' = [id \in ShapeIds |->
                    IF Present(id) THEN Cardinality(Users(id)) ELSE 0]
    /\ left' = DOMAIN clusters
    /\ pc' = "match"
    /\ UNCHANGED <<opt, input, feedVars, cfgIdx, todo, clusters, rAttrs,
                   shpCnt, cur>>

\* Mutant: the next counter, whether or not its id is taken
IsNextShapeId(t, k) == k = shpCnt + 1

\* get_free_shapeId for the route of t: the first counter that is free
IsFreeShapeId(t, k) ==
    /\ k > shpCnt
    /\ ~Present(<<RouteOf[t], k>>)
    /\ \A j \in (shpCnt + 1)..(k - 1) : Present(<<RouteOf[t], j>>)

\* Map-match the first trip of a cluster; without candidates an exception
\* leaves app::run uncaught.
MatchFails(c) ==
    /\ pc = "match" /\ c \in left
    /\ ~Routable(cfgIdx, clusters[c].rep)
    /\ pc' = "died"
    /\ UNCHANGED <<opt, input, feedVars, cfgIdx, todo, clusters, rAttrs, left,
                   usage, shpCnt, cur>>

Match(c) ==
    /\ pc = "match" /\ c \in left
    /\ Routable(cfgIdx, clusters[c].rep)
    /\ \E k \in 1..MaxShpCnt :
        /\ IsFreeShapeId(clusters[c].rep, k)
        /\ shpCnt' = k
        /\ cur' = [id |-> <<RouteOf[clusters[c].rep], k>>,
                   rep |-> clusters[c].rep, members |-> clusters[c].members]
    /\ left' = left \ {c}
    /\ pc' = "assign"
    /\ UNCHANGED <<opt, input, feedVars, cfgIdx, todo, clusters, rAttrs, usage>>

\* The old shape of t loses a user ...
ReleasesShape(t) == HasShape(t) /\ usage[shapeId[t]] > 0

\* Mutant: erased with the first trip that leaves it
ReleasedAtOnce(t) ==
    IF ReleasesShape(t) THEN [shapes EXCEPT ![shapeId[t]] = NoShape] ELSE shapes

\* Mutant: the count compared before it is decremented
ReleasedNever(t) ==
    IF ReleasesShape(t) /\ usage[shapeId[t]] = 0
    THEN [shapes EXCEPT ![shapeId[t]] = NoShape]
    ELSE shapes

\* ... and is erased when none is left
Released(t) ==
    IF ReleasesShape(t) /\ usage[shapeId[t]] = 1
    THEN [shapes EXCEPT ![shapeId[t]] = NoShape]
    ELSE shapes

\* set_shape: feed.shapes.emplace keeps an entry that is already there
Emplaced(shps, id, content) ==
    [shps EXCEPT ![id] = IF @ = NoShape THEN content ELSE @]

Assign(t) ==
    /\ pc = "assign" /\ t \in cur.members
    /\ usage' = IF ReleasesShape(t)
                THEN [usage EXCEPT ![shapeId[t]] = @ - 1]
                ELSE usage
    /\ shapes' = Emplaced(Released(t), cur.id, cur.rep)
    /\ shapeId' = [shapeId EXCEPT ![t] = cur.id]
    /\ cur' = [cur EXCEPT !.members = @ \ {t}]
    /\ UNCHANGED <<opt, input, pc, cfgIdx, todo, clusters, rAttrs, left, shpCnt>>

ClusterDone ==
    /\ pc = "assign" /\ cur.members = {}
    /\ pc' = "match"
    /\ cur' = NoCluster
    /\ UNCHANGED <<opt, input, feedVars, cfgIdx, todo, clusters, rAttrs, left,
                   usage, shpCnt>>

ConfigDone ==
    /\ pc = "match" /\ left = {}
    /\ pc' = "next"
    /\ UNCHANGED <<opt, input, feedVars, cfgIdx, todo, clusters, rAttrs, left,
                   usage, shpCnt, cur>>

\* After the last configuration the feed is written
WriteFeed ==
    /\ pc = "next" /\ cfgIdx = Len(MotCfgs)
    /\ pc' = "done"
    /\ UNCHANGED <<opt, input, feedVars, cfgIdx, todo, clusters, rAttrs, left,
                   usage, shpCnt, cur>>

Terminated == pc \in {"done", "died"} /\ UNCHANGED vars

Next ==
    \/ SkipConfig \/ StartConfig
    \/ \E t \in Trips : SkipTrip(t) \/ JoinCluster(t) \/ NewCluster(t)
    \/ CountUsage
    \/ \E c \in left : MatchFails(c) \/ Match(c)
    \/ \E t \in Trips : Assign(t)
    \/ ClusterDone \/ ConfigDone \/ WriteFeed
    \/ Terminated

\* The program is one thread that keeps running until it ends
Spec == Init /\ [][Next]_vars /\ WF_vars(Next)

-----------------------------------------------------------------------------
(* Properties.                                                             *)

RoutedTrips == {t \in Trips : RouteOf[t] # NoRoute}

ClusterRecord == [rep : RoutedTrips, members : SUBSET Trips]

CurRecord == [id : ShapeIds, rep : Trips, members : SUBSET Trips]

TypeOK ==
    /\ opt \in [drop : BOOLEAN, evaluate : BOOLEAN]
    /\ input \in [ids : [Trips -> InputIds \cup {NoId}], shapes : SUBSET InputIds,
                  stops : StopTimes]
    /\ shapes \in [ShapeIds -> Content \cup {NoShape}]
    /\ shapeId \in [Trips -> ShapeIds \cup {NoId}]
    /\ pc \in {"next", "cluster", "match", "assign", "done", "died"}
    /\ cfgIdx \in 0..Len(MotCfgs)
    /\ todo \subseteq Trips
    /\ clusters \in Seq(ClusterRecord)
    /\ rAttrs \subseteq Trips
    /\ left \subseteq DOMAIN clusters
    /\ usage \in [ShapeIds -> Nat]
    /\ shpCnt \in 0..MaxShpCnt
    /\ cur \in CurRecord \cup {NoCluster}
    /\ pc = "assign" => cur \in CurRecord

\* What a trip's shape_id resolves to
Geometry(t) == IF HasShape(t) THEN shapes[shapeId[t]] ELSE NoShape

\* A trip that has a shape never loses it and never silently gets another
\* one: in every step the geometry behind its shape_id stays, or the step is
\* set_shape for this very trip and the geometry is that of its cluster.
\* (shape ids are erased and generated again while other trips hold them)
KeepsOrAssigns(t) ==
    HasShape(t) /\ Geometry(t)' # Geometry(t) =>
        /\ t \in cur.members /\ t \notin cur'.members
        /\ Geometry(t)' = cur.rep

OnlyAssignedTripChanges == [][\A t \in Trips : KeepsOrAssigns(t)]_vars

\* A shape that loses its last trip leaves the feed in the same step, so that
\* the written shapes.txt has no garbage (shpUsage in get_shape).
ErasedWithLastUser(id) ==
    Present(id) /\ Users(id) # {} /\ Users(id)' = {} => ~Present(id)'

LastUserErasesShape == [][\A id \in ShapeIds : ErasedWithLastUser(id)]_vars

\* The inductive core of the two properties above: a positive usage count is
\* the exact number of trips of a shape that is still in the feed; a shape
\* without a count is held by a trip that will not be assigned any more.
Pending ==
    cur.members \cup UNION {clusters[c].members : c \in left}

UsageExact ==
    pc \in {"match", "assign"} =>
        /\ \A id \in ShapeIds :
            usage[id] > 0 => Present(id) /\ usage[id] = Cardinality(Users(id))
        /\ \A id \in ShapeIds :
            Present(id) /\ usage[id] = 0 /\ Users(id) # {} => ~(Users(id) \subseteq Pending)

\* The key of the const getRAttrs lookup is in the cache when a cluster is
\* matched; the code dereferences end() otherwise.
AttrsCached == \A c \in left : clusters[c].rep \in rAttrs

\* Every trip is in at most one cluster that is still to be processed, so
\* set_shape runs at most once per trip and builder.
ClustersDisjoint ==
    /\ \A c, d \in DOMAIN clusters : c # d =>
        clusters[c].members \cap clusters[d].members = {}
    /\ \A c \in DOMAIN clusters : pc = "cluster" => clusters[c].members \cap todo = {}
    /\ \A c \in left : cur.members \cap clusters[c].members = {}

\* The id of the cluster being assigned has no counted trips, and once it is
\* in the feed it holds the geometry of this cluster.
CurIdFresh ==
    pc = "assign" =>
        /\ usage[cur.id] = 0
        /\ Present(cur.id) => shapes[cur.id] = cur.rep

\* Nothing is left of a cluster or of a builder when the next one starts
NothingLeft ==
    /\ pc \in {"next", "cluster", "match"} => cur = NoCluster
    /\ pc \in {"next", "cluster"} => left = {}

\* The inductive invariant of the feed's bookkeeping
Bookkeeping ==
    /\ TypeOK
    /\ UsageExact
    /\ ClustersDisjoint
    /\ CurIdFresh
    /\ NothingLeft

Selected(t) ==
    /\ Len(StopsOf[t]) >= 2 /\ RouteOf[t] # NoRoute
    /\ \E i \in DOMAIN MotCfgs : TripType(t) \in UsedMots(i)

\* The shape_id that trip t came with did not resolve when the feed was loaded
Dangling(t) ==
    /\ input.ids[t] # NoId
    /\ ~(opt.evaluate /\ input.ids[t] \in input.shapes)

\* When the run ends, every selected trip has a shape: its own from the input
\* (which -D removes), or one computed for a routing-equal trip.  There is one
\* exception, in the default mode, which does not read shapes.txt: without -D
\* a trip keeps the dangling shape_id it came with, and silently the shape of
\* some other trip, if a configuration before the first one that handles it
\* was given that id by get_free_shapeId.
FeedShaped ==
    pc = "done" =>
        \A t \in Trips : Selected(t) =>
            \/ Geometry(t) = Input /\ ~opt.drop
            \/ Geometry(t) \in Trips /\ RoutingEqual(Geometry(t), t)
            \/ /\ Geometry(t) \in Trips /\ ~opt.drop
               /\ Dangling(t) /\ shapeId[t] = input.ids[t]
               /\ \E i \in DOMAIN MotCfgs :
                    /\ TripType(Geometry(t)) \in UsedMots(i)
                    /\ \A j \in 1..i : TripType(t) \notin UsedMots(j)

\* Without -D, a trip whose shape was in the input and was loaded keeps it
LoadedShapesKept ==
    opt.evaluate /\ ~opt.drop =>
        \A t \in Trips : input.ids[t] \in input.shapes => Geometry(t) = Input

\* What get_node_candidate_route really fails over: besides trips without
\* stop_times only a cluster that stops at an entrance, or at a stop that has
\* no node.  Every other stop of a clustered trip was registered.
DiesOnlyAtEntrances ==
    pc = "died" =>
        \/ ReadsMissingStopTimes(cfgIdx)
        \/ \E c \in left : \E k \in DOMAIN StopsOf[clusters[c].rep] :
            LET s == StopsOf[clusters[c].rep][k]
            IN  RoutingStop(s) # s \/ s \notin Snapped

\* app::run ends
RunEnds == <>(pc \in {"done", "died"})
=============================================================================
