------------------------- MODULE ShapeBuilderProofs -------------------------
(***************************************************************************)
(* Proofs about the main loop, for every feed, every sequence of MOT       *)
(* configurations and every command line: first that the bookkeeping of    *)
(* shapes is correct, then, from it, that all selected trips end with a    *)
(* shape of their own pattern, that loaded shapes are kept and that the    *)
(* run fails only where the code means it to.                              *)
(***************************************************************************)
EXTENDS ShapeBuilder, TLAPS, FiniteSetTheorems

USE DEF feedVars

\* The set of trips of a shape is finite, so usage counts are naturals
LEMMA UsersFinite ==
    ASSUME NEW id
    PROVE  IsFiniteSet(Users(id)) /\ Cardinality(Users(id)) \in Nat
  BY FeedAssumption, FS_Subset, FS_CardinalityType DEF Users

\* The initial state satisfies the bookkeeping invariant (app::run starts
\* with a freshly read feed and no builder)
LEMMA InitBookkeeping == Init => Bookkeeping
  <1> SUFFICES ASSUME Init PROVE Bookkeeping
    OBVIOUS
  <1>1. TypeOK
    <2>1. opt \in [drop : BOOLEAN, evaluate : BOOLEAN]
      BY RunAssumption DEF Init
    <2>2. shapes \in [ShapeIds -> Content \cup {NoShape}]
      BY DEF Init, Content
    <2>3. shapeId \in [Trips -> ShapeIds \cup {NoId}]
      BY RunAssumption DEF Init
    <2>4. cfgIdx \in 0..Len(MotCfgs) /\ shpCnt \in 0..MaxShpCnt
      BY RunAssumption DEF Init
    <2>5. clusters \in Seq(ClusterRecord) /\ left \subseteq DOMAIN clusters
      BY DEF Init
    <2> QED
      BY <2>1, <2>2, <2>3, <2>4, <2>5 DEF Init, TypeOK
  <1> QED
    BY <1>1 DEF Init, Bookkeeping, UsageExact, ClustersDisjoint, CurIdFresh,
                NothingLeft, NoCluster

-----------------------------------------------------------------------------
(* Every action preserves the invariant.  The loop and clustering actions  *)
(* do not touch the feed and are handled together where they are alike.    *)

\* Skipping or starting a MOT configuration
LEMMA ConfigStep ==
    ASSUME Bookkeeping, SkipConfig \/ StartConfig
    PROVE  Bookkeeping'
  <1>1. TypeOK'
    <2>1. cfgIdx' \in 0..Len(MotCfgs)
      BY RunAssumption DEF Bookkeeping, TypeOK, SkipConfig, StartConfig
    <2>2. clusters' \in Seq(ClusterRecord) /\ left' \subseteq DOMAIN clusters'
      <3>1. left' = {}
        BY DEF Bookkeeping, SkipConfig, StartConfig, NothingLeft
      <3>2. clusters' = clusters \/ clusters' = <<>>
        BY DEF SkipConfig, StartConfig
      <3>3. clusters \in Seq(ClusterRecord) /\ <<>> \in Seq(ClusterRecord)
        BY DEF Bookkeeping, TypeOK
      <3> QED
        BY <3>1, <3>2, <3>3
    <2>3. pc' # "assign"
      BY DEF SkipConfig, StartConfig
    <2>4. /\ UNCHANGED <<opt, input, shapes, shapeId, usage, cur>>
          /\ todo' \subseteq Trips /\ rAttrs' \subseteq Trips
          /\ shpCnt' \in 0..MaxShpCnt
          /\ pc' \in {"next", "cluster", "died"}
      BY RunAssumption DEF Bookkeeping, TypeOK, SkipConfig, StartConfig
    <2> QED
      BY <2>1, <2>2, <2>3, <2>4 DEF Bookkeeping, TypeOK
  <1>2. left' = {} /\ cur' = NoCluster /\ pc' \in {"next", "cluster", "died"}
    BY DEF Bookkeeping, NothingLeft, SkipConfig, StartConfig
  <1>3. ClustersDisjoint'
    BY <1>2 DEF Bookkeeping, ClustersDisjoint, SkipConfig, StartConfig
  <1> QED
    BY <1>1, <1>2, <1>3 DEF Bookkeeping, UsageExact, CurIdFresh, NothingLeft

\* Visiting a trip in cluster_trips
LEMMA ClusterStep ==
    ASSUME Bookkeeping, NEW t \in Trips,
           SkipTrip(t) \/ JoinCluster(t) \/ NewCluster(t)
    PROVE  Bookkeeping'
  <1>1. /\ pc = "cluster" /\ pc' = "cluster" /\ t \in todo
        /\ left' = {} /\ cur' = NoCluster /\ todo' = todo \ {t}
    BY DEF Bookkeeping, NothingLeft, SkipTrip, JoinCluster, NewCluster
  <1>2. /\ clusters' \in Seq(ClusterRecord)
        /\ \A c, d \in DOMAIN clusters' : c # d =>
             clusters'[c].members \cap clusters'[d].members = {}
        /\ \A c \in DOMAIN clusters' : clusters'[c].members \cap todo' = {}
    <2> USE <1>1 DEF Bookkeeping, TypeOK, ClustersDisjoint
    <2>1. CASE SkipTrip(t)
      BY <2>1 DEF SkipTrip
    <2>2. CASE JoinCluster(t)
      <3>1. PICK c \in DOMAIN clusters :
              clusters' = [clusters EXCEPT
                ![c] = [rep |-> @.rep, members |-> @.members \cup {t}]]
        BY <2>2 DEF JoinCluster, Matching
      <3> DEFINE rec == [rep |-> clusters[c].rep, members |-> clusters[c].members \cup {t}]
      <3>2. rec \in ClusterRecord /\ rec.members = clusters[c].members \cup {t}
        <4>1. clusters[c] \in ClusterRecord
          OBVIOUS
        <4>2. clusters[c].rep \in RoutedTrips /\ clusters[c].members \subseteq Trips
          BY <4>1 DEF ClusterRecord
        <4> QED
          BY <4>2 DEF ClusterRecord
      <3> HIDE DEF rec
      <3>3. clusters' = [clusters EXCEPT ![c] = rec]
        BY <3>1 DEF rec
      <3>4. /\ DOMAIN clusters' = DOMAIN clusters
            /\ \A d \in DOMAIN clusters : clusters'[d] = IF d = c THEN rec ELSE clusters[d]
            /\ clusters' \in Seq(ClusterRecord)
        BY <3>2, <3>3
      <3>5. \A d \in DOMAIN clusters : t \notin clusters[d].members
        OBVIOUS
      <3>6. ASSUME NEW i \in DOMAIN clusters', NEW j \in DOMAIN clusters', i # j
            PROVE  clusters'[i].members \cap clusters'[j].members = {}
        BY <3>2, <3>4, <3>5, <3>6
      <3>7. ASSUME NEW i \in DOMAIN clusters'
            PROVE  clusters'[i].members \cap todo' = {}
        BY <3>2, <3>4
      <3> QED
        BY <3>4, <3>6, <3>7
    <2>3. CASE NewCluster(t)
      <3>1. /\ clusters' = Append(clusters, [rep |-> t, members |-> {t}])
            /\ t \in RoutedTrips
        BY <2>3 DEF NewCluster, Eligible, RoutedTrips
      <3>2. /\ DOMAIN clusters' = 1..(Len(clusters) + 1)
            /\ DOMAIN clusters = 1..Len(clusters) /\ Len(clusters) \in Nat
            /\ \A d \in DOMAIN clusters : clusters'[d] = clusters[d]
            /\ clusters'[Len(clusters) + 1].members = {t}
            /\ clusters' \in Seq(ClusterRecord)
        BY <3>1 DEF ClusterRecord
      <3>3. \A d \in DOMAIN clusters : t \notin clusters[d].members
        OBVIOUS
      <3>4. \A d \in DOMAIN clusters' : d \in DOMAIN clusters \/ d = Len(clusters) + 1
        BY <3>2
      <3>5. ASSUME NEW c \in DOMAIN clusters', NEW d \in DOMAIN clusters', c # d
            PROVE  clusters'[c].members \cap clusters'[d].members = {}
        BY <3>2, <3>3, <3>4, <3>5
      <3>6. ASSUME NEW c \in DOMAIN clusters'
            PROVE  clusters'[c].members \cap todo' = {}
        BY <3>2, <3>4
      <3> QED
        BY <3>2, <3>5, <3>6
    <2> QED
      BY <2>1, <2>2, <2>3
  <1>3. rAttrs' \subseteq Trips
    BY DEF Bookkeeping, TypeOK, SkipTrip, JoinCluster, NewCluster, Compared, CachedForNew
  <1>4. TypeOK'
    BY <1>1, <1>2, <1>3 DEF Bookkeeping, TypeOK, SkipTrip, JoinCluster, NewCluster
  <1>5. ClustersDisjoint'
    BY <1>1, <1>2 DEF ClustersDisjoint
  <1> QED
    BY <1>1, <1>4, <1>5 DEF Bookkeeping, UsageExact, CurIdFresh, NothingLeft

\* Counting the usage of every shape: a shape without a count has no trip
LEMMA CountStep ==
    ASSUME Bookkeeping, CountUsage
    PROVE  Bookkeeping'
  <1>1. pc' = "match" /\ cur' = NoCluster /\ UNCHANGED <<shapes, shapeId, clusters>>
    BY DEF Bookkeeping, NothingLeft, CountUsage
  <1>2. \A id \in ShapeIds : Users(id)' = Users(id) /\ Present(id)' = Present(id)
    BY <1>1 DEF Users, Present
  <1>3. TypeOK'
    <2>1. usage' \in [ShapeIds -> Nat]
      BY UsersFinite DEF CountUsage
    <2> QED
      BY <1>1, <2>1 DEF Bookkeeping, TypeOK, CountUsage
  <1>4. ASSUME NEW id \in ShapeIds, usage'[id] > 0
        PROVE  Present(id)' /\ usage'[id] = Cardinality(Users(id)')
    BY <1>2, <1>4 DEF CountUsage
  <1>5. ASSUME NEW id \in ShapeIds, Present(id)', usage'[id] = 0
        PROVE  Users(id)' = {}
    <2>1. Cardinality(Users(id)) = 0
      BY <1>2, <1>5 DEF CountUsage
    <2> QED
      BY <1>2, <2>1, UsersFinite, FS_EmptySet
  <1>6. UsageExact'
    BY <1>4, <1>5 DEF UsageExact
  <1>7. ClustersDisjoint'
    BY <1>1 DEF Bookkeeping, ClustersDisjoint, NoCluster
  <1> QED
    BY <1>1, <1>3, <1>6, <1>7 DEF Bookkeeping, CurIdFresh, NothingLeft

\* Choosing a free id for a matched cluster: a free id has no counted trips
LEMMA MatchStep ==
    ASSUME Bookkeeping, NEW c \in left, Match(c)
    PROVE  Bookkeeping'
  <1>1. PICK k \in 1..MaxShpCnt :
          /\ IsFreeShapeId(clusters[c].rep, k)
          /\ shpCnt' = k
          /\ cur' = [id |-> <<RouteOf[clusters[c].rep], k>>,
                     rep |-> clusters[c].rep, members |-> clusters[c].members]
    BY DEF Match
  <1>2. /\ pc = "match" /\ pc' = "assign" /\ left' = left \ {c} /\ cur = NoCluster
        /\ UNCHANGED <<shapes, shapeId, clusters, usage>>
    BY DEF Match, Bookkeeping, NothingLeft
  <1> DEFINE id == <<RouteOf[clusters[c].rep], k>>
  <1>3. /\ clusters[c].rep \in Trips /\ clusters[c].members \subseteq Trips
        /\ RouteOf[clusters[c].rep] \in Routes
    <2>1. clusters[c] \in ClusterRecord
      BY DEF Bookkeeping, TypeOK
    <2> QED
      BY <2>1, FeedAssumption DEF ClusterRecord, RoutedTrips
  <1>4. id \in ShapeIds /\ ~Present(id)
    BY <1>1, <1>3 DEF IsFreeShapeId, ShapeIds
  <1>5. /\ cur' \in CurRecord
        /\ cur'.id = id /\ cur'.members = clusters[c].members
    BY <1>1, <1>3, <1>4 DEF CurRecord
  <1> HIDE DEF id
  <1>6. usage[id] = 0
    BY <1>2, <1>4 DEF Bookkeeping, UsageExact, TypeOK
  <1>7. TypeOK'
    <2>1. shpCnt' \in 0..MaxShpCnt
      BY <1>1, RunAssumption
    <2> QED
      BY <1>2, <1>5, <2>1 DEF Bookkeeping, TypeOK, Match
  <1>8. Pending' = Pending
    BY <1>2, <1>5 DEF Pending, NoCluster
  <1>9. UsageExact'
    BY <1>2, <1>8 DEF Bookkeeping, UsageExact, Present, Users
  <1>10. ClustersDisjoint'
    BY <1>2, <1>5 DEF Bookkeeping, ClustersDisjoint, TypeOK
  <1>11. CurIdFresh'
    BY <1>2, <1>4, <1>5, <1>6 DEF CurIdFresh, Present
  <1> QED
    BY <1>2, <1>7, <1>9, <1>10, <1>11 DEF Bookkeeping, NothingLeft

\* What set_shape and the release of the old shape do to feed and counts
LEMMA AssignFacts ==
    ASSUME Bookkeeping, NEW t \in Trips, Assign(t)
    PROVE  /\ t \in cur.members /\ cur'.members = cur.members \ {t}
           /\ cur' \in CurRecord /\ cur'.id = cur.id /\ cur'.rep = cur.rep
           /\ cur.id \in ShapeIds /\ cur.rep \in Trips /\ usage[cur.id] = 0
           /\ shapeId' = [shapeId EXCEPT ![t] = cur.id]
           /\ shapes' \in [ShapeIds -> Content \cup {NoShape}]
           /\ shapes'[cur.id] = cur.rep
           /\ \A id \in ShapeIds : id # cur.id =>
                shapes'[id] = IF id = shapeId[t] /\ usage[id] = 1
                              THEN NoShape ELSE shapes[id]
           /\ usage' \in [ShapeIds -> Nat]
           /\ \A id \in ShapeIds :
                usage'[id] = IF id = shapeId[t] /\ usage[id] > 0
                             THEN usage[id] - 1 ELSE usage[id]
  <1>1. cur \in CurRecord /\ t \in cur.members /\ pc = "assign"
    BY DEF Bookkeeping, TypeOK, Assign
  <1>2. /\ cur.id \in ShapeIds /\ cur.rep \in Trips /\ cur.members \subseteq Trips
        /\ usage[cur.id] = 0
    BY <1>1 DEF CurRecord, Bookkeeping, CurIdFresh
  <1>3. /\ cur' \in CurRecord /\ cur'.id = cur.id /\ cur'.rep = cur.rep
        /\ cur'.members = cur.members \ {t}
    BY <1>1 DEF Assign, CurRecord
  <1>4. \A id \in ShapeIds : usage[id] > 0 => Present(id)
    BY <1>1 DEF Bookkeeping, UsageExact
  <1>5. ReleasesShape(t) <=> shapeId[t] \in ShapeIds /\ usage[shapeId[t]] > 0
    BY <1>4 DEF ReleasesShape, HasShape, Present
  <1>6. /\ usage' \in [ShapeIds -> Nat]
        /\ \A id \in ShapeIds :
             usage'[id] = IF id = shapeId[t] /\ usage[id] > 0
                          THEN usage[id] - 1 ELSE usage[id]
    BY <1>5 DEF Bookkeeping, TypeOK, Assign
  <1>7. /\ Released(t) \in [ShapeIds -> Content \cup {NoShape}]
        /\ \A id \in ShapeIds :
             Released(t)[id] = IF id = shapeId[t] /\ usage[id] = 1
                               THEN NoShape ELSE shapes[id]
    BY <1>5 DEF Bookkeeping, TypeOK, Released
  <1>8. Released(t)[cur.id] = shapes[cur.id]
    BY <1>2, <1>7
  <1>9. shapes[cur.id] # NoShape => shapes[cur.id] = cur.rep
    BY <1>1, <1>2 DEF Bookkeeping, CurIdFresh, Present
  <1> HIDE DEF Released
  <1>10. /\ shapes' \in [ShapeIds -> Content \cup {NoShape}]
         /\ shapes'[cur.id] = cur.rep
         /\ \A id \in ShapeIds : id # cur.id => shapes'[id] = Released(t)[id]
    BY <1>2, <1>7, <1>8, <1>9 DEF Assign, Emplaced, Content
  <1>11. shapeId' = [shapeId EXCEPT ![t] = cur.id]
    BY DEF Assign
  <1> QED
    BY <1>1, <1>2, <1>3, <1>6, <1>7, <1>10, <1>11

\* How the trips of a shape change in set_shape
LEMMA AssignUsers ==
    ASSUME Bookkeeping, NEW t \in Trips, Assign(t), NEW id \in ShapeIds, id # cur.id
    PROVE  /\ Users(id)' = Users(id) \ {t}
           /\ shapeId[t] # id => Users(id)' = Users(id)
           /\ shapeId[t] = id => Cardinality(Users(id)') = Cardinality(Users(id)) - 1
  <1>1. Users(id)' = Users(id) \ {t}
    BY AssignFacts DEF Users, Bookkeeping, TypeOK
  <1>2. shapeId[t] # id => Users(id)' = Users(id)
    BY <1>1 DEF Users
  <1>3. shapeId[t] = id => Cardinality(Users(id) \ {t}) = Cardinality(Users(id)) - 1
    <2>1. shapeId[t] = id => t \in Users(id)
      BY DEF Users
    <2> QED
      BY <2>1, UsersFinite, FS_RemoveElement
  <1> QED
    BY <1>1, <1>2, <1>3

\* set_shape for one trip of the current cluster
LEMMA AssignStep ==
    ASSUME Bookkeeping, NEW t \in Trips, Assign(t)
    PROVE  Bookkeeping'
  <1>1. pc = "assign" /\ UNCHANGED <<pc, clusters, left, todo>>
    BY DEF Assign
  <1>2. TypeOK'
    <2>1. shapeId' \in [Trips -> ShapeIds \cup {NoId}]
      BY AssignFacts DEF Bookkeeping, TypeOK
    <2> QED
      BY <2>1, AssignFacts DEF Bookkeeping, TypeOK, Assign
  <1>3. t \in Pending /\ t \notin Pending' /\ Pending' \subseteq Pending
    BY <1>1, AssignFacts DEF Pending, Bookkeeping, ClustersDisjoint
  <1>4. ASSUME NEW id \in ShapeIds, usage'[id] > 0
        PROVE  Present(id)' /\ usage'[id] = Cardinality(Users(id)')
    <2>1. /\ id # cur.id /\ usage[id] > 0 /\ usage[id] \in Nat
          /\ id = shapeId[t] => usage[id] # 1 /\ usage'[id] = usage[id] - 1
          /\ id # shapeId[t] => usage'[id] = usage[id]
      BY <1>4, AssignFacts DEF Bookkeeping, TypeOK
    <2>2. Present(id) /\ usage[id] = Cardinality(Users(id))
      BY <1>1, <2>1 DEF Bookkeeping, UsageExact
    <2>3. Present(id)'
      BY <2>1, <2>2, AssignFacts DEF Present
    <2> QED
      BY <2>1, <2>2, <2>3, AssignUsers
  <1>5. ASSUME NEW id \in ShapeIds, Present(id)', usage'[id] = 0, Users(id)' # {}
        PROVE  ~(Users(id)' \subseteq Pending')
    <2>1. CASE id = cur.id
      <3>1. t \in Users(id)'
        BY <2>1, AssignFacts DEF Users, Bookkeeping, TypeOK
      <3> QED
        BY <3>1, <1>3
    <2>2. CASE id # cur.id
      <3>1. Present(id) /\ usage[id] = 0
        BY <1>5, <2>2, AssignFacts DEF Present, Bookkeeping, TypeOK
      <3>2. Users(id)' = Users(id) \ {t}
        BY <2>2, AssignUsers
      <3>3. PICK u \in Users(id) : u \notin Pending
        BY <1>1, <1>5, <3>1, <3>2 DEF Bookkeeping, UsageExact
      <3> QED
        BY <1>3, <3>2, <3>3
    <2> QED
      BY <2>1, <2>2
  <1>6. UsageExact'
    BY <1>4, <1>5 DEF UsageExact
  <1>7. ClustersDisjoint'
    BY <1>1, AssignFacts DEF Bookkeeping, ClustersDisjoint
  <1>8. CurIdFresh'
    BY AssignFacts DEF CurIdFresh, Bookkeeping, TypeOK
  <1> QED
    BY <1>1, <1>2, <1>6, <1>7, <1>8 DEF Bookkeeping, NothingLeft

\* The remaining actions leave feed and counts alone
LEMMA ControlStep ==
    ASSUME Bookkeeping,
           \/ \E c \in left : MatchFails(c)
           \/ ClusterDone \/ ConfigDone \/ WriteFeed \/ UNCHANGED vars
    PROVE  Bookkeeping'
  <1>1. CASE ClusterDone
    <2>1. /\ cur' = NoCluster /\ cur.members = {} /\ NoCluster.members = {}
          /\ pc = "assign" /\ pc' = "match"
          /\ UNCHANGED <<opt, input, shapes, shapeId, cfgIdx, todo, clusters,
                         rAttrs, left, usage, shpCnt>>
      BY <1>1 DEF ClusterDone, NoCluster
    <2>2. Pending' = Pending
      BY <2>1 DEF Pending
    <2>3. UsageExact'
      BY <2>1, <2>2 DEF Bookkeeping, UsageExact, Present, Users
    <2>4. TypeOK'
      BY <2>1 DEF Bookkeeping, TypeOK
    <2>5. ClustersDisjoint'
      BY <2>1 DEF Bookkeeping, ClustersDisjoint
    <2> QED
      BY <2>1, <2>3, <2>4, <2>5 DEF Bookkeeping, CurIdFresh, NothingLeft
  <1> USE DEF Bookkeeping, TypeOK, UsageExact, ClustersDisjoint, CurIdFresh,
              NothingLeft, Present, Users, Pending
  <1>2. CASE \E c \in left : MatchFails(c)
    BY <1>2 DEF MatchFails
  <1>3. CASE ConfigDone
    BY <1>3 DEF ConfigDone
  <1>4. CASE WriteFeed
    BY <1>4 DEF WriteFeed
  <1>5. CASE UNCHANGED vars
    <2>1. UNCHANGED <<opt, input, shapes, shapeId, cfgIdx, todo, clusters, rAttrs, left, cur,
                      usage, shpCnt, pc>>
      BY <1>5 DEF vars
    <2>2. TypeOK' /\ ClustersDisjoint'
      BY <2>1
    <2>3. UsageExact'
      BY <2>1
    <2>4. CurIdFresh' /\ NothingLeft'
      BY <2>1
    <2> QED
      BY <2>2, <2>3, <2>4
  <1> QED
    BY <1>1, <1>2, <1>3, <1>4, <1>5

\* Every step of the run preserves the bookkeeping
LEMMA BookkeepingStep == Bookkeeping /\ [Next]_vars => Bookkeeping'
  <1> SUFFICES ASSUME Bookkeeping, [Next]_vars PROVE Bookkeeping'
    OBVIOUS
  <1> QED
    BY ConfigStep, ClusterStep, CountStep, MatchStep, AssignStep, ControlStep
    DEF Next, Terminated

\* The bookkeeping of get_shape and set_shape is right in every reachable
\* state: usage counts are exact and clusters do not share trips.
THEOREM BookkeepingInvariant == Spec => []Bookkeeping
  BY BookkeepingStep, InitBookkeeping, PTL DEF Spec

\* A step that changes the geometry of a trip is its own set_shape: an id that
\* is erased had no other trip, and one that is given again has no trip
LEMMA KeepsOrAssignsStep ==
    ASSUME Bookkeeping, Next
    PROVE  \A u \in Trips : KeepsOrAssigns(u)
  <1> SUFFICES ASSUME NEW u \in Trips,
                      HasShape(u), Geometry(u)' # Geometry(u)
               PROVE  /\ u \in cur.members /\ u \notin cur'.members
                      /\ Geometry(u)' = cur.rep
    BY DEF KeepsOrAssigns
  <1>1. PICK t \in Trips : Assign(t)
    <2>1. ~UNCHANGED <<shapes, shapeId>>
      BY DEF Geometry, HasShape, Present
    <2> QED
      BY <2>1 DEF Next, SkipConfig, StartConfig, SkipTrip, JoinCluster,
                  NewCluster, CountUsage, MatchFails, Match, ClusterDone,
                  ConfigDone, WriteFeed, Terminated, vars
  <1>2. pc = "assign"
    BY <1>1 DEF Assign
  <1>3. u = t
    <2> SUFFICES ASSUME u # t PROVE FALSE
      OBVIOUS
    <2> DEFINE id == shapeId[u]
    <2>1. id \in ShapeIds /\ shapes[id] # NoShape /\ shapeId'[u] = id
      BY <1>1, AssignFacts DEF HasShape, Present, Bookkeeping, TypeOK
    <2>2. shapes'[id] # shapes[id]
      BY <2>1 DEF Geometry, HasShape, Present
    <2>3. id # cur.id
      BY <1>1, <1>2, <2>1, <2>2, AssignFacts
      DEF Bookkeeping, CurIdFresh, Present
    <2>4. id = shapeId[t] /\ usage[id] = 1
      BY <1>1, <2>1, <2>2, <2>3, AssignFacts
    <2>5. Cardinality(Users(id)) = 1
      BY <1>2, <2>1, <2>4 DEF Bookkeeping, UsageExact
    <2>6. u \in Users(id) /\ t \in Users(id)
      BY <2>4 DEF Users
    <2> QED
      BY <2>5, <2>6, UsersFinite, FS_Singleton
  <1>4. Geometry(u)' = cur.rep
    <2>1. shapeId'[u] = cur.id
      BY <1>1, <1>3, AssignFacts DEF Bookkeeping, TypeOK
    <2>2. shapes'[cur.id] = cur.rep /\ cur.rep # NoShape /\ cur.id \in ShapeIds
      BY <1>1, AssignFacts, RunAssumption
    <2> QED
      BY <2>1, <2>2 DEF Geometry, HasShape, Present
  <1> QED
    BY <1>1, <1>3, <1>4, AssignFacts

\* No step of the run takes the shape of a trip away or changes it behind the
\* trip's back; only set_shape for the trip itself changes its geometry.
THEOREM OnlyAssignedTripChangesThm == Spec => OnlyAssignedTripChanges
  <1>1. Bookkeeping /\ [Next]_vars =>
          [\A t \in Trips : KeepsOrAssigns(t)]_vars
    BY KeepsOrAssignsStep
  <1> QED
    BY <1>1, BookkeepingInvariant, PTL DEF Spec, OnlyAssignedTripChanges

\* A shape that loses its last trip is erased in the very same step
THEOREM LastUserErasesShapeThm == Spec => LastUserErasesShape
  <1>1. Bookkeeping /\ [Next]_vars =>
          [\A id \in ShapeIds : ErasedWithLastUser(id)]_vars
    <2> SUFFICES ASSUME Bookkeeping, Next, NEW id \in ShapeIds,
                        Present(id), Users(id) # {}, Users(id)' = {}
                 PROVE  ~Present(id)'
      BY DEF ErasedWithLastUser
    <2>1. PICK t \in Trips : Assign(t)
      <3>1. ~UNCHANGED <<shapes, shapeId>>
        BY DEF Users
      <3> QED
        BY <3>1 DEF Next, SkipConfig, StartConfig, SkipTrip, JoinCluster,
                    NewCluster, CountUsage, MatchFails, Match, ClusterDone,
                    ConfigDone, WriteFeed, Terminated, vars
    <2>2. id # cur.id
      <3>1. t \in {u \in Trips : shapeId'[u] = cur.id}
        BY <2>1, AssignFacts DEF Bookkeeping, TypeOK
      <3> QED
        BY <3>1 DEF Users
    <2>3. Users(id) = {t} /\ shapeId[t] = id
      BY <2>1, <2>2, AssignUsers DEF Users
    <2>4. t \in Pending /\ pc = "assign"
      BY <2>1 DEF Assign, Pending
    <2>5. usage[id] # 0
      BY <2>3, <2>4 DEF Bookkeeping, UsageExact
    <2>6. usage[id] = 1
      <3>1. Cardinality(Users(id)) = 1
        BY <2>3, FS_Singleton
      <3>2. usage[id] > 0
        BY <2>5 DEF Bookkeeping, TypeOK
      <3> QED
        BY <2>4, <3>1, <3>2 DEF Bookkeeping, UsageExact
    <2> QED
      BY <2>1, <2>2, <2>3, <2>6, AssignFacts DEF Present
  <1> QED
    BY <1>1, BookkeepingInvariant, PTL DEF Spec, LastUserErasesShape

-----------------------------------------------------------------------------
(* What the main loop does for the trips.                                  *)

Building == pc \in {"cluster", "match", "assign"}

\* getRAttrs was called for the first trip of every cluster
RepsCached == \A c \in DOMAIN clusters : clusters[c].rep \in rAttrs

\* The first trip of a cluster is one that the configuration selects
RepsSelected ==
    Building => \A c \in DOMAIN clusters :
                   TripType(clusters[c].rep) \in UsedMots(cfgIdx)

\* The trips of a cluster are routing-equal to its first trip
ClustersEqual ==
    /\ \A c \in DOMAIN clusters : \A t \in clusters[c].members :
          RoutingEqual(clusters[c].rep, t)
    /\ \A t \in cur.members : RoutingEqual(cur.rep, t)

\* A trip that came with a shape, and is to keep it
Loaded(t) == opt.evaluate /\ ~opt.drop /\ input.ids[t] \in input.shapes

\* ... has it, and is in no cluster
LoadedUntouched ==
    \A t \in Trips : Loaded(t) =>
        /\ Geometry(t) = Input
        /\ t \notin cur.members
        /\ \A c \in DOMAIN clusters : t \notin clusters[c].members

\* A shape_id resolves to the shape of the input or to that of a trip with the
\* same pattern, unless it did not resolve at first and was never changed
Resolved ==
    \A t \in Trips :
        \/ shapeId[t] = NoId
        \/ Geometry(t) = Input
        \/ Geometry(t) \in Trips /\ RoutingEqual(Geometry(t), t)
        \/ Dangling(t) /\ shapeId[t] = input.ids[t]

\* The shapes that were computed are those of trips which a configuration up to
\* now selects, before the current one as long as that one only clusters
Computed ==
    /\ Building => cfgIdx > 0
    /\ pc = "assign" => TripType(cur.rep) \in UsedMots(cfgIdx)
    /\ \A id \in ShapeIds : shapes[id] \in Trips =>
          \E i \in 1..cfgIdx : /\ TripType(shapes[id]) \in UsedMots(i)
                               /\ pc = "cluster" => i < cfgIdx

\* A trip has a shape of its own, that the run need not replace any more
Own(t) ==
    \/ Geometry(t) = Input /\ ~opt.drop
    \/ Geometry(t) \in Trips /\ RoutingEqual(Geometry(t), t)

\* ... or the shape of another trip, by the shape_id it came with
Inherits(t) ==
    /\ Geometry(t) \in Trips /\ ~opt.drop
    /\ Dangling(t) /\ shapeId[t] = input.ids[t]
    /\ \E i \in DOMAIN MotCfgs :
         /\ TripType(Geometry(t)) \in UsedMots(i)
         /\ \A j \in 1..i : TripType(t) \notin UsedMots(j)

Shaped(t) == Own(t) \/ Inherits(t)

\* A trip that cluster_trips or get_shape of the builder that runs still visits
Waiting(t) ==
    \/ pc = "cluster" /\ \/ t \in todo
                         \/ \E c \in DOMAIN clusters : t \in clusters[c].members
    \/ pc \in {"match", "assign"} /\ t \in Pending

Needed(i, t) ==
    /\ Len(StopsOf[t]) >= 2 /\ RouteOf[t] # NoRoute
    /\ TripType(t) \in UsedMots(i)

\* Every trip that a configuration up to now selects is shaped, or it waits
\* for the builder of the current one
Coverage ==
    pc # "died" =>
        \A t \in Trips : \A i \in 1..cfgIdx :
            Needed(i, t) => Shaped(t) \/ (i = cfgIdx /\ Waiting(t))

FeedInv ==
    /\ Bookkeeping /\ RepsCached /\ RepsSelected /\ ClustersEqual
    /\ LoadedUntouched /\ Resolved /\ Computed /\ Coverage /\ DiesOnlyAtEntrances

-----------------------------------------------------------------------------
(* What the steps do, seen from a trip.                                    *)

\* The command line and the feed on disk never change, so routing_equal does
\* not either
LEMMA InputConstant ==
    ASSUME [Next]_vars
    PROVE  /\ UNCHANGED <<opt, input>>
           /\ \A a, b : RoutingEqual(a, b)' <=> RoutingEqual(a, b)
<1>1. UNCHANGED <<opt, input>>
  BY DEF Next, SkipConfig, StartConfig, SkipTrip, JoinCluster, NewCluster, CountUsage,
         MatchFails, Match, Assign, ClusterDone, ConfigDone, WriteFeed, Terminated, vars
<1>2. ASSUME NEW a, NEW b PROVE RoutingEqual(a, b)' <=> RoutingEqual(a, b)
  BY <1>1 DEF RoutingEqual, Attrs, Ends, StopsOf
<1> QED BY <1>1, <1>2

\* A trip is routing-equal to itself
LEMMA RoutingEqualReflexive == ASSUME NEW t PROVE RoutingEqual(t, t)
BY DEF RoutingEqual, StopRoutingEqual

\* How cluster_trips adds a trip to a cluster ...
LEMMA JoinFacts ==
    ASSUME Bookkeeping, NEW t \in Trips, JoinCluster(t)
    PROVE  /\ DOMAIN clusters' = DOMAIN clusters
           /\ \A d \in DOMAIN clusters : clusters'[d].rep = clusters[d].rep
           /\ \E c \in DOMAIN clusters :
                 /\ RoutingEqual(clusters[c].rep, t)
                 /\ \A d \in DOMAIN clusters : clusters'[d].members
                       = IF d = c THEN clusters[d].members \cup {t} ELSE clusters[d].members
<1>1. PICK c \in DOMAIN clusters :
        /\ RoutingEqual(clusters[c].rep, t)
        /\ clusters' = [clusters EXCEPT
              ![c] = [rep |-> @.rep, members |-> @.members \cup {t}]]
  BY DEF JoinCluster, Matching
<1>2. clusters \in Seq(ClusterRecord)
  BY DEF Bookkeeping, TypeOK
<1>3. /\ DOMAIN clusters' = DOMAIN clusters
      /\ \A d \in DOMAIN clusters : clusters'[d] =
            IF d = c THEN [rep |-> clusters[c].rep, members |-> clusters[c].members \cup {t}]
            ELSE clusters[d]
  BY <1>1, <1>2
<1> QED BY <1>1, <1>3

\* ... and starts a new one
LEMMA NewFacts ==
    ASSUME Bookkeeping, NEW t \in Trips, NewCluster(t)
    PROVE  /\ DOMAIN clusters \subseteq DOMAIN clusters'
           /\ \A d \in DOMAIN clusters : clusters'[d] = clusters[d]
           /\ \E c \in DOMAIN clusters' :
                 /\ clusters'[c].rep = t /\ clusters'[c].members = {t}
                 /\ \A d \in DOMAIN clusters' : d \in DOMAIN clusters \/ d = c
<1>1. clusters' = Append(clusters, [rep |-> t, members |-> {t}])
  BY DEF NewCluster
<1>2. clusters \in Seq(ClusterRecord)
  BY DEF Bookkeeping, TypeOK
<1>3. /\ DOMAIN clusters' = 1..(Len(clusters) + 1)
      /\ DOMAIN clusters = 1..Len(clusters) /\ Len(clusters) \in Nat
      /\ \A d \in DOMAIN clusters : clusters'[d] = clusters[d]
      /\ clusters'[Len(clusters) + 1].members = {t}
      /\ clusters'[Len(clusters) + 1].rep = t
  BY <1>1, <1>2
<1>4. \A d \in DOMAIN clusters' : d \in DOMAIN clusters \/ d = Len(clusters) + 1
  BY <1>3
<1> QED BY <1>3, <1>4

\* Whoever has a shape keeps one; who gets another gets that of the cluster
LEMMA GeometryStep ==
    ASSUME Bookkeeping, Next, NEW t \in Trips, HasShape(t)
    PROVE  /\ HasShape(t)'
           /\ \/ Geometry(t)' = Geometry(t)
              \/ t \in cur.members /\ Geometry(t)' = cur.rep /\ cur.rep \in Trips
<1>1. \/ Geometry(t)' = Geometry(t)
      \/ t \in cur.members /\ Geometry(t)' = cur.rep
  BY KeepsOrAssignsStep DEF KeepsOrAssigns
<1>2. t \in cur.members => cur \in CurRecord
  BY DEF Bookkeeping, TypeOK, NoCluster
<1>3. t \in cur.members => cur.rep \in Trips
  BY <1>2 DEF CurRecord
<1>4. Geometry(t)' # NoShape
  <2>1. Geometry(t) # NoShape
    BY DEF Geometry, HasShape, Present
  <2> QED BY <1>1, <1>3, <2>1, RunAssumption
<1>5. HasShape(t)'
  BY <1>4 DEF Geometry
<1> QED BY <1>1, <1>3, <1>5

-----------------------------------------------------------------------------
(* Each part of the invariant is preserved.                                *)

LEMMA InitFeed == Init => FeedInv
<1> SUFFICES ASSUME Init PROVE FeedInv
  OBVIOUS
<1>1. Bookkeeping
  BY InitBookkeeping
<1>2. RepsCached /\ RepsSelected /\ ClustersEqual /\ DiesOnlyAtEntrances
  BY DEF Init, RepsCached, RepsSelected, ClustersEqual, DiesOnlyAtEntrances,
         Building, NoCluster
<1>3. Coverage
  BY DEF Init, Coverage
<1>4. ASSUME NEW t \in Trips, opt.evaluate, input.ids[t] \in input.shapes
      PROVE  Geometry(t) = Input
  <2>1. input.ids[t] \in ShapeIds
    BY <1>4, RunAssumption DEF Init
  <2>2. shapes[shapeId[t]] = Input
    BY <1>4, <2>1 DEF Init
  <2> QED BY <2>1, <2>2, RunAssumption DEF Init, Geometry, HasShape, Present
<1>5. LoadedUntouched
  BY <1>4 DEF Init, LoadedUntouched, Loaded, NoCluster
<1>6. Resolved
  BY <1>4 DEF Init, Resolved, Dangling
<1>7. Computed
  BY RunAssumption DEF Init, Computed, Building
<1> QED BY <1>1, <1>2, <1>3, <1>5, <1>6, <1>7 DEF FeedInv

\* Every step but those of cluster_trips leaves the clusters alone or drops
\* them
LEMMA ClustersChange ==
    ASSUME Next
    PROVE  \/ \E t \in Trips : JoinCluster(t) \/ NewCluster(t)
           \/ StartConfig
           \/ UNCHANGED <<clusters, rAttrs>>
BY DEF Next, SkipConfig, SkipTrip, CountUsage, MatchFails, Match, Assign, ClusterDone,
       ConfigDone, WriteFeed, Terminated, vars

\* The attributes of the first trip of every cluster are cached
LEMMA RepsCachedStep ==
    ASSUME Bookkeeping, RepsCached, Next
    PROVE  RepsCached'
<1>1. CASE StartConfig
  BY <1>1 DEF StartConfig, RepsCached
<1>2. CASE UNCHANGED <<clusters, rAttrs>>
  BY <1>2 DEF RepsCached
<1>3. ASSUME NEW t \in Trips, JoinCluster(t) PROVE RepsCached'
  <2>1. rAttrs \subseteq rAttrs'
    BY <1>3 DEF JoinCluster
  <2> QED BY <1>3, <2>1, JoinFacts DEF RepsCached
<1>4. ASSUME NEW t \in Trips, NewCluster(t) PROVE RepsCached'
  <2>1. rAttrs \subseteq rAttrs' /\ t \in rAttrs'
    BY <1>4 DEF NewCluster, CachedForNew
  <2> QED BY <1>4, <2>1, NewFacts DEF RepsCached
<1> QED BY <1>1, <1>2, <1>3, <1>4, ClustersChange

\* The configuration selects the first trip of every cluster
LEMMA RepsSelectedStep ==
    ASSUME Bookkeeping, RepsSelected, Next
    PROVE  RepsSelected'
<1>1. CASE StartConfig
  BY <1>1 DEF StartConfig, RepsSelected
<1>2. CASE UNCHANGED <<clusters, rAttrs>>
  <2>1. CASE StartConfig
    BY <1>1, <2>1
  <2>2. CASE ~StartConfig /\ Building'
    <3>1. Building /\ cfgIdx' = cfgIdx
      BY <2>2 DEF Building, Next, SkipConfig, SkipTrip, JoinCluster, NewCluster, CountUsage,
           MatchFails, Match, Assign, ClusterDone, ConfigDone, WriteFeed, Terminated, vars
    <3> QED BY <1>2, <3>1 DEF RepsSelected, TripType, UsedMots
  <2> QED BY <2>1, <2>2 DEF RepsSelected
<1>3. ASSUME NEW t \in Trips, JoinCluster(t) PROVE RepsSelected'
  <2>1. pc = "cluster" /\ cfgIdx' = cfgIdx
    BY <1>3 DEF JoinCluster
  <2> QED BY <1>3, <2>1, JoinFacts DEF RepsSelected, TripType, UsedMots, Building
<1>4. ASSUME NEW t \in Trips, NewCluster(t) PROVE RepsSelected'
  <2>1. pc = "cluster" /\ cfgIdx' = cfgIdx /\ TripType(t) \in UsedMots(cfgIdx)
    BY <1>4 DEF NewCluster, Eligible, UsedMots
  <2> QED BY <1>4, <2>1, NewFacts DEF RepsSelected, TripType, UsedMots, Building
<1> QED BY <1>1, <1>2, <1>3, <1>4, ClustersChange

\* All trips of a cluster are routing-equal to its first trip
LEMMA ClustersEqualStep ==
    ASSUME Bookkeeping, ClustersEqual, Next
    PROVE  ClustersEqual'
<1>1. \A a, b : RoutingEqual(a, b)' <=> RoutingEqual(a, b)
  BY InputConstant
<1>2. \A c \in DOMAIN clusters' : \A t \in clusters'[c].members :
          RoutingEqual(clusters'[c].rep, t)
  <2>1. CASE StartConfig
    BY <2>1 DEF StartConfig
  <2>2. CASE UNCHANGED <<clusters, rAttrs>>
    BY <2>2 DEF ClustersEqual
  <2>3. ASSUME NEW t \in Trips, JoinCluster(t)
        PROVE  \A c \in DOMAIN clusters' : \A u \in clusters'[c].members :
                  RoutingEqual(clusters'[c].rep, u)
    <3>1. /\ DOMAIN clusters' = DOMAIN clusters
          /\ \A d \in DOMAIN clusters : clusters'[d].rep = clusters[d].rep
      BY <2>3, JoinFacts
    <3>2. PICK c \in DOMAIN clusters :
            /\ RoutingEqual(clusters[c].rep, t)
            /\ \A d \in DOMAIN clusters : clusters'[d].members
                  = IF d = c THEN clusters[d].members \cup {t} ELSE clusters[d].members
      BY <2>3, JoinFacts
    <3>3. \A d \in DOMAIN clusters : \A u \in clusters[d].members : RoutingEqual(clusters[d].rep, u)
      BY DEF ClustersEqual
    <3> QED BY ONLY <3>1, <3>2, <3>3
  <2>4. ASSUME NEW t \in Trips, NewCluster(t)
        PROVE  \A c \in DOMAIN clusters' : \A u \in clusters'[c].members :
                  RoutingEqual(clusters'[c].rep, u)
    BY <2>4, NewFacts, RoutingEqualReflexive DEF ClustersEqual
  <2> QED BY <2>1, <2>2, <2>3, <2>4, ClustersChange
<1>3. \A t \in cur'.members : RoutingEqual(cur'.rep, t)
  <2>1. CASE cur' = cur
    BY <2>1 DEF ClustersEqual
  <2>2. ASSUME NEW c \in left, Match(c)
        PROVE  \A t \in cur'.members : RoutingEqual(cur'.rep, t)
    <3>1. cur'.rep = clusters[c].rep /\ cur'.members = clusters[c].members
      BY <2>2 DEF Match
    <3>2. c \in DOMAIN clusters
      BY DEF Bookkeeping, TypeOK
    <3> QED BY <3>1, <3>2 DEF ClustersEqual
  <2>3. ASSUME NEW t \in Trips, Assign(t)
        PROVE  \A u \in cur'.members : RoutingEqual(cur'.rep, u)
    <3>1. cur'.rep = cur.rep /\ cur'.members \subseteq cur.members
      BY <2>3, AssignFacts
    <3> QED BY <3>1 DEF ClustersEqual
  <2>4. CASE cur' = NoCluster
    BY <2>4 DEF NoCluster
  <2> QED BY <2>1, <2>2, <2>3, <2>4 DEF Next, SkipConfig, StartConfig, SkipTrip,
        JoinCluster, NewCluster, CountUsage, MatchFails, ClusterDone, ConfigDone,
        WriteFeed, Terminated, vars
<1> QED BY <1>1, <1>2, <1>3 DEF ClustersEqual

\* set_shape gives the trip the geometry of the cluster
LEMMA AssignedGeometry ==
    ASSUME Bookkeeping, NEW t \in Trips, Assign(t)
    PROVE  HasShape(t)' /\ Geometry(t)' = cur.rep /\ cur.rep \in Trips
<1>1. shapeId'[t] = cur.id
  BY AssignFacts DEF Bookkeeping, TypeOK
<1>2. /\ shapes'[cur.id] = cur.rep /\ cur.rep # NoShape /\ cur.id \in ShapeIds
      /\ cur.rep \in Trips
  BY AssignFacts, RunAssumption
<1> QED BY <1>1, <1>2 DEF Geometry, HasShape, Present

\* Only set_shape changes the shape_id of a trip
LEMMA ShapeIdChange ==
    ASSUME Bookkeeping, Next, NEW t \in Trips
    PROVE  Assign(t) \/ shapeId'[t] = shapeId[t]
<1>1. CASE UNCHANGED shapeId
  BY <1>1
<1>2. ASSUME NEW u \in Trips, Assign(u) PROVE Assign(t) \/ shapeId'[t] = shapeId[t]
  BY <1>2, AssignFacts DEF Bookkeeping, TypeOK
<1> QED BY <1>1, <1>2 DEF Next, SkipConfig, StartConfig, SkipTrip, JoinCluster, NewCluster,
      CountUsage, MatchFails, Match, ClusterDone, ConfigDone, WriteFeed, Terminated, vars

\* cur holds what it held, less perhaps, or a cluster that was left
LEMMA CurChange ==
    ASSUME Bookkeeping, Next
    PROVE  \/ cur'.members \subseteq cur.members
           \/ \E c \in DOMAIN clusters : cur'.members = clusters[c].members
<1>1. ASSUME NEW c \in left, Match(c)
      PROVE  \E d \in DOMAIN clusters : cur'.members = clusters[d].members
  BY <1>1 DEF Match, Bookkeeping, TypeOK
<1>2. ASSUME NEW t \in Trips, Assign(t) PROVE cur'.members \subseteq cur.members
  BY <1>2, AssignFacts
<1>3. cur' = NoCluster => cur'.members \subseteq cur.members
  BY DEF NoCluster
<1> QED BY <1>1, <1>2, <1>3 DEF Next, SkipConfig, StartConfig, SkipTrip, JoinCluster,
      NewCluster, CountUsage, MatchFails, ClusterDone, ConfigDone, WriteFeed, Terminated, vars

\* A trip with a loaded shape is never clustered and never changed
LEMMA LoadedUntouchedStep ==
    ASSUME Bookkeeping, LoadedUntouched, Next
    PROVE  LoadedUntouched'
<1> SUFFICES ASSUME NEW t \in Trips, Loaded(t)
             PROVE  /\ Geometry(t)' = Input
                    /\ t \notin cur'.members
                    /\ \A c \in DOMAIN clusters' : t \notin clusters'[c].members
  BY InputConstant DEF LoadedUntouched, Loaded
<1>1. /\ Geometry(t) = Input /\ t \notin cur.members
      /\ \A c \in DOMAIN clusters : t \notin clusters[c].members
  BY DEF LoadedUntouched
<1>2. HasShape(t)
  BY <1>1, RunAssumption DEF Geometry
<1>3. Geometry(t)' = Input
  BY <1>1, <1>2, GeometryStep
<1>4. t \notin cur'.members
  BY <1>1, CurChange
<1>5. \A i : ~Eligible(i, t)
  BY <1>2 DEF Eligible, KeepsShape, Loaded
<1>6. \A c \in DOMAIN clusters' : t \notin clusters'[c].members
  <2>1. CASE StartConfig
    BY <2>1 DEF StartConfig
  <2>2. CASE UNCHANGED <<clusters, rAttrs>>
    BY <1>1, <2>2
  <2>3. ASSUME NEW u \in Trips, JoinCluster(u)
        PROVE  \A c \in DOMAIN clusters' : t \notin clusters'[c].members
    <3>1. u # t
      BY <1>5, <2>3 DEF JoinCluster
    <3>2. PICK c \in DOMAIN clusters :
             /\ DOMAIN clusters' = DOMAIN clusters
             /\ \A d \in DOMAIN clusters : clusters'[d].members
                   = IF d = c THEN clusters[d].members \cup {u} ELSE clusters[d].members
      BY <2>3, JoinFacts
    <3> QED BY <1>1, <3>1, <3>2
  <2>4. ASSUME NEW u \in Trips, NewCluster(u)
        PROVE  \A c \in DOMAIN clusters' : t \notin clusters'[c].members
    <3>1. u # t
      BY <1>5, <2>4 DEF NewCluster
    <3> QED BY <1>1, <2>4, <3>1, NewFacts
  <2> QED BY <2>1, <2>2, <2>3, <2>4, ClustersChange
<1> QED BY <1>3, <1>4, <1>6

\* A shape_id that resolves to a shape of the trip's pattern goes on doing so,
\* and one that does not is never touched
LEMMA ResolvedStep ==
    ASSUME Bookkeeping, ClustersEqual, Resolved, Next
    PROVE  Resolved'
<1>1. UNCHANGED <<opt, input>> /\ \A a, b : RoutingEqual(a, b)' <=> RoutingEqual(a, b)
  BY InputConstant
<1> SUFFICES ASSUME NEW t \in Trips
             PROVE  \/ shapeId'[t] = NoId
                    \/ Geometry(t)' = Input
                    \/ Geometry(t)' \in Trips /\ RoutingEqual(Geometry(t)', t)
                    \/ Dangling(t) /\ shapeId'[t] = input.ids[t]
  BY <1>1 DEF Resolved, Dangling
<1>2. CASE Assign(t)
  <2>1. t \in cur.members
    BY <1>2, AssignFacts
  <2> QED BY <1>2, <2>1, AssignedGeometry DEF ClustersEqual
<1>3. CASE ~Assign(t) /\ (shapeId[t] = NoId \/ (Dangling(t) /\ shapeId[t] = input.ids[t]))
  BY <1>3, ShapeIdChange
<1>4. CASE \/ Geometry(t) = Input
           \/ Geometry(t) \in Trips /\ RoutingEqual(Geometry(t), t)
  <2>1. HasShape(t)
    BY <1>4, RunAssumption DEF Geometry
  <2> QED BY <1>4, <2>1, GeometryStep DEF ClustersEqual
<1>5. \/ shapeId[t] = NoId
      \/ Dangling(t) /\ shapeId[t] = input.ids[t]
      \/ Geometry(t) = Input
      \/ Geometry(t) \in Trips /\ RoutingEqual(Geometry(t), t)
  BY DEF Resolved
<1> QED BY <1>2, <1>3, <1>4, <1>5

\* Only set_shape stores a shape, that of the cluster being assigned
LEMMA ComputedStep ==
    ASSUME Bookkeeping, RepsSelected, Computed, Next
    PROVE  Computed'
<1>1. cfgIdx \in Nat
  BY RunAssumption DEF Bookkeeping, TypeOK
<1>2. CASE SkipConfig
  BY <1>1, <1>2 DEF SkipConfig, feedVars, Computed, Building, TripType, UsedMots
<1>3. CASE StartConfig
  BY <1>1, <1>3 DEF StartConfig, feedVars, Computed, Building, TripType, UsedMots
<1>4. ASSUME NEW t \in Trips, SkipTrip(t) \/ JoinCluster(t) \/ NewCluster(t)
      PROVE  Computed'
  BY <1>4 DEF SkipTrip, JoinCluster, NewCluster, feedVars, Computed, Building, TripType, UsedMots
<1>5. CASE CountUsage
  BY <1>5 DEF CountUsage, feedVars, Computed, Building, TripType, UsedMots
<1>6. ASSUME NEW c \in left, MatchFails(c) PROVE Computed'
  BY <1>6 DEF MatchFails, feedVars, Computed, Building, TripType, UsedMots
<1>7. ASSUME NEW c \in left, Match(c) PROVE Computed'
  <2>1. /\ pc = "match" /\ pc' = "assign" /\ cfgIdx' = cfgIdx /\ shapes' = shapes
        /\ cur'.rep = clusters[c].rep
    BY <1>7 DEF Match, feedVars
  <2>2. TripType(clusters[c].rep) \in UsedMots(cfgIdx)
    BY <2>1 DEF RepsSelected, Building, Bookkeeping, TypeOK
  <2> QED BY <2>1, <2>2 DEF Computed, Building, TripType, UsedMots
<1>8. ASSUME NEW t \in Trips, Assign(t) PROVE Computed'
  <2>1. /\ pc = "assign" /\ pc' = "assign" /\ cfgIdx' = cfgIdx /\ cur'.rep = cur.rep
    BY <1>8, AssignFacts DEF Assign
  <2>2. TripType(cur.rep) \in UsedMots(cfgIdx)
    BY <2>1 DEF Computed
  <2>3. cfgIdx \in 1..cfgIdx
    BY <1>1, <2>1 DEF Computed, Building
  <2>4. \A id \in ShapeIds : shapes'[id] \in {NoShape, cur.rep, shapes[id]}
    BY <1>8, AssignFacts DEF Bookkeeping, TypeOK
  <2>5. ASSUME NEW id \in ShapeIds, shapes'[id] \in Trips
        PROVE  \E i \in 1..cfgIdx : TripType(shapes'[id]) \in UsedMots(i)
    BY <2>2, <2>3, <2>4, <2>5, RunAssumption DEF Computed
  <2> QED BY <2>1, <2>2, <2>5 DEF Computed, Building, TripType, UsedMots
<1>9. CASE ClusterDone
  BY <1>9 DEF ClusterDone, feedVars, Computed, Building, TripType, UsedMots
<1>10. CASE ConfigDone \/ WriteFeed \/ Terminated
  BY <1>10 DEF ConfigDone, WriteFeed, Terminated, vars, feedVars, Computed, Building, TripType, UsedMots
<1> QED BY <1>2, <1>3, <1>4, <1>5, <1>6, <1>7, <1>8, <1>9, <1>10 DEF Next

\* get_node_candidate_route fails only over entrances and stops without a node
LEMMA DiesStep ==
    ASSUME Bookkeeping, RepsSelected, DiesOnlyAtEntrances, Next
    PROVE  DiesOnlyAtEntrances'
<1> SUFFICES ASSUME pc' = "died"
             PROVE  \/ ReadsMissingStopTimes(cfgIdx)'
                    \/ (\E c \in left : \E k \in DOMAIN StopsOf[clusters[c].rep] :
                          LET s == StopsOf[clusters[c].rep][k]
                          IN  RoutingStop(s) # s \/ s \notin Snapped)'
  BY DEF DiesOnlyAtEntrances
<1>1. CASE StartConfig
  <2>1. ReadsMissingStopTimes(cfgIdx + 1) /\ cfgIdx' = cfgIdx + 1
        /\ UNCHANGED <<opt, input, shapes, shapeId>>
    BY <1>1 DEF StartConfig
  <2>2. \A t \in Trips : KeepsShape(t)' <=> KeepsShape(t)
    BY <2>1 DEF KeepsShape, HasShape, Present
  <2>3. UsedMots(cfgIdx)' = UsedMots(cfgIdx + 1)
    BY <2>1 DEF UsedMots
  <2> QED BY <2>1, <2>2, <2>3 DEF ReadsMissingStopTimes, StopsOf, TripType
<1>2. ASSUME NEW c \in left, MatchFails(c)
      PROVE  \E k \in DOMAIN StopsOf[clusters[c].rep] :
                LET s == StopsOf[clusters[c].rep][k]
                IN  RoutingStop(s) # s \/ s \notin Snapped
  <2> DEFINE t == clusters[c].rep
  <2>1. PICK k \in DOMAIN StopsOf[t] : StopsOf[t][k] \notin FeedStops(cfgIdx) \cap Snapped
    BY <1>2 DEF MatchFails, Routable
  <2>2. t \in Trips /\ RouteOf[t] # NoRoute /\ TripType(t) \in UsedMots(cfgIdx)
    <3>1. clusters[c] \in ClusterRecord /\ c \in DOMAIN clusters
      BY DEF Bookkeeping, TypeOK
    <3>2. t \in RoutedTrips
      BY <3>1 DEF ClusterRecord
    <3>3. pc = "match"
      BY <1>2 DEF MatchFails
    <3> QED BY <3>1, <3>2, <3>3 DEF RoutedTrips, RepsSelected, Building
  <2>3. RoutingStop(StopsOf[t][k]) \in FeedStops(cfgIdx)
    BY <2>2 DEF FeedStops
  <2> QED BY <2>1, <2>3
<1>3. CASE \E c \in left : MatchFails(c)
  BY <1>2, <1>3 DEF MatchFails, StopsOf
<1>4. CASE pc = "died" /\ UNCHANGED vars
  BY <1>4 DEF DiesOnlyAtEntrances, vars, ReadsMissingStopTimes, StopsOf, TripType, UsedMots,
              KeepsShape, HasShape, Present
<1>5. StartConfig \/ (\E c \in left : MatchFails(c)) \/ Terminated
  <2>1. SkipConfig \/ CountUsage \/ ClusterDone \/ ConfigDone \/ WriteFeed => pc' # "died"
    BY DEF SkipConfig, CountUsage, ClusterDone, ConfigDone, WriteFeed
  <2>2. ASSUME NEW t \in Trips,
               SkipTrip(t) \/ JoinCluster(t) \/ NewCluster(t) \/ Assign(t)
        PROVE  pc' # "died"
    BY <2>2 DEF SkipTrip, JoinCluster, NewCluster, Assign
  <2>3. ASSUME NEW c \in left, Match(c) PROVE pc' # "died"
    BY <2>3 DEF Match
  <2> QED BY <2>1, <2>2, <2>3 DEF Next
<1>6. Terminated => pc = "died" /\ UNCHANGED vars
  BY DEF Terminated, vars
<1> QED BY <1>1, <1>3, <1>4, <1>5, <1>6

\* A trip that is shaped stays shaped
LEMMA ShapedStep ==
    ASSUME Bookkeeping, ClustersEqual, Next, NEW t \in Trips
    PROVE  /\ Shaped(t) => Shaped(t)'
           /\ Assign(t) => Shaped(t)'
<1>1. UNCHANGED <<opt, input>> /\ \A a, b : RoutingEqual(a, b)' <=> RoutingEqual(a, b)
  BY InputConstant
<1>2. t \in cur.members => RoutingEqual(cur.rep, t)
  BY DEF ClustersEqual
<1>3. Assign(t) => Own(t)'
  BY <1>1, <1>2, AssignedGeometry, AssignFacts DEF Own
<1>4. Shaped(t) => HasShape(t)
  BY RunAssumption DEF Shaped, Own, Inherits, Geometry
<1>5. ASSUME Shaped(t), Geometry(t)' = Geometry(t), ~Assign(t) PROVE Shaped(t)'
  <2>1. shapeId'[t] = shapeId[t]
    BY <1>5, ShapeIdChange
  <2>2. Own(t) => Own(t)'
    BY <1>1, <1>5 DEF Own
  <2>3. Inherits(t) => Inherits(t)'
    BY <1>1, <1>5, <2>1 DEF Inherits, Dangling, TripType, UsedMots
  <2> QED BY <1>5, <2>2, <2>3 DEF Shaped
<1>6. ASSUME t \in cur.members, Geometry(t)' = cur.rep, cur.rep \in Trips PROVE Own(t)'
  BY <1>1, <1>2, <1>6 DEF Own
<1> QED BY <1>3, <1>4, <1>5, <1>6, GeometryStep DEF Shaped

\* A trip that a configuration selects and passes over has a shape: its own,
\* or one it inherits from a configuration before the first that selects it
LEMMA SkippedShaped ==
    ASSUME Bookkeeping, Resolved, Computed, Coverage, pc = "cluster",
           NEW t \in Trips, Needed(cfgIdx, t), KeepsShape(t)
    PROVE  Shaped(t)
<1>1. HasShape(t) /\ ~opt.drop /\ Geometry(t) = shapes[shapeId[t]] /\ shapeId[t] \in ShapeIds
  BY DEF KeepsShape, Geometry, HasShape, Present
<1>2. cfgIdx \in 1..Len(MotCfgs)
  BY RunAssumption DEF Bookkeeping, TypeOK, Computed, Building
<1>3. Geometry(t) \in Trips \cup {Input}
  BY <1>1 DEF HasShape, Present, Bookkeeping, TypeOK, Content
<1>4. CASE Own(t)
  BY <1>4 DEF Shaped
<1>5. CASE ~Own(t)
  <2>1. Geometry(t) \in Trips
    BY <1>1, <1>3, <1>5 DEF Own
  <2>2. Dangling(t) /\ shapeId[t] = input.ids[t]
    BY <1>1, <1>5, RunAssumption DEF Resolved, Own
  <2>3. PICK i \in 1..cfgIdx : TripType(Geometry(t)) \in UsedMots(i) /\ i < cfgIdx
    BY <1>1, <2>1 DEF Computed
  <2>4. CASE \E j \in 1..i : TripType(t) \in UsedMots(j)
    <3>1. PICK j \in 1..i : TripType(t) \in UsedMots(j)
      BY <2>4
    <3>2. Needed(j, t) /\ j \in 1..cfgIdx /\ j # cfgIdx
      BY <1>2, <2>3, <3>1 DEF Needed
    <3> QED BY <3>2 DEF Coverage
  <2>5. CASE \A j \in 1..i : TripType(t) \notin UsedMots(j)
    <3>1. i \in DOMAIN MotCfgs
      BY <1>2, <2>3, RunAssumption
    <3> QED BY <1>1, <2>1, <2>2, <2>3, <2>5, <3>1 DEF Shaped, Inherits
  <2> QED BY <2>4, <2>5
<1> QED BY <1>4, <1>5

\* No trip that a configuration selects is missed on its way through
\* cluster_trips and get_shape
LEMMA CoverageStep ==
    ASSUME Bookkeeping, ClustersEqual, Resolved, Computed, Coverage, Next
    PROVE  Coverage'
<1>1. UNCHANGED <<opt, input>>
  BY InputConstant
<1> SUFFICES ASSUME pc' # "died", NEW t \in Trips, NEW i \in 1..cfgIdx', Needed(i, t), ~Shaped(t)'
             PROVE  i = cfgIdx' /\ Waiting(t)'
  BY <1>1 DEF Coverage, Needed, StopsOf, TripType, UsedMots
<1>2. ~Shaped(t) /\ ~Assign(t)
  BY ShapedStep
<1>3. pc # "died" /\ i \in 1..cfgIdx => i = cfgIdx /\ Waiting(t)
  BY <1>2 DEF Coverage
<1>4. cfgIdx \in Nat
  BY RunAssumption DEF Bookkeeping, TypeOK
<1>5. CASE SkipConfig
  BY <1>3, <1>4, <1>5 DEF SkipConfig, Needed, Waiting
<1>6. CASE StartConfig
  BY <1>3, <1>4, <1>6 DEF StartConfig, Waiting
<1>7. ASSUME NEW u \in Trips, SkipTrip(u) PROVE i = cfgIdx' /\ Waiting(t)'
  <2>1. /\ pc = "cluster" /\ pc' = "cluster" /\ cfgIdx' = cfgIdx /\ todo' = todo \ {u}
        /\ clusters' = clusters /\ ~Eligible(cfgIdx, u)
    BY <1>7 DEF SkipTrip
  <2>2. i = cfgIdx /\ Waiting(t)
    BY <1>3, <2>1
  <2>3. t # u
    <3> SUFFICES ASSUME t = u PROVE FALSE
      OBVIOUS
    <3>1. KeepsShape(t)
      BY <2>1, <2>2 DEF Eligible, Needed, UsedMots
    <3> QED BY <1>2, <2>1, <2>2, <3>1, SkippedShaped
  <2> QED BY <2>1, <2>2, <2>3 DEF Waiting
<1>8. ASSUME NEW u \in Trips, JoinCluster(u) PROVE i = cfgIdx' /\ Waiting(t)'
  <2>1. /\ pc = "cluster" /\ pc' = "cluster" /\ cfgIdx' = cfgIdx /\ todo' = todo \ {u}
    BY <1>8 DEF JoinCluster
  <2>2. i = cfgIdx /\ Waiting(t)
    BY <1>3, <2>1
  <2>3. PICK c \in DOMAIN clusters :
           /\ DOMAIN clusters' = DOMAIN clusters
           /\ \A d \in DOMAIN clusters : clusters'[d].members
                 = IF d = c THEN clusters[d].members \cup {u} ELSE clusters[d].members
    BY <1>8, JoinFacts
  <2> QED BY <2>1, <2>2, <2>3 DEF Waiting
<1>9. ASSUME NEW u \in Trips, NewCluster(u) PROVE i = cfgIdx' /\ Waiting(t)'
  <2>1. /\ pc = "cluster" /\ pc' = "cluster" /\ cfgIdx' = cfgIdx /\ todo' = todo \ {u}
    BY <1>9 DEF NewCluster
  <2>2. i = cfgIdx /\ Waiting(t)
    BY <1>3, <2>1
  <2> QED BY <1>9, <2>1, <2>2, NewFacts DEF Waiting
<1>10. CASE CountUsage
  <2>1. /\ pc = "cluster" /\ pc' = "match" /\ cfgIdx' = cfgIdx /\ todo = {}
        /\ clusters' = clusters /\ left' = DOMAIN clusters
    BY <1>10 DEF CountUsage
  <2> QED BY <1>3, <2>1 DEF Waiting, Pending
<1>11. ASSUME NEW c \in left, Match(c) PROVE i = cfgIdx' /\ Waiting(t)'
  <2>1. /\ pc = "match" /\ pc' = "assign" /\ cfgIdx' = cfgIdx /\ left' = left \ {c}
        /\ clusters' = clusters /\ cur'.members = clusters[c].members
    BY <1>11 DEF Match
  <2>2. cur.members = {}
    BY <2>1 DEF Bookkeeping, NothingLeft, NoCluster
  <2> QED BY <1>3, <2>1, <2>2 DEF Waiting, Pending
<1>12. ASSUME NEW u \in Trips, Assign(u) PROVE i = cfgIdx' /\ Waiting(t)'
  <2>1. /\ pc = "assign" /\ pc' = "assign" /\ cfgIdx' = cfgIdx
        /\ UNCHANGED <<left, clusters>>
    BY <1>12 DEF Assign
  <2>2. cur'.members = cur.members \ {u} /\ t # u
    BY <1>2, <1>12, AssignFacts
  <2> QED BY <1>3, <2>1, <2>2 DEF Waiting, Pending
<1>13. CASE ClusterDone
  <2>1. /\ pc = "assign" /\ pc' = "match" /\ cfgIdx' = cfgIdx
        /\ UNCHANGED <<left, clusters>> /\ cur.members = {} /\ cur'.members = {}
    BY <1>13 DEF ClusterDone, NoCluster
  <2> QED BY <1>3, <2>1 DEF Waiting, Pending
<1>14. CASE ConfigDone
  <2>1. pc = "match" /\ cfgIdx' = cfgIdx /\ left = {}
    BY <1>14 DEF ConfigDone
  <2>2. cur.members = {}
    BY <2>1 DEF Bookkeeping, NothingLeft, NoCluster
  <2>3. ~Waiting(t)
    BY <2>1, <2>2 DEF Waiting, Pending
  <2> QED BY <1>3, <2>1, <2>3
<1>15. CASE WriteFeed
  BY <1>3, <1>15 DEF WriteFeed, Waiting
<1>16. CASE Terminated
  BY <1>3, <1>16 DEF Terminated, vars, Waiting, Pending
<1>17. ASSUME NEW c \in left, MatchFails(c) PROVE FALSE
  BY <1>17 DEF MatchFails
<1> QED BY <1>5, <1>6, <1>7, <1>8, <1>9, <1>10, <1>11, <1>12, <1>13, <1>14, <1>15,
           <1>16, <1>17 DEF Next

-----------------------------------------------------------------------------
(* The theorems.                                                           *)

LEMMA FeedStep == FeedInv /\ [Next]_vars => FeedInv'
<1>1. ASSUME FeedInv, Next PROVE FeedInv'
  BY <1>1, BookkeepingStep, RepsCachedStep, RepsSelectedStep, ClustersEqualStep,
     LoadedUntouchedStep, ResolvedStep, ComputedStep, CoverageStep, DiesStep DEF FeedInv
<1>2. ASSUME FeedInv, UNCHANGED vars PROVE FeedInv'
  <2> USE <1>2 DEF FeedInv, vars
  <2>1. Bookkeeping'
    BY BookkeepingStep
  <2>2. RepsCached' /\ RepsSelected'
    BY DEF RepsCached, RepsSelected, Building, TripType, UsedMots
  <2>3. \A a, b : RoutingEqual(a, b)' <=> RoutingEqual(a, b)
    BY InputConstant
  <2>4. \A t \in Trips : Geometry(t)' = Geometry(t) /\ (HasShape(t)' <=> HasShape(t))
    BY DEF Geometry, HasShape, Present
  <2>5. ClustersEqual' /\ LoadedUntouched' /\ Resolved'
    BY <2>3, <2>4 DEF ClustersEqual, LoadedUntouched, Loaded, Resolved, Dangling
  <2>8. Computed'
    BY DEF Computed, Building, TripType, UsedMots
  <2>9. \A t \in Trips : Shaped(t)' <=> Shaped(t)
    BY <2>3, <2>4 DEF Shaped, Own, Inherits, Dangling, TripType, UsedMots
  <2>6. Coverage'
    BY <2>9 DEF Coverage, Needed, Waiting, Pending, StopsOf, TripType, UsedMots
  <2>7. DiesOnlyAtEntrances'
    BY <2>4 DEF DiesOnlyAtEntrances, ReadsMissingStopTimes, KeepsShape, StopsOf, TripType,
                UsedMots
  <2> QED BY <2>1, <2>2, <2>5, <2>6, <2>7, <2>8
<1> QED BY <1>1, <1>2

\* The invariant of the feed holds in every state of the run
THEOREM FeedInvariant == Spec => []FeedInv
BY InitFeed, FeedStep, PTL DEF Spec

\* The const getRAttrs of get_shape finds the first trip of every cluster in
\* the cache that cluster_trips filled
THEOREM AttrsCachedThm == Spec => []AttrsCached
<1>1. FeedInv => AttrsCached
  BY DEF FeedInv, Bookkeeping, TypeOK, RepsCached, AttrsCached
<1> QED BY <1>1, FeedInvariant, PTL

\* Without -D, get_shape leaves every trip alone that was loaded with a shape,
\* though shape ids are erased and generated again
THEOREM LoadedShapesKeptThm == Spec => []LoadedShapesKept
<1>1. FeedInv => LoadedShapesKept
  BY DEF FeedInv, LoadedUntouched, Loaded, LoadedShapesKept
<1> QED BY <1>1, FeedInvariant, PTL

\* When app::run writes the feed, whatever was loaded, every trip that a
\* configuration selects has a shape: that of the input, if -D is not given, or
\* one computed for a routing-equal trip; or, without -D and only by a shape_id
\* that did not resolve, that of a trip of an earlier configuration
THEOREM FeedShapedThm == Spec => []FeedShaped
<1>1. FeedInv /\ (pc = "done" => cfgIdx = Len(MotCfgs)) => FeedShaped
  <2> SUFFICES ASSUME FeedInv, pc = "done", cfgIdx = Len(MotCfgs),
                      NEW t \in Trips, Selected(t)
               PROVE  Shaped(t)
    BY DEF FeedShaped, Shaped, Own, Inherits
  <2>1. PICK i \in 1..cfgIdx : Needed(i, t)
    BY RunAssumption DEF Selected, Needed
  <2> QED BY <2>1 DEF FeedInv, Coverage, Waiting
<1>2. Init => (pc = "done" => cfgIdx = Len(MotCfgs))
  BY DEF Init
<1>3. (pc = "done" => cfgIdx = Len(MotCfgs)) /\ [Next]_vars
         => (pc = "done" => cfgIdx = Len(MotCfgs))'
  BY DEF Next, SkipConfig, StartConfig, SkipTrip, JoinCluster, NewCluster, CountUsage,
         MatchFails, Match, Assign, ClusterDone, ConfigDone, WriteFeed, Terminated, vars
<1> QED BY <1>1, <1>2, <1>3, FeedInvariant, PTL DEF Spec

\* get_node_candidate_route throws only for a stop that is an entrance or that
\* was not snapped: write_mot_stops registers all others
THEOREM DiesOnlyAtEntrancesThm == Spec => []DiesOnlyAtEntrances
<1>1. FeedInv => DiesOnlyAtEntrances
  BY DEF FeedInv
<1> QED BY <1>1, FeedInvariant, PTL

=============================================================================
