-------------------------- MODULE ShortestPathProofs --------------------------
(***************************************************************************)
(* Proofs about ShortestPath: a search that has ended returns lowest costs *)
(* for every graph, every heuristic centre and every order of equal        *)
(* entries.                                                                *)
(***************************************************************************)
EXTENDS ShortestPath, Induction, FiniteSetTheorems, SequenceTheorems

-----------------------------------------------------------------------------
(* The sum that MapThenSumSet computes.                                    *)

Pick(s) == CHOOSE x \in s : TRUE

\* A function obeys the equations by which MapThenSumSet sums At over the
\* subsets of T with at most n members
SumUpTo(g, T, n) ==
    g = [s \in {u \in SUBSET T : Cardinality(u) <= n} |->
           IF s = {} THEN 0
           ELSE At(Pick(s)) + g[s \ {Pick(s)}]]

LEMMA SumExists ==
  ASSUME NEW T, IsFiniteSet(T), NEW n \in Nat
  PROVE  \E g : SumUpTo(g, T, n)
  <1> DEFINE Good == {m \in Nat : \E g : SumUpTo(g, T, m)}
  <1> DEFINE D(m) == {u \in SUBSET T : Cardinality(u) <= m}
  <1>1. \A u \in SUBSET T : IsFiniteSet(u) /\ Cardinality(u) \in Nat
    BY FS_Subset, FS_CardinalityType
  <1>2. 0 \in Good
    <2>1. D(0) = {{}}
      BY <1>1, FS_EmptySet
    <2> DEFINE z == [s \in D(0) |-> 0]
    <2>2. SumUpTo(z, T, 0)
      BY <2>1 DEF SumUpTo
    <2> QED
      BY <2>2
  <1>3. ASSUME NEW m \in Good PROVE m + 1 \in Good
    <2>1. PICK g : SumUpTo(g, T, m)
      OBVIOUS
    <2> DEFINE h == [s \in D(m + 1) |-> IF s = {} THEN 0 ELSE At(Pick(s)) + g[s \ {Pick(s)}]]
    <2>a. \A s \in D(m) : g[s] = IF s = {} THEN 0 ELSE At(Pick(s)) + g[s \ {Pick(s)}]
      BY <2>1 DEF SumUpTo
    <2>b. D(m) \subseteq D(m + 1)
      BY <1>1
    <2>2. \A s \in D(m) : h[s] = g[s]
      <3> HIDE DEF D
      <3> QED
        BY <2>a, <2>b
    <2>3. ASSUME NEW s \in D(m + 1), s # {} PROVE s \ {Pick(s)} \in D(m)
      <3>1. Pick(s) \in s
        BY <2>3 DEF Pick
      <3>2. Cardinality(s \ {Pick(s)}) = Cardinality(s) - 1
        BY <1>1, <3>1, FS_RemoveElement
      <3> QED
        BY <1>1, <3>2
    <2>4. SumUpTo(h, T, m + 1)
      <3>1. \A s \in D(m + 1) : h[s] = IF s = {} THEN 0 ELSE At(Pick(s)) + h[s \ {Pick(s)}]
        <4> HIDE DEF D
        <4> QED
          BY <2>2, <2>3
      <3>2. h = [s \in D(m + 1) |-> IF s = {} THEN 0 ELSE At(Pick(s)) + h[s \ {Pick(s)}]]
        <4> DEFINE k == [s \in D(m + 1) |-> IF s = {} THEN 0 ELSE At(Pick(s)) + h[s \ {Pick(s)}]]
        <4> HIDE DEF D
        <4>1. DOMAIN h = DOMAIN k /\ \A s \in D(m + 1) : h[s] = k[s]
          BY <3>1
        <4> QED
          BY <4>1
      <3> QED
        BY <3>2 DEF SumUpTo
    <2> QED
      BY <2>4
  <1> QED
    <2>1. Good = Nat
      BY <1>2, <1>3, SetInduction
    <2> QED
      BY <2>1
\* The equations have an integer solution
LEMMA SumInt ==
  ASSUME NEW T, IsFiniteSet(T), \A x \in T : At(x) \in Int, NEW g,
         \A s \in SUBSET T : g[s] = IF s = {} THEN 0 ELSE At(Pick(s)) + g[s \ {Pick(s)}]
  PROVE  g[T] \in Int
  <1> DEFINE Good == {m \in Nat : \A s \in SUBSET T : Cardinality(s) = m => g[s] \in Int}
  <1>1. \A u \in SUBSET T : IsFiniteSet(u) /\ Cardinality(u) \in Nat
    BY FS_Subset, FS_CardinalityType
  <1>2. \A s \in SUBSET T : g[s] = IF s = {} THEN 0 ELSE At(Pick(s)) + g[s \ {Pick(s)}]
    OBVIOUS
  <1>3. 0 \in Good
    <2>1. \A s \in SUBSET T : Cardinality(s) = 0 => s = {}
      BY <1>1, FS_EmptySet
    <2>2. g[{}] = 0
      BY <1>2
    <2>3. ASSUME NEW s \in SUBSET T, Cardinality(s) = 0 PROVE g[s] \in Int
      <3>1. s = {}
        BY <2>1, <2>3
      <3> QED
        BY ONLY <2>2, <3>1
    <2> QED
      BY <2>3
  <1>4. ASSUME NEW m \in Good PROVE m + 1 \in Good
    <2>. m \in Nat /\ \A s \in SUBSET T : Cardinality(s) = m => g[s] \in Int
      OBVIOUS
    <2> HIDE DEF Good
    <2> SUFFICES ASSUME NEW s \in SUBSET T, Cardinality(s) = m + 1 PROVE g[s] \in Int
      BY DEF Good
    <2>1. s # {}
      BY ONLY m \in Nat, Cardinality(s) = m + 1, FS_EmptySet
    <2>2. Pick(s) \in s
      BY <2>1 DEF Pick
    <2>3. Cardinality(s \ {Pick(s)}) = m
      <3>1. Cardinality(s \ {Pick(s)}) = Cardinality(s) - 1
        BY <1>1, <2>2, FS_RemoveElement
      <3> QED
        BY ONLY <3>1, m \in Nat, Cardinality(s) = m + 1
    <2>4. g[s \ {Pick(s)}] \in Int
      BY <2>3
    <2>5. At(Pick(s)) \in Int
      BY <2>2
    <2>6. g[s] = At(Pick(s)) + g[s \ {Pick(s)}]
      BY <1>2, <2>1
    <2> QED
      BY ONLY <2>4, <2>5, <2>6
  <1>5. Good = Nat
    BY <1>3, <1>4, SetInduction
  <1> QED
    BY <1>1, <1>5

LEMMA CentreSum ==
  ASSUME NEW T, IsFiniteSet(T), \A x \in T : At(x) \in Int
  PROVE  MapThenSumSet(At, T) \in Int
  <1> DEFINE F(g) == [s \in SUBSET T |-> IF s = {} THEN 0 ELSE At(Pick(s)) + g[s \ {Pick(s)}]]
  <1>1. Cardinality(T) \in Nat /\ SUBSET T = {u \in SUBSET T : Cardinality(u) <= Cardinality(T)}
    BY FS_Subset, FS_CardinalityType
  <1>2. \E g : g = F(g)
    <2>1. PICK g : SumUpTo(g, T, Cardinality(T))
      BY <1>1, SumExists
    <2>2. g = F(g)
      BY <1>1, <2>1 DEF SumUpTo
    <2> QED
      BY <2>2
  <1> DEFINE it == CHOOSE g : g = F(g)
  <1>3. it = F(it)
    BY <1>2
  <1>4. MapThenSumSet(At, T) = it[T]
    BY DEF MapThenSumSet, MapThenFoldSet, Pick
  <1>5. it[T] \in Int
    <2> HIDE DEF it
    <2> QED
      <3>1. \A s \in SUBSET T : it[s] = IF s = {} THEN 0 ELSE At(Pick(s)) + it[s \ {Pick(s)}]
        BY <1>3
      <3> QED
        BY <3>1, SumInt
  <1> QED
    BY <1>4, <1>5

-----------------------------------------------------------------------------
(* The call and its heuristic.                                             *)

LEMMA MaxExists ==
  ASSUME NEW S \in SUBSET Int, IsFiniteSet(S), S # {}
  PROVE  Max(S) \in S /\ \A y \in S : y <= Max(S)
  <1>1. \E x \in S : \A y \in S : y <= x
    BY GreatestElement
  <1> QED
    BY <1>1 DEF Max

CallOK == call \in UNION Calls

LEMMA CallShape ==
  ASSUME CallOK
  PROVE  /\ call.algo \in {"edges", "nodes"}
         /\ call.mode \in {"first", "each"} \/ (call.mode \in {"all", "rev"} /\ call.algo = "edges")
         /\ call.graph \subseteq Nodes \X Nodes \X Nat /\ IsFiniteSet(call.graph)
         /\ call.from \subseteq IF call.algo = "nodes" \/ call.args[1] = "node" THEN Nodes ELSE call.graph
         /\ call.to \subseteq IF call.algo = "nodes" \/ call.args[2] = "node" THEN Nodes ELSE call.graph
         /\ call.algo = "edges" /\ call.args[1] = "node" => Cardinality(call.from) = 1
         /\ call.turn \in Nat /\ call.inf \in Nat
         /\ call.heur => /\ call.mode \in {"first", "each"} /\ ~call.enter
                         /\ \A e \in call.graph : Abs(Pos[e[1]] - Pos[e[2]]) <= e[3]
         /\ call.pair => /\ Cardinality(call.to) = 1
                         /\ call.algo = "edges" => call.args[2] = "node"
  BY CallsOK DEF CallOK, CallsAssumption

LEMMA ItemFacts ==
  ASSUME CallOK
  PROVE  /\ IsFiniteSet(Items) /\ Cardinality(Items) \in Nat
         /\ Sources \subseteq Items /\ Targets \subseteq Items
         /\ IsFiniteSet(Targets)
         /\ \A x \in Items : At(x) \in Int /\ First(x) \in Nat
         /\ call.algo = "edges" => Items \subseteq Nodes \X Nodes \X Nat
         /\ call.algo = "nodes" => Items = Nodes
  <1>1. call.algo = "edges" => Items = call.graph
    BY DEF Items
  <1>2. call.algo = "nodes" => Items = Nodes
    BY DEF Items
  <1>3. IsFiniteSet(Items)
    BY <1>1, <1>2, CallShape, NodesAssumption
  <1>4. Sources \subseteq Items
    BY <1>1, <1>2, CallShape DEF Sources, Out
  <1>5. Targets \subseteq Items
    BY <1>1, <1>2, CallShape DEF Targets, In
  <1>6. \A x \in Items : At(x) \in Int /\ First(x) \in Nat
    BY <1>1, <1>2, CallShape, PosAssumption DEF At, First, Start
  <1> QED
    BY <1>1, <1>2, <1>3, <1>4, <1>5, <1>6, CallShape, FS_Subset, FS_CardinalityType

\* The circle around the centre of the targets holds all targets
LEMMA CircleHoldsTargets ==
  ASSUME CallOK
  PROVE  Centre \in Int /\ Radius \in Int /\ \A t \in Targets : Abs(At(t) - Centre) <= Radius
  <1>1. CASE Targets = {}
    BY <1>1 DEF Centre, Radius
  <1>2. CASE Targets # {}
    <2>1. MapThenSumSet(At, Targets) \in Int
      BY ItemFacts, CentreSum
    <2>2. Cardinality(Targets) \in Nat \ {0}
      BY <1>2, ItemFacts, FS_CardinalityType, FS_EmptySet
    <2>3. Centre \in Int
      BY <1>2, <2>1, <2>2 DEF Centre
    <2> DEFINE S == {Abs(At(t) - Centre) : t \in Targets}
    <2>4. S \in SUBSET Int
      BY <2>3, ItemFacts DEF Abs
    <2>5. IsFiniteSet(S)
      <3> DEFINE f == [t \in Targets |-> Abs(At(t) - Centre)]
      <3>1. f \in Surjection(Targets, S)
        BY DEF Surjection
      <3> QED
        BY <3>1, ItemFacts, FS_Surjection
    <2>6. Radius = Max(S)
      BY <1>2 DEF Radius
    <2>7. Max(S) \in S /\ \A y \in S : y <= Max(S)
      <3>1. S # {}
        BY <1>2
      <3> HIDE DEF S
      <3> QED
        BY <2>4, <2>5, <3>1, MaxExists
    <2> QED
      BY <2>3, <2>4, <2>6, <2>7
  <1> QED
    BY <1>1, <1>2

\* Where the heuristic measures from
CircleOK ==
    /\ centre \in Int /\ radius \in Int
    /\ \A t \in Targets : Abs(At(t) - centre) <= radius

LEMMA HeurFacts ==
  ASSUME CallOK, CircleOK
  PROVE  /\ \A x \in Items : Heur(x) \in Int
         /\ \A t \in Targets : Heur(t) <= 0
         /\ ~call.heur => \A x \in Items : Heur(x) = 0
  BY ItemFacts DEF Heur, CircleOK, Abs

\* Costs are not negative; the heuristic value never falls by more than the
\* cost of a step; and no step into an item costs less than starting there
LEMMA StepFacts ==
  ASSUME CallOK, CircleOK, NEW x \in Items, NEW y \in Items, NEW c \in Step(x, y)
  PROVE  /\ c \in Nat
         /\ Heur(x) <= c + Heur(y)
         /\ call.mode # "rev" => First(y) <= c
  <1>1. CASE call.algo = "nodes"
    <2>1. PICK e \in call.graph : e[1] = x /\ e[2] = y /\ c = e[3]
      <3>1. Step(x, y) = {e[3] : e \in Out(x) \cap In(y)}
        BY <1>1, CallShape DEF Step
      <3>2. PICK e \in Out(x) \cap In(y) : c = e[3]
        BY <3>1
      <3> QED
        BY <3>2 DEF Out, In
    <2>2. e[3] \in Nat /\ x \in Nodes /\ y \in Nodes
      BY <2>1, CallShape
    <2>3. call.heur => Abs(Pos[x] - Pos[y]) <= c
      BY <2>1, CallShape
    <2>4. Pos[x] \in Int /\ Pos[y] \in Int
      BY <2>2, PosAssumption
    <2>5. Heur(x) <= c + Heur(y)
      BY ONLY <1>1, <2>1, <2>2, <2>3, <2>4, CircleOK DEF Heur, At, Abs, CircleOK
    <2>6. First(y) = 0
      BY <1>1 DEF First
    <2> QED
      BY <2>1, <2>2, <2>5, <2>6
  <1>2. CASE call.algo = "edges"
    <2>1. x \in Nodes \X Nodes \X Nat /\ y \in Nodes \X Nodes \X Nat /\ x \in call.graph
      BY <1>2, ItemFacts DEF Items
    <2>2. CASE call.mode = "rev"
      <3>1. c = Move(y, x) /\ ~call.heur
        BY <1>2, <2>2, CallShape DEF Step
      <3>2. c \in Nat
        BY <2>1, <3>1, CallShape DEF Move
      <3> QED
        BY <2>2, <3>1, <3>2, HeurFacts
    <2>3. CASE call.mode # "rev"
      <3>1. c = Move(x, y) /\ x[2] = y[1]
        BY <1>2, <2>3 DEF Step
      <3>2. c \in Nat /\ (~call.enter => x[3] <= c) /\ (call.enter => c = y[3])
        BY <2>1, <3>1, CallShape DEF Move
      <3>3. call.heur => Abs(Pos[x[1]] - Pos[y[1]]) <= x[3] /\ ~call.enter
        BY <2>1, <3>1, CallShape
      <3>4. Pos[x[1]] \in Int /\ Pos[y[1]] \in Int /\ x[3] \in Nat
        BY <2>1, PosAssumption
      <3>5. Heur(x) <= c + Heur(y)
        BY ONLY <1>2, <3>2, <3>3, <3>4, CircleOK DEF Heur, At, Abs, CircleOK
      <3>6. First(y) <= c
        BY <1>2, <2>1, <3>2 DEF First, Start
      <3> QED
        BY <3>2, <3>5, <3>6
    <2> QED
      BY <2>2, <2>3
  <1> QED
    BY <1>1, <1>2, CallShape

-----------------------------------------------------------------------------
(* The reference.                                                          *)

\* The equations that define Cheapest, up to walks of n steps
Bellman(f, n) ==
    f = [k \in 0..n |-> IF k = 0 THEN [x \in Sources |-> First(x)] ELSE Extend(f[k - 1])]

LEMMA BellmanExists ==
  ASSUME NEW n \in Nat
  PROVE  \E f : Bellman(f, n)
  <1> DEFINE Good == {m \in Nat : \E f : Bellman(f, m)}
  <1> DEFINE F(f, k) == IF k = 0 THEN [x \in Sources |-> First(x)] ELSE Extend(f[k - 1])
  <1>1. 0 \in Good
    <2> DEFINE z == [k \in 0..0 |-> [x \in Sources |-> First(x)]]
    <2>1. Bellman(z, 0)
      BY DEF Bellman
    <2> QED
      BY <2>1
  <1>2. ASSUME NEW m \in Good PROVE m + 1 \in Good
    <2>1. PICK f : Bellman(f, m)
      OBVIOUS
    <2>2. m \in Nat
      OBVIOUS
    <2> HIDE DEF Good
    <2>3. DOMAIN f = 0..m /\ \A k \in 0..m : f[k] = F(f, k)
      BY <2>1 DEF Bellman
    <2> DEFINE g == [k \in 0..(m + 1) |-> IF k = m + 1 THEN Extend(f[m]) ELSE f[k]]
    <2>4. \A k \in 0..m : g[k] = f[k]
      BY <2>2
    <2>5. \A k \in 0..(m + 1) : g[k] = F(g, k)
      <3> SUFFICES ASSUME NEW k \in 0..(m + 1) PROVE g[k] = F(g, k)
        OBVIOUS
      <3>1. CASE k = m + 1
        <4>1. k # 0 /\ k - 1 = m /\ g[k] = Extend(f[m]) /\ g[m] = f[m]
          BY <2>2, <2>4, <3>1
        <4> QED
          BY <4>1
      <3>2. CASE k # m + 1
        <4>1. k \in 0..m /\ (k # 0 => k - 1 \in 0..m)
          BY <2>2, <3>2
        <4>2. F(f, k) = F(g, k)
          BY <2>4, <4>1
        <4> QED
          BY <2>3, <2>4, <4>1, <4>2
      <3> QED
        BY <3>1, <3>2
    <2>6. g = [k \in 0..(m + 1) |-> F(g, k)]
      <3> DEFINE h == [k \in 0..(m + 1) |-> F(g, k)]
      <3>1. DOMAIN g = DOMAIN h /\ \A k \in 0..(m + 1) : g[k] = h[k]
        BY <2>5
      <3>2. g = h
        <4>1. DOMAIN g = 0..(m + 1)
          OBVIOUS
        <4> HIDE DEF F
        <4> QED
          BY <3>1, <4>1
      <3> QED
        BY <3>2
    <2>7. Bellman(g, m + 1)
      BY <2>6 DEF Bellman
    <2> QED
      BY <2>2, <2>7 DEF Good
  <1> QED
    BY <1>1, <1>2, SetInduction

LEMMA CheapestEquations ==
  ASSUME CallOK
  PROVE  Bellman(Cheapest, Cardinality(Items))
  BY ItemFacts, BellmanExists DEF Bellman, Cheapest

\* Two functions that obey the equations are the same
LEMMA BellmanUnique ==
  ASSUME NEW n \in Nat, NEW f, NEW g, Bellman(f, n), Bellman(g, n)
  PROVE  f = g
  <1> DEFINE F(h, k) == IF k = 0 THEN [x \in Sources |-> First(x)] ELSE Extend(h[k - 1])
  <1>1. DOMAIN f = 0..n /\ \A k \in 0..n : f[k] = F(f, k)
    BY DEF Bellman
  <1>2. DOMAIN g = 0..n /\ \A k \in 0..n : g[k] = F(g, k)
    BY DEF Bellman
  <1> DEFINE Good == {m \in Nat : m <= n => f[m] = g[m]}
  <1>3. 0 \in Good
    BY <1>1, <1>2
  <1>4. ASSUME NEW m \in Good PROVE m + 1 \in Good
    <2> SUFFICES ASSUME m + 1 <= n PROVE f[m + 1] = g[m + 1]
      OBVIOUS
    <2>1. m \in Nat /\ m + 1 \in 0..n /\ (m + 1) - 1 = m /\ m + 1 # 0 /\ f[m] = g[m]
      OBVIOUS
    <2> QED
      BY <1>1, <1>2, <2>1
  <1>5. Good = Nat
    BY <1>3, <1>4, SetInduction
  <1>6. \A k \in 0..n : f[k] = g[k]
    BY <1>5
  <1>7. f = [k \in 0..n |-> f[k]] /\ g = [k \in 0..n |-> g[k]]
    BY DEF Bellman
  <1> QED
    BY ONLY <1>6, <1>7

LEMMA CheapestUnfold ==
  ASSUME CallOK
  PROVE  /\ Cheapest[0] = [x \in Sources |-> First(x)]
         /\ \A n \in Nat : n + 1 <= Cardinality(Items) => Cheapest[n + 1] = Extend(Cheapest[n])
  <1> DEFINE N == Cardinality(Items)
  <1>1. N \in Nat
    BY ItemFacts
  <1>2. \A k \in 0..N : Cheapest[k] = IF k = 0 THEN [x \in Sources |-> First(x)]
                                      ELSE Extend(Cheapest[k - 1])
    BY CheapestEquations DEF Bellman
  <1> HIDE DEF N
  <1>3. ASSUME NEW n \in Nat, n + 1 <= N PROVE Cheapest[n + 1] = Extend(Cheapest[n])
    <2>1. n + 1 \in 0..N /\ n + 1 # 0 /\ (n + 1) - 1 = n
      BY <1>1, <1>3
    <2> QED
      BY <1>2, <2>1
  <1>4. Cheapest[0] = [x \in Sources |-> First(x)]
    BY <1>1, <1>2
  <1> QED
    BY <1>3, <1>4 DEF N

LEMMA MinExists ==
  ASSUME NEW S \in SUBSET Nat, S # {}
  PROVE  Min(S) \in S /\ \A y \in S : Min(S) <= y
  <1>1. PICK x \in S : \A y \in S : ~(y < x)
    BY LeastElement
  <1>2. \A y \in S : x <= y
    BY <1>1
  <1> QED
    BY <1>2 DEF Min

\* The costs of one step further: a value for y is the old one or comes by a
\* step, and is the least of these
LEMMA ExtendFacts ==
  ASSUME CallOK, CircleOK, NEW d, DOMAIN d \subseteq Items, \A x \in DOMAIN d : d[x] \in Nat
  PROVE  /\ DOMAIN Extend(d) \subseteq Items
         /\ \A y \in DOMAIN Extend(d) :
              /\ Extend(d)[y] \in Nat
              /\ \/ y \in DOMAIN d /\ Extend(d)[y] = d[y]
                 \/ \E x \in DOMAIN d : \E c \in Step(x, y) :
                      Extend(d)[y] = d[x] + c /\ d[x] + c < call.inf
         /\ \A y \in DOMAIN d : y \in DOMAIN Extend(d) /\ Extend(d)[y] <= d[y]
         /\ \A x \in DOMAIN d, y \in Items : \A c \in Step(x, y) :
              d[x] + c < call.inf => y \in DOMAIN Extend(d) /\ Extend(d)[y] <= d[x] + c
  <1> DEFINE via(y) == {d[l[1]] + l[2] : l \in UNION {{x} \X Step(x, y) : x \in DOMAIN d}}
  <1> DEFINE all(y) == {v \in via(y) : v < call.inf} \cup (IF y \in DOMAIN d THEN {d[y]} ELSE {})
  <1>1. DOMAIN Extend(d) = {y \in Items : all(y) # {}}
    BY DEF Extend
  <1>2. \A y \in DOMAIN Extend(d) : Extend(d)[y] = Min(all(y))
    BY DEF Extend
  <1>3. \A y \in Items : \A v : v \in via(y) <=> \E x \in DOMAIN d : \E c \in Step(x, y) : v = d[x] + c
    <2> SUFFICES ASSUME NEW y \in Items, NEW v
                 PROVE  v \in via(y) <=> \E x \in DOMAIN d : \E c \in Step(x, y) : v = d[x] + c
      OBVIOUS
    <2>1. ASSUME v \in via(y) PROVE \E x \in DOMAIN d : \E c \in Step(x, y) : v = d[x] + c
      BY <2>1
    <2>2. ASSUME NEW x \in DOMAIN d, NEW c \in Step(x, y), v = d[x] + c PROVE v \in via(y)
      <3>1. <<x, c>> \in UNION {{z} \X Step(z, y) : z \in DOMAIN d}
        OBVIOUS
      <3>2. v = d[<<x, c>>[1]] + <<x, c>>[2]
        BY <2>2
      <3> QED
        BY <3>1, <3>2
    <2> QED
      BY <2>1, <2>2
  <1> HIDE DEF via
  <1>4. \A y \in Items : all(y) \subseteq Nat
    BY <1>3, StepFacts
  <1>5. \A y \in DOMAIN Extend(d) : Min(all(y)) \in all(y) /\ \A v \in all(y) : Min(all(y)) <= v
    BY <1>1, <1>4, MinExists
  <1>6. ASSUME NEW y \in DOMAIN Extend(d)
        PROVE  /\ Extend(d)[y] \in Nat
               /\ \/ y \in DOMAIN d /\ Extend(d)[y] = d[y]
                  \/ \E x \in DOMAIN d : \E c \in Step(x, y) :
                       Extend(d)[y] = d[x] + c /\ d[x] + c < call.inf
    <2>1. y \in Items /\ Extend(d)[y] \in all(y)
      BY <1>1, <1>2, <1>5
    <2>2. Extend(d)[y] \in Nat
      BY <1>4, <2>1
    <2>3. CASE Extend(d)[y] \in via(y) /\ Extend(d)[y] < call.inf
      <3>1. PICK x \in DOMAIN d : \E c \in Step(x, y) : Extend(d)[y] = d[x] + c
        BY <1>3, <2>1, <2>3
      <3> QED
        BY <2>2, <2>3, <3>1
    <2>4. CASE y \in DOMAIN d /\ Extend(d)[y] = d[y]
      BY <2>2, <2>4
    <2> QED
      BY <2>1, <2>3, <2>4
  <1>7. ASSUME NEW y \in DOMAIN d PROVE y \in DOMAIN Extend(d) /\ Extend(d)[y] <= d[y]
    <2>1. y \in Items /\ d[y] \in all(y)
      OBVIOUS
    <2> QED
      BY <1>1, <1>2, <1>5, <2>1
  <1>8. ASSUME NEW x \in DOMAIN d, NEW y \in Items, NEW c \in Step(x, y), d[x] + c < call.inf
        PROVE  y \in DOMAIN Extend(d) /\ Extend(d)[y] <= d[x] + c
    <2>1. d[x] + c \in all(y)
      BY <1>3, <1>8
    <2> HIDE DEF all
    <2> QED
      BY <1>1, <1>2, <1>5, <2>1
  <1> QED
    BY <1>1, <1>6, <1>7, <1>8

N == Cardinality(Items)

LEMMA CheapestTyped ==
  ASSUME CallOK, CircleOK, NEW n \in 0..N
  PROVE  /\ DOMAIN Cheapest[n] \subseteq Items
         /\ \A x \in DOMAIN Cheapest[n] :
              Cheapest[n][x] \in Nat /\ (call.mode # "rev" => First(x) <= Cheapest[n][x])
  <1> DEFINE Typed(m) == /\ DOMAIN Cheapest[m] \subseteq Items
                         /\ \A x \in DOMAIN Cheapest[m] :
                              /\ Cheapest[m][x] \in Nat
                              /\ call.mode # "rev" => First(x) <= Cheapest[m][x]
  <1> DEFINE Good == {m \in Nat : m <= N => Typed(m)}
  <1>1. 0 \in Good
    <2>1. Typed(0)
      BY CheapestUnfold, ItemFacts
    <2> HIDE DEF Typed
    <2> QED
      BY <2>1
  <1>2. ASSUME NEW m \in Good PROVE m + 1 \in Good
    <2> SUFFICES ASSUME m + 1 <= N PROVE Typed(m + 1)
      BY DEF Good
    <2>1. m \in Nat /\ m <= N
      BY ItemFacts DEF N
    <2>2. Typed(m)
      BY <2>1
    <2>3. Cheapest[m + 1] = Extend(Cheapest[m])
      BY <2>1, CheapestUnfold DEF N
    <2>4. DOMAIN Cheapest[m + 1] \subseteq Items
      BY <2>2, <2>3, ExtendFacts
    <2>5. ASSUME NEW y \in DOMAIN Cheapest[m + 1]
          PROVE  /\ Cheapest[m + 1][y] \in Nat
                 /\ call.mode # "rev" => First(y) <= Cheapest[m + 1][y]
      <3>1. /\ Cheapest[m + 1][y] \in Nat
            /\ \/ y \in DOMAIN Cheapest[m] /\ Cheapest[m + 1][y] = Cheapest[m][y]
               \/ \E x \in DOMAIN Cheapest[m] : \E c \in Step(x, y) :
                    Cheapest[m + 1][y] = Cheapest[m][x] + c
        BY <2>2, <2>3, <2>5, ExtendFacts
      <3>2. CASE y \in DOMAIN Cheapest[m] /\ Cheapest[m + 1][y] = Cheapest[m][y]
        BY <2>2, <3>2
      <3>3. ASSUME NEW x \in DOMAIN Cheapest[m], NEW c \in Step(x, y),
                   Cheapest[m + 1][y] = Cheapest[m][x] + c, call.mode # "rev"
            PROVE  First(y) <= Cheapest[m + 1][y]
        <4>1. First(y) <= c /\ c \in Nat /\ Cheapest[m][x] \in Nat /\ First(y) \in Nat
          BY <2>2, <2>4, <3>3, StepFacts, ItemFacts
        <4> QED
          BY ONLY <4>1, <3>3
      <3> QED
        BY <3>1, <3>2, <3>3
    <2> QED
      BY <2>4, <2>5
  <1>3. Good = Nat
    BY <1>1, <1>2, SetInduction
  <1>4. n \in Nat /\ n <= N
    BY ItemFacts DEF N
  <1>5. Typed(n)
    <2> HIDE DEF Typed
    <2> QED
      BY <1>3, <1>4
  <1> QED
    BY <1>5

LEMMA CheapestStep ==
  ASSUME CallOK, CircleOK, NEW n \in Nat, n + 1 <= N
  PROVE  /\ \A y \in DOMAIN Cheapest[n + 1] :
              \/ y \in DOMAIN Cheapest[n] /\ Cheapest[n + 1][y] = Cheapest[n][y]
              \/ \E x \in DOMAIN Cheapest[n] : \E c \in Step(x, y) :
                   Cheapest[n + 1][y] = Cheapest[n][x] + c /\ Cheapest[n][x] + c < call.inf
         /\ \A y \in DOMAIN Cheapest[n] :
              y \in DOMAIN Cheapest[n + 1] /\ Cheapest[n + 1][y] <= Cheapest[n][y]
         /\ \A x \in DOMAIN Cheapest[n], y \in Items : \A c \in Step(x, y) :
              Cheapest[n][x] + c < call.inf =>
                y \in DOMAIN Cheapest[n + 1] /\ Cheapest[n + 1][y] <= Cheapest[n][x] + c
  <1>1. n \in 0..N
    BY ItemFacts DEF N
  <1>2. Cheapest[n + 1] = Extend(Cheapest[n])
    BY CheapestUnfold DEF N
  <1>3. DOMAIN Cheapest[n] \subseteq Items /\ \A x \in DOMAIN Cheapest[n] : Cheapest[n][x] \in Nat
    BY <1>1, CheapestTyped
  <1> QED
    BY <1>2, <1>3, ExtendFacts

\* A walk of at most n steps leads to x and costs at most v
Walked(x, v, n) == x \in DOMAIN Cheapest[n] /\ Cheapest[n][x] <= v

LEMMA WalkedLonger ==
  ASSUME CallOK, CircleOK, NEW n \in 0..N, NEW m \in n..N, NEW x, NEW v \in Int, Walked(x, v, n)
  PROVE  Walked(x, v, m)
  <1> DEFINE Good == {k \in Nat : n + k <= N => Walked(x, v, n + k)}
  <1>0. n \in Nat /\ N \in Nat
    BY ItemFacts DEF N
  <1>1. 0 \in Good
    BY <1>0
  <1>2. ASSUME NEW k \in Good PROVE k + 1 \in Good
    <2> SUFFICES ASSUME n + (k + 1) <= N PROVE Walked(x, v, n + (k + 1))
      BY DEF Good
    <2>1. k \in Nat /\ n + k \in Nat /\ (n + k) + 1 = n + (k + 1) /\ (n + k) + 1 <= N /\ n + k <= N
      BY <1>0
    <2>2. n + k \in 0..N /\ n + (k + 1) \in 0..N
      BY <1>0, <2>1
    <2>3. Walked(x, v, n + k)
      BY <2>1
    <2>4. x \in DOMAIN Cheapest[n + (k + 1)] /\ Cheapest[n + (k + 1)][x] <= Cheapest[n + k][x]
      <3>1. x \in DOMAIN Cheapest[(n + k) + 1] /\ Cheapest[(n + k) + 1][x] <= Cheapest[n + k][x]
        BY <2>1, <2>3, CheapestStep DEF Walked
      <3> QED
        BY <2>1, <3>1
    <2>5. Cheapest[n + (k + 1)][x] \in Nat /\ Cheapest[n + k][x] \in Nat
      BY <2>2, <2>3, <2>4, CheapestTyped DEF Walked
    <2> QED
      BY <2>3, <2>4, <2>5 DEF Walked
  <1>3. Good = Nat
    BY <1>1, <1>2, SetInduction
  <1>4. m - n \in Nat /\ n + (m - n) = m /\ n + (m - n) <= N
    BY <1>0
  <1>5. Walked(x, v, n + (m - n))
    BY <1>3, <1>4
  <1> QED
    BY <1>4, <1>5

-----------------------------------------------------------------------------
(* The invariant, for a queue q, settled entries s and answers a.          *)

\* The queue or the settled entries account for x at cost v
Covered(q, s, x, v) ==
    \/ x \in DOMAIN s /\ s[x].d <= v
    \/ \E r \in q : r.x = x /\ r.d <= v

\* First entries wait with key 0 instead of their cost and heuristic value
Early(q, r) ==
    /\ r.h = 0 /\ r.d = First(r.x)
    /\ call.algo = "nodes" \/ call.mode = "all"
    /\ 0 <= r.d + Heur(r.x) \/ q = {r}

\* Entries stand for walks and have the key they should have
QueueOK(q, s) ==
    \A r \in q :
        /\ r.x \in Items /\ r.d \in Nat
        /\ Walked(r.x, r.d, Cardinality(DOMAIN s))
        /\ IF call.mode = "rev" THEN r.h = 0 ELSE r.h = r.d + Heur(r.x) \/ Early(q, r)

\* What is settled stands for a walk and no walk is cheaper
SettledOK(s) ==
    /\ DOMAIN s \subseteq Items
    /\ \A x \in DOMAIN s :
         /\ s[x].d \in Nat
         /\ Walked(x, s[x].d, Cardinality(DOMAIN s))
         /\ \A n \in 0..N : x \in DOMAIN Cheapest[n] => s[x].d <= Cheapest[n][x]

\* Nothing that can be reached is lost
CoverOK(q, s) ==
    /\ \A x \in Sources : Covered(q, s, x, First(x))
    /\ \A x \in DOMAIN s, y \in Items : \A c \in Step(x, y) :
         s[x].d + c < call.inf => Covered(q, s, y, s[x].d + c)

\* The answers given so far
CostsOK(s, a) ==
    CASE call.mode = "first" -> a = None /\ Targets \cap DOMAIN s = {}
      [] call.mode = "each" ->
           a = [t \in Targets |-> IF t \in DOMAIN s THEN s[t].d ELSE call.inf]
      [] OTHER -> a = [x \in DOMAIN s |-> s[x].d]

SearchOK(q, s, a) == QueueOK(q, s) /\ SettledOK(s) /\ CoverOK(q, s) /\ CostsOK(s, a)

Inv ==
    /\ CallOK /\ CircleOK
    /\ pc \in {"start", "search", "done"}
    /\ pc = "start" => settled = None /\ costs = None
    /\ pc = "search" /\ SourcesOutside => SearchOK(pq, settled, costs)
    /\ SearchExact

-----------------------------------------------------------------------------
(* What the top of the queue means.                                        *)

\* The top has the least cost and heuristic value of all entries, or it is a
\* start item that waited with key 0
LEMMA TopLeast ==
  ASSUME CallOK, CircleOK, NEW q, NEW s, QueueOK(q, s), NEW r \in Top(q)
  PROVE  \/ \A w \in q : r.d + Heur(r.x) <= w.d + Heur(w.x)
         \/ /\ r.d = First(r.x) /\ 0 < r.d + Heur(r.x)
            /\ call.algo = "nodes" \/ call.mode = "all"
  <1>1. r \in q /\ \A w \in q : r.h < w.h \/ (r.h = w.h /\ r.d <= w.d)
    BY DEF Top
  <1>2. \A w \in q : w.x \in Items /\ w.d \in Nat /\ Heur(w.x) \in Int
    BY HeurFacts DEF QueueOK
  <1>3. CASE call.mode = "rev"
    <2>1. \A w \in q : w.h = 0 /\ Heur(w.x) = 0
      BY <1>2, <1>3, CallShape, HeurFacts DEF QueueOK
    <2> QED
      BY <1>1, <1>2, <2>1
  <1>4. CASE call.mode # "rev"
    <2>1. \A w \in q : w.h = w.d + Heur(w.x) \/ Early(q, w)
      BY <1>4 DEF QueueOK
    <2>2. CASE Early(q, r) /\ 0 < r.d + Heur(r.x)
      BY <1>4, <2>2 DEF Early
    <2>3. CASE q = {r}
      BY <1>2, <2>3
    <2>4. CASE q # {r} /\ ~(Early(q, r) /\ 0 < r.d + Heur(r.x))
      <3>1. r.h = r.d + Heur(r.x)
        <4>1. CASE Early(q, r)
          <5>1. r.h = 0 /\ 0 <= r.d + Heur(r.x)
            BY <2>4, <4>1 DEF Early
          <5> QED
            BY <1>1, <1>2, <2>4, <4>1, <5>1
        <4> QED
          BY <1>1, <2>1, <4>1
      <3>2. ASSUME NEW w \in q PROVE r.d + Heur(r.x) <= w.d + Heur(w.x)
        <4>1. r.h < w.h \/ (r.h = w.h /\ r.d <= w.d)
          BY <1>1
        <4>2. CASE w.h = w.d + Heur(w.x)
          BY <1>1, <1>2, <3>1, <4>1, <4>2
        <4>3. CASE Early(q, w)
          <5>1. w.h = 0
            BY <4>3 DEF Early
          <5>2. 0 <= w.d + Heur(w.x)
            BY <1>1, <2>4, <4>3 DEF Early
          <5> QED
            BY <1>1, <1>2, <3>1, <4>1, <5>1, <5>2
        <4> QED
          BY <2>1, <4>2, <4>3
      <3> QED
        BY <3>2
    <2> QED
      BY <2>2, <2>3, <2>4
  <1> QED
    BY <1>3, <1>4

\* Whatever is not settled costs, with its heuristic value, at least as much
\* as an entry that is the least of the queue in this sense
LEMMA LowerBound ==
  ASSUME CallOK, CircleOK, NEW q, NEW s, QueueOK(q, s), SettledOK(s), CoverOK(q, s),
         NEW k \in Int, \A w \in q : k <= w.d + Heur(w.x),
         NEW n \in 0..N, NEW z \in DOMAIN Cheapest[n], z \notin DOMAIN s
  PROVE  k <= Cheapest[n][z] + Heur(z)
  <1> DEFINE Bound(m) == \A y \in DOMAIN Cheapest[m] :
                            y \in DOMAIN s \/ k <= Cheapest[m][y] + Heur(y)
  <1> DEFINE Good == {m \in Nat : m <= N => Bound(m)}
  <1>a. \A w \in q : w.x \in Items /\ w.d \in Nat
    BY DEF QueueOK
  <1>b. ASSUME NEW y \in Items, NEW v \in Int, Covered(q, s, y, v), y \notin DOMAIN s
        PROVE  k <= v + Heur(y)
    <2>1. PICK w \in q : w.x = y /\ w.d <= v
      BY <1>b DEF Covered
    <2>2. k <= w.d + Heur(w.x) /\ w.d \in Nat /\ Heur(y) \in Int
      BY <1>a, HeurFacts
    <2> QED
      BY ONLY <2>1, <2>2, k \in Int, v \in Int
  <1>1. 0 \in Good
    <2>1. ASSUME NEW y \in DOMAIN Cheapest[0], y \notin DOMAIN s
          PROVE  k <= Cheapest[0][y] + Heur(y)
      <3>1. y \in Sources /\ Cheapest[0][y] = First(y)
        BY CheapestUnfold
      <3>2. Covered(q, s, y, First(y)) /\ y \in Items /\ First(y) \in Int
        BY <3>1, ItemFacts DEF CoverOK
      <3> QED
        BY <1>b, <2>1, <3>1, <3>2
    <2> QED
      BY <2>1
  <1>2. ASSUME NEW m \in Good PROVE m + 1 \in Good
    <2> SUFFICES ASSUME m + 1 <= N, NEW y \in DOMAIN Cheapest[m + 1], y \notin DOMAIN s
                 PROVE  k <= Cheapest[m + 1][y] + Heur(y)
      BY DEF Good
    <2>1. m \in Nat /\ m <= N /\ Bound(m)
      BY ItemFacts DEF N
    <2>2. m \in 0..N /\ m + 1 \in 0..N
      BY <2>1, ItemFacts DEF N
    <2> HIDE DEF Good
    <2>3. y \in Items /\ Heur(y) \in Int
      BY <2>2, CheapestTyped, HeurFacts
    <2>4. \A x \in DOMAIN Cheapest[m] : x \in Items /\ Cheapest[m][x] \in Nat /\ Heur(x) \in Int
      BY <2>2, CheapestTyped, HeurFacts
    <2>5. CASE y \in DOMAIN Cheapest[m] /\ Cheapest[m + 1][y] = Cheapest[m][y]
      BY <2>1, <2>5
    <2>6. ASSUME NEW x \in DOMAIN Cheapest[m], NEW c \in Step(x, y),
                 Cheapest[m + 1][y] = Cheapest[m][x] + c, Cheapest[m][x] + c < call.inf
          PROVE  k <= Cheapest[m + 1][y] + Heur(y)
      <3>1. x \in Items /\ c \in Nat /\ Heur(x) <= c + Heur(y)
        BY <2>3, <2>4, StepFacts
      <3>2. CASE x \in DOMAIN s
        <4>1. s[x].d <= Cheapest[m][x] /\ s[x].d \in Nat
          BY <2>2, <3>2 DEF SettledOK
        <4>2. s[x].d + c < call.inf
          BY <2>4, <2>6, <3>1, <4>1, CallShape
        <4>3. Covered(q, s, y, s[x].d + c)
          BY <2>3, <3>2, <4>2 DEF CoverOK
        <4>4. k <= (s[x].d + c) + Heur(y)
          BY <1>b, <2>3, <3>1, <4>1, <4>3
        <4>5. Cheapest[m][x] \in Nat
          BY <2>4
        <4> QED
          BY ONLY <2>3, <2>6, <3>1, <4>1, <4>4, <4>5, k \in Int
      <3>3. CASE x \notin DOMAIN s
        <4>1. k <= Cheapest[m][x] + Heur(x) /\ Cheapest[m][x] \in Nat /\ Heur(x) \in Int
          BY <2>1, <2>4, <3>3
        <4> QED
          BY ONLY <2>3, <2>6, <3>1, <4>1, k \in Int
      <3> QED
        BY <3>2, <3>3
    <2> QED
      BY <2>1, <2>5, <2>6, CheapestStep
  <1>3. Good = Nat
    BY <1>1, <1>2, SetInduction
  <1>4. n \in Good /\ n <= N
    BY <1>3, ItemFacts DEF N
  <1> QED
    BY <1>4

\* No walk to the top of the queue is cheaper
LEMMA TopExact ==
  ASSUME CallOK, CircleOK, NEW q, NEW s, QueueOK(q, s), SettledOK(s), CoverOK(q, s),
         NEW r \in Top(q), r.x \notin DOMAIN s, NEW n \in 0..N, r.x \in DOMAIN Cheapest[n]
  PROVE  r.d <= Cheapest[n][r.x]
  <1>1. r \in q /\ r.x \in Items /\ r.d \in Nat /\ Heur(r.x) \in Int
    BY HeurFacts DEF Top, QueueOK
  <1>2. Cheapest[n][r.x] \in Nat /\ (call.mode # "rev" => First(r.x) <= Cheapest[n][r.x])
    BY CheapestTyped
  <1>3. CASE \A w \in q : r.d + Heur(r.x) <= w.d + Heur(w.x)
    <2>1. r.d + Heur(r.x) <= Cheapest[n][r.x] + Heur(r.x)
      BY <1>1, <1>3, LowerBound
    <2> QED
      BY <1>1, <1>2, <2>1
  <1>4. CASE r.d = First(r.x) /\ call.mode # "rev"
    BY <1>2, <1>4
  <1>5. call.algo = "nodes" \/ call.mode = "all" => call.mode # "rev"
    BY CallShape
  <1> QED
    BY <1>3, <1>4, <1>5, TopLeast

-----------------------------------------------------------------------------
(* The steps.                                                              *)

\* Relaxing an item adds an entry for every step from it that stays below inf
LEMMA RelaxFacts ==
  ASSUME CallOK, CircleOK, NEW r, r.x \in Items, r.d \in Nat
  PROVE  /\ \A w \in Relax(r) :
              /\ w.x \in Items /\ w.d \in Nat
              /\ w.parent = r.x
              /\ IF call.mode = "rev" THEN w.h = 0 ELSE w.h = w.d + Heur(w.x)
              /\ \E c \in Step(r.x, w.x) : w.d = r.d + c /\ r.d + c < call.inf
         /\ \A y \in Items : \A c \in Step(r.x, y) :
              r.d + c < call.inf => \E w \in Relax(r) : w.x = y /\ w.d = r.d + c
  <1>1. CASE call.algo = "nodes"
    <2>1. Relax(r) = RelaxNode(r) /\ call.mode # "rev"
      BY <1>1, CallShape DEF Relax
    <2>2. \A e \in call.graph : e[1] \in Nodes /\ e[2] \in Nodes /\ e[3] \in Nat
      BY CallShape
    <2>3. \A y : Step(r.x, y) = {e[3] : e \in Out(r.x) \cap In(y)}
      BY <1>1, CallShape DEF Step
    <2>4. ASSUME NEW w \in Relax(r)
          PROVE  /\ w.x \in Items /\ w.d \in Nat
                 /\ w.parent = r.x
                 /\ w.h = w.d + Heur(w.x)
                 /\ \E c \in Step(r.x, w.x) : w.d = r.d + c /\ r.d + c < call.inf
      <3>1. PICK e \in Out(r.x) : /\ ~(call.inf <= r.d + e[3])
                                  /\ w = Entry(e[2], r.x, e, r.d + e[3], r.d + e[3] + Heur(e[2]))
        BY <2>1 DEF RelaxNode
      <3>2. e \in call.graph /\ e \in In(e[2])
        BY <3>1 DEF Out, In
      <3>3. w.x = e[2] /\ w.d = r.d + e[3] /\ w.h = w.d + Heur(w.x) /\ w.parent = r.x
        BY <3>1 DEF Entry
      <3>4. e[3] \in Step(r.x, w.x)
        BY <2>3, <3>1, <3>2, <3>3
      <3>5. w.x \in Items /\ w.d \in Nat /\ r.d + e[3] < call.inf
        BY <1>1, <2>2, <3>1, <3>2, <3>3, CallShape, ItemFacts
      <3> QED
        BY <3>3, <3>4, <3>5
    <2>5. ASSUME NEW y \in Items, NEW c \in Step(r.x, y), r.d + c < call.inf
          PROVE  \E w \in Relax(r) : w.x = y /\ w.d = r.d + c
      <3>1. PICK e \in Out(r.x) \cap In(y) : c = e[3]
        BY <2>3
      <3>2. e \in call.graph /\ e[2] = y
        BY <3>1 DEF Out, In
      <3>3. ~(call.inf <= r.d + e[3])
        BY <2>2, <2>5, <3>1, <3>2, CallShape
      <3> DEFINE w == Entry(e[2], r.x, e, r.d + e[3], r.d + e[3] + Heur(e[2]))
      <3>4. w \in Relax(r)
        BY <2>1, <3>1, <3>3 DEF RelaxNode
      <3>5. w.x = y /\ w.d = r.d + c
        BY <3>1, <3>2 DEF Entry
      <3> QED
        BY <3>4, <3>5
    <2> QED
      BY <2>1, <2>4, <2>5
  <1>2. CASE call.algo = "edges" /\ call.mode = "rev"
    <2>1. Relax(r) = RelaxInv(r) /\ Items = call.graph
      BY <1>2 DEF Relax, Items
    <2>2. \A e \in call.graph : Move(e, r.x) \in Nat
      BY <1>2, CallShape, ItemFacts DEF Move
    <2>3. \A y \in Items : Step(r.x, y) = IF y[2] = r.x[1] /\ r.x # y THEN {Move(y, r.x)} ELSE {}
      BY <1>2 DEF Step
    <2>4. ASSUME NEW w \in Relax(r)
          PROVE  /\ w.x \in Items /\ w.d \in Nat
                 /\ w.parent = r.x /\ w.h = 0
                 /\ \E c \in Step(r.x, w.x) : w.d = r.d + c /\ r.d + c < call.inf
      <3>1. PICK f \in In(r.x[1]) \ {r.x} : /\ ~(call.inf <= r.d + Move(f, r.x))
                                            /\ w = Entry(f, r.x, r.x[1], r.d + Move(f, r.x), 0)
        BY <2>1 DEF RelaxInv
      <3>2. f \in call.graph /\ f[2] = r.x[1] /\ f # r.x
        BY <3>1 DEF In
      <3>3. w.x = f /\ w.d = r.d + Move(f, r.x) /\ w.h = 0 /\ w.parent = r.x
        BY <3>1 DEF Entry
      <3>4. Move(f, r.x) \in Step(r.x, w.x)
        BY <2>1, <2>3, <3>2, <3>3
      <3>5. w.x \in Items /\ w.d \in Nat /\ r.d + Move(f, r.x) < call.inf
        BY <2>1, <2>2, <3>1, <3>2, <3>3, CallShape
      <3> QED
        BY <3>3, <3>4, <3>5
    <2>5. ASSUME NEW y \in Items, NEW c \in Step(r.x, y), r.d + c < call.inf
          PROVE  \E w \in Relax(r) : w.x = y /\ w.d = r.d + c
      <3>1. y[2] = r.x[1] /\ r.x # y /\ c = Move(y, r.x)
        BY <2>3
      <3>2. y \in In(r.x[1]) \ {r.x} /\ ~(call.inf <= r.d + Move(y, r.x))
        BY <2>1, <2>2, <2>5, <3>1, CallShape DEF In
      <3> DEFINE w == Entry(y, r.x, r.x[1], r.d + Move(y, r.x), 0)
      <3>3. w \in Relax(r)
        BY <2>1, <3>2 DEF RelaxInv
      <3>4. w.x = y /\ w.d = r.d + c
        BY <3>1 DEF Entry
      <3> QED
        BY <3>3, <3>4
    <2> QED
      BY <1>2, <2>4, <2>5
  <1>3. CASE call.algo = "edges" /\ call.mode # "rev"
    <2>1. Relax(r) = RelaxEdge(r) /\ Items = call.graph
      BY <1>3 DEF Relax, Items
    <2>2. \A e \in call.graph : Move(r.x, e) \in Nat
      BY <1>3, CallShape, ItemFacts DEF Move
    <2>3. \A y \in Items : Step(r.x, y) = IF r.x[2] = y[1] /\ r.x # y THEN {Move(r.x, y)} ELSE {}
      BY <1>3 DEF Step
    <2>4. ASSUME NEW w \in Relax(r)
          PROVE  /\ w.x \in Items /\ w.d \in Nat
                 /\ w.parent = r.x /\ w.h = w.d + Heur(w.x)
                 /\ \E c \in Step(r.x, w.x) : w.d = r.d + c /\ r.d + c < call.inf
      <3>1. PICK f \in Out(r.x[2]) \ {r.x} :
              /\ ~(call.inf <= r.d + Move(r.x, f))
              /\ w = Entry(f, r.x, r.x[2], r.d + Move(r.x, f), r.d + Move(r.x, f) + Heur(f))
        BY <2>1 DEF RelaxEdge
      <3>2. f \in call.graph /\ f[1] = r.x[2] /\ f # r.x
        BY <3>1 DEF Out
      <3>3. w.x = f /\ w.d = r.d + Move(r.x, f) /\ w.h = w.d + Heur(w.x) /\ w.parent = r.x
        BY <3>1 DEF Entry
      <3>4. Move(r.x, f) \in Step(r.x, w.x)
        BY <2>1, <2>3, <3>2, <3>3
      <3>5. w.x \in Items /\ w.d \in Nat /\ r.d + Move(r.x, f) < call.inf
        BY <2>1, <2>2, <3>1, <3>2, <3>3, CallShape
      <3> QED
        BY <3>3, <3>4, <3>5
    <2>5. ASSUME NEW y \in Items, NEW c \in Step(r.x, y), r.d + c < call.inf
          PROVE  \E w \in Relax(r) : w.x = y /\ w.d = r.d + c
      <3>1. r.x[2] = y[1] /\ r.x # y /\ c = Move(r.x, y)
        BY <2>3
      <3>2. y \in Out(r.x[2]) \ {r.x} /\ ~(call.inf <= r.d + Move(r.x, y))
        BY <2>1, <2>2, <2>5, <3>1, CallShape DEF Out
      <3> DEFINE w == Entry(y, r.x, r.x[2], r.d + Move(r.x, y), r.d + Move(r.x, y) + Heur(y))
      <3>3. w \in Relax(r)
        BY <2>1, <3>2 DEF RelaxEdge
      <3>4. w.x = y /\ w.d = r.d + c
        BY <3>1 DEF Entry
      <3> QED
        BY <3>3, <3>4
    <2> QED
      BY <1>3, <2>4, <2>5
  <1> QED
    BY <1>1, <1>2, <1>3, CallShape

\* The number of steps that walks to settled items need is in range
LEMMA SettledCount ==
  ASSUME CallOK, NEW s, DOMAIN s \subseteq Items, NEW x \in Items, x \notin DOMAIN s
  PROVE  /\ Cardinality(DOMAIN s) \in 0..N
         /\ Cardinality(DOMAIN s \cup {x}) = Cardinality(DOMAIN s) + 1
         /\ Cardinality(DOMAIN s \cup {x}) \in 0..N
  <1>1. IsFiniteSet(Items) /\ N \in Nat
    BY ItemFacts DEF N
  <1> DEFINE S == DOMAIN s
  <1>2. S \subseteq Items /\ S \cup {x} \subseteq Items /\ x \notin S
    OBVIOUS
  <1> HIDE DEF S
  <1>3. IsFiniteSet(S) /\ Cardinality(S) \in Nat /\ Cardinality(S) <= N
    BY <1>1, <1>2, FS_Subset, FS_CardinalityType DEF N
  <1>4. Cardinality(S \cup {x}) = Cardinality(S) + 1
    BY <1>2, <1>3, FS_AddElement
  <1>5. Cardinality(S \cup {x}) <= N
    BY <1>1, <1>2, FS_Subset DEF N
  <1>6. Cardinality(S) \in 0..N /\ Cardinality(S \cup {x}) \in 0..N
    BY ONLY <1>1, <1>3, <1>4, <1>5
  <1> QED
    BY <1>4, <1>6 DEF S

LEMMA SettleKeepsSearch ==
  ASSUME CallOK, CircleOK, NEW q, NEW s, QueueOK(q, s), SettledOK(s), CoverOK(q, s),
         NEW r \in Top(q), r.x \notin DOMAIN s
  PROVE  /\ SettledOK(Put(s, r.x, r))
         /\ QueueOK((q \ {r}) \cup Relax(r), Put(s, r.x, r))
         /\ CoverOK((q \ {r}) \cup Relax(r), Put(s, r.x, r))
  <1> DEFINE t == Put(s, r.x, r)
  <1> DEFINE p == (q \ {r}) \cup Relax(r)
  <1>1. r \in q /\ r.x \in Items /\ r.d \in Nat
    BY DEF Top, QueueOK
  <1>2. /\ DOMAIN t = DOMAIN s \cup {r.x}
        /\ t[r.x] = r
        /\ \A x \in DOMAIN s : t[x] = s[x]
    BY DEF Put
  <1>3. DOMAIN s \subseteq Items
    BY DEF SettledOK
  <1> DEFINE k == Cardinality(DOMAIN s)
  <1>4. k \in 0..N /\ Cardinality(DOMAIN t) = k + 1 /\ k + 1 \in 0..N
    BY <1>1, <1>2, <1>3, SettledCount
  <1>5. k \in Nat /\ N \in Nat /\ k + 1 \in k..N
    BY <1>4, ItemFacts DEF N
  <1> HIDE DEF k
  <1>6. \A x : \A v \in Nat : Walked(x, v, k) => Walked(x, v, k + 1)
    BY <1>4, <1>5, WalkedLonger
  <1>7. Walked(r.x, r.d, k)
    BY <1>1 DEF QueueOK, k
  <1> HIDE DEF t
  <1>8. SettledOK(t)
    <2>1. DOMAIN t \subseteq Items
      BY <1>1, <1>2, <1>3
    <2>2. ASSUME NEW x \in DOMAIN t
          PROVE  /\ t[x].d \in Nat
                 /\ Walked(x, t[x].d, k + 1)
                 /\ \A n \in 0..N : x \in DOMAIN Cheapest[n] => t[x].d <= Cheapest[n][x]
      <3>1. CASE x = r.x
        BY <1>1, <1>2, <1>6, <1>7, <3>1, TopExact
      <3>2. CASE x \in DOMAIN s
        <4>1. s[x].d \in Nat /\ Walked(x, s[x].d, k)
          BY <3>2 DEF SettledOK, k
        <4>2. Walked(x, s[x].d, k + 1)
          BY <1>6, <4>1
        <4>3. \A n \in 0..N : x \in DOMAIN Cheapest[n] => s[x].d <= Cheapest[n][x]
          BY <3>2 DEF SettledOK
        <4> QED
          BY <1>2, <3>2, <4>1, <4>2, <4>3
      <3> QED
        BY <1>2, <3>1, <3>2
    <2> QED
      BY <1>4, <2>1, <2>2 DEF SettledOK
  <1>9. QueueOK(p, t)
    <2> SUFFICES ASSUME NEW w \in p
                 PROVE  /\ w.x \in Items /\ w.d \in Nat
                        /\ Walked(w.x, w.d, k + 1)
                        /\ IF call.mode = "rev" THEN w.h = 0
                           ELSE w.h = w.d + Heur(w.x) \/ Early(p, w)
      BY <1>4 DEF QueueOK
    <2>1. CASE w \in q /\ w # r
      <3>1. /\ w.x \in Items /\ w.d \in Nat /\ Walked(w.x, w.d, k)
            /\ IF call.mode = "rev" THEN w.h = 0 ELSE w.h = w.d + Heur(w.x) \/ Early(q, w)
        BY <2>1 DEF QueueOK, k
      <3>2. Early(q, w) => Early(p, w)
        BY <1>1, <2>1 DEF Early
      <3> QED
        BY <1>6, <3>1, <3>2
    <2>2. CASE w \in Relax(r)
      <3>1. /\ w.x \in Items /\ w.d \in Nat
            /\ IF call.mode = "rev" THEN w.h = 0 ELSE w.h = w.d + Heur(w.x)
        BY <1>1, <2>2, RelaxFacts
      <3>2. PICK c \in Step(r.x, w.x) : w.d = r.d + c /\ r.d + c < call.inf
        BY <1>1, <2>2, RelaxFacts
      <3>3. c \in Nat
        BY <1>1, <3>1, <3>2, StepFacts
      <3>4. r.x \in DOMAIN Cheapest[k] /\ Cheapest[k][r.x] <= r.d /\ Cheapest[k][r.x] \in Nat
        BY <1>4, <1>7, CheapestTyped DEF Walked
      <3>5. Cheapest[k][r.x] + c < call.inf
        BY ONLY <1>1, <3>2, <3>3, <3>4, CallOK, CallShape
      <3>6. w.x \in DOMAIN Cheapest[k + 1] /\ Cheapest[k + 1][w.x] <= Cheapest[k][r.x] + c
        BY <1>4, <1>5, <3>1, <3>2, <3>4, <3>5, CheapestStep
      <3>7. Cheapest[k + 1][w.x] \in Nat
        BY <1>4, <3>6, CheapestTyped
      <3>8. Walked(w.x, w.d, k + 1)
        BY <1>1, <3>2, <3>3, <3>4, <3>6, <3>7 DEF Walked
      <3> QED
        BY <3>1, <3>8
    <2> QED
      BY <2>1, <2>2
  <1>10. CoverOK(p, t)
    <2>1. ASSUME NEW x, NEW v, Covered(q, s, x, v) PROVE Covered(p, t, x, v)
      <3>1. CASE x \in DOMAIN s /\ s[x].d <= v
        BY <1>2, <3>1 DEF Covered
      <3>2. ASSUME NEW w \in q, w.x = x, w.d <= v PROVE Covered(p, t, x, v)
        <4>1. CASE w = r
          BY <1>2, <3>2, <4>1 DEF Covered
        <4>2. CASE w # r
          BY <3>2, <4>2 DEF Covered
        <4> QED
          BY <4>1, <4>2
      <3> QED
        BY <2>1, <3>1, <3>2 DEF Covered
    <2>2. \A x \in Sources : Covered(p, t, x, First(x))
      BY <2>1 DEF CoverOK
    <2>3. ASSUME NEW x \in DOMAIN t, NEW y \in Items, NEW c \in Step(x, y), t[x].d + c < call.inf
          PROVE  Covered(p, t, y, t[x].d + c)
      <3>1. CASE x = r.x
        <4>1. PICK w \in Relax(r) : w.x = y /\ w.d = r.d + c
          BY <1>1, <1>2, <2>3, <3>1, RelaxFacts
        <4>2. c \in Nat
          BY <1>1, <3>1, StepFacts
        <4>3. w \in p /\ w.d <= r.d + c
          BY <1>1, <4>1, <4>2
        <4> QED
          BY <1>2, <3>1, <4>1, <4>3 DEF Covered
      <3>2. CASE x \in DOMAIN s
        <4>1. t[x] = s[x]
          BY <1>2, <3>2
        <4>2. Covered(q, s, y, s[x].d + c)
          BY <2>3, <3>2, <4>1 DEF CoverOK
        <4> QED
          BY <2>1, <4>1, <4>2
      <3> QED
        BY <1>2, <3>1, <3>2
    <2> QED
      BY <2>2, <2>3 DEF CoverOK
  <1> QED
    BY <1>8, <1>9, <1>10 DEF t

LEMMA SkipKeepsSearch ==
  ASSUME CallOK, CircleOK, NEW q, NEW s, QueueOK(q, s), SettledOK(s), CoverOK(q, s),
         NEW r \in Top(q), r.x \in DOMAIN s
  PROVE  QueueOK(q \ {r}, s) /\ CoverOK(q \ {r}, s)
  <1>1. r \in q /\ r.x \in Items /\ r.d \in Nat
    BY DEF Top, QueueOK
  <1>2. \A w \in q \ {r} : Early(q, w) => Early(q \ {r}, w)
    BY <1>1 DEF Early
  <1>3. QueueOK(q \ {r}, s)
    BY <1>2 DEF QueueOK
  <1>4. s[r.x].d <= r.d
    <2> DEFINE k == Cardinality(DOMAIN s)
    <2>1. k \in 0..N
      <3>1. IsFiniteSet(Items) /\ N \in Nat
        BY ItemFacts DEF N
      <3>2. IsFiniteSet(DOMAIN s) /\ k <= N /\ k \in Nat
        BY <3>1, FS_Subset, FS_CardinalityType DEF SettledOK, N
      <3> QED
        BY <3>1, <3>2
    <2>2. Walked(r.x, r.d, k)
      BY <1>1 DEF QueueOK
    <2> HIDE DEF k
    <2>3. r.x \in DOMAIN Cheapest[k] /\ Cheapest[k][r.x] <= r.d /\ Cheapest[k][r.x] \in Nat
      BY <2>1, <2>2, CheapestTyped DEF Walked
    <2>4. s[r.x].d <= Cheapest[k][r.x] /\ s[r.x].d \in Nat
      BY <2>1, <2>3 DEF SettledOK
    <2> QED
      BY <1>1, <2>3, <2>4
  <1>5. ASSUME NEW x, NEW v \in Int, Covered(q, s, x, v) PROVE Covered(q \ {r}, s, x, v)
    <2>1. CASE x \in DOMAIN s /\ s[x].d <= v
      BY <2>1 DEF Covered
    <2>2. ASSUME NEW w \in q, w.x = x, w.d <= v PROVE Covered(q \ {r}, s, x, v)
      <3>1. CASE w = r
        <4>1. s[x].d <= v
          <5>1. s[r.x].d \in Nat
            BY DEF SettledOK
          <5> QED
            BY <1>1, <1>4, <2>2, <3>1, <5>1
        <4> QED
          BY <2>2, <3>1, <4>1 DEF Covered
      <3>2. CASE w # r
        BY <2>2, <3>2 DEF Covered
      <3> QED
        BY <3>1, <3>2
    <2> QED
      BY <1>5, <2>1, <2>2 DEF Covered
  <1>6. CoverOK(q \ {r}, s)
    <2>1. \A x \in Sources : Covered(q \ {r}, s, x, First(x))
      BY <1>5, ItemFacts DEF CoverOK
    <2>2. ASSUME NEW x \in DOMAIN s, NEW y \in Items, NEW c \in Step(x, y), s[x].d + c < call.inf
          PROVE  Covered(q \ {r}, s, y, s[x].d + c)
      <3>1. s[x].d + c \in Int
        BY StepFacts DEF SettledOK
      <3>2. Covered(q, s, y, s[x].d + c)
        BY <2>2 DEF CoverOK
      <3> QED
        BY <1>5, <3>1, <3>2
    <2> QED
      BY <2>1, <2>2 DEF CoverOK
  <1> QED
    BY <1>3, <1>6

LEMMA SettleKeepsCosts ==
  ASSUME CallOK, NEW s, NEW a, CostsOK(s, a), DOMAIN s \subseteq Items,
         NEW r, r.x \notin DOMAIN s, ~(call.mode = "first" /\ r.x \in Targets)
  PROVE  CostsOK(Put(s, r.x, r), IF Answers(r) THEN Put(a, r.x, r.d) ELSE a)
  <1> DEFINE t == Put(s, r.x, r)
  <1> DEFINE b == IF Answers(r) THEN Put(a, r.x, r.d) ELSE a
  <1>1. /\ DOMAIN t = DOMAIN s \cup {r.x}
        /\ t[r.x] = r
        /\ \A x \in DOMAIN s : t[x] = s[x]
    BY DEF Put
  <1> HIDE DEF t
  <1>2. CASE call.mode = "first"
    <2>1. b = a /\ a = None /\ Targets \cap DOMAIN s = {}
      BY <1>2 DEF Answers, CostsOK
    <2>2. Targets \cap DOMAIN t = {}
      BY <1>1, <1>2, <2>1
    <2> QED
      BY <1>2, <2>1, <2>2 DEF CostsOK, t
  <1>3. CASE call.mode = "each"
    <2>1. a = [u \in Targets |-> IF u \in DOMAIN s THEN s[u].d ELSE call.inf]
      BY <1>3 DEF CostsOK
    <2> DEFINE c == [u \in Targets |-> IF u \in DOMAIN t THEN t[u].d ELSE call.inf]
    <2>2. CASE r.x \in Targets
      <3>1. b = [y \in Targets |-> IF y = r.x THEN r.d ELSE a[y]]
        <4>1. DOMAIN a \cup {r.x} = Targets
          BY <2>1, <2>2
        <4>2. b = Put(a, r.x, r.d)
          BY <1>3, <2>2 DEF Answers
        <4> QED
          BY <4>1, <4>2 DEF Put
      <3>2. \A y \in Targets : (IF y = r.x THEN r.d ELSE a[y])
                               = (IF y \in DOMAIN t THEN t[y].d ELSE call.inf)
        BY <1>1, <2>1
      <3> HIDE DEF b
      <3>3. b = c
        BY <3>1, <3>2
      <3> QED
        BY <1>3, <3>3 DEF CostsOK, b, t
    <2>3. CASE r.x \notin Targets
      <3>1. b = a
        BY <1>3, <2>3 DEF Answers
      <3>2. \A y \in Targets : (IF y \in DOMAIN s THEN s[y].d ELSE call.inf)
                               = (IF y \in DOMAIN t THEN t[y].d ELSE call.inf)
        BY <1>1, <2>3
      <3>3. b = c
        <4> HIDE DEF b
        <4> QED
          BY <2>1, <3>1, <3>2
      <3> QED
        BY <1>3, <3>3 DEF CostsOK, t
    <2> QED
      BY <2>2, <2>3
  <1>4. CASE call.mode \in {"all", "rev"}
    <2>1. a = [x \in DOMAIN s |-> s[x].d]
      BY <1>4 DEF CostsOK
    <2>2. b = [y \in DOMAIN t |-> IF y = r.x THEN r.d ELSE a[y]]
      <3>1. DOMAIN a \cup {r.x} = DOMAIN t
        BY <1>1, <2>1
      <3>2. b = Put(a, r.x, r.d)
        BY <1>4 DEF Answers
      <3> QED
        BY <3>1, <3>2 DEF Put
    <2>3. \A y \in DOMAIN t : (IF y = r.x THEN r.d ELSE a[y]) = t[y].d
      BY <1>1, <2>1
    <2> HIDE DEF b
    <2>4. b = [x \in DOMAIN t |-> t[x].d]
      BY <2>2, <2>3
    <2> QED
      BY <1>4, <2>4 DEF CostsOK, b, t
  <1> QED
    BY <1>2, <1>3, <1>4, CallShape

-----------------------------------------------------------------------------
(* The ends of a search.                                                   *)

\* What SearchExact asks of the answers a
Exact(a) ==
    LET hit == DOMAIN Reference \cap Targets
    IN CASE call.mode = "first" ->
              IF hit = {} THEN a = None
              ELSE \E t \in hit : /\ \A u \in hit : Reference[t] + Heur(t) <= Reference[u] + Heur(u)
                                  /\ a = Put(None, t, Reference[t])
         [] call.mode = "each" ->
              a = [t \in Targets |-> IF t \in hit THEN Reference[t] ELSE call.inf]
         [] OTHER -> a = Reference

LEMMA SettledIsReference ==
  ASSUME CallOK, CircleOK, NEW s, SettledOK(s), NEW x \in DOMAIN s
  PROVE  x \in DOMAIN Reference /\ Reference[x] = s[x].d
  <1> DEFINE k == Cardinality(DOMAIN s)
  <1>1. k \in 0..N /\ N \in 0..N /\ N \in k..N
    <2>1. IsFiniteSet(Items) /\ N \in Nat
      BY ItemFacts DEF N
    <2>2. IsFiniteSet(DOMAIN s) /\ k <= N /\ k \in Nat
      BY <2>1, FS_Subset, FS_CardinalityType DEF SettledOK, N
    <2> QED
      BY <2>1, <2>2
  <1>2. Walked(x, s[x].d, k) /\ s[x].d \in Nat
    BY DEF SettledOK
  <1> HIDE DEF k
  <1>3. Walked(x, s[x].d, N)
    BY <1>1, <1>2, WalkedLonger
  <1>4. x \in DOMAIN Cheapest[N] /\ Cheapest[N][x] <= s[x].d
    BY <1>3 DEF Walked
  <1>5. s[x].d <= Cheapest[N][x] /\ Cheapest[N][x] \in Nat
    BY <1>1, <1>4, CheapestTyped DEF SettledOK
  <1> QED
    BY <1>2, <1>4, <1>5 DEF Reference, N

\* With an empty queue everything that can be reached is settled
LEMMA EmptyQueue ==
  ASSUME CallOK, CircleOK, NEW s, SettledOK(s), CoverOK({}, s)
  PROVE  DOMAIN Reference = DOMAIN s
  <1> DEFINE Good == {m \in Nat : m <= N => DOMAIN Cheapest[m] \subseteq DOMAIN s}
  <1>1. 0 \in Good
    <2>1. DOMAIN Cheapest[0] = Sources
      BY CheapestUnfold
    <2>2. \A x \in Sources : x \in DOMAIN s
      BY DEF CoverOK, Covered
    <2> QED
      BY <2>1, <2>2
  <1>2. ASSUME NEW m \in Good PROVE m + 1 \in Good
    <2> SUFFICES ASSUME m + 1 <= N, NEW y \in DOMAIN Cheapest[m + 1] PROVE y \in DOMAIN s
      BY DEF Good
    <2>1. m \in Nat /\ m <= N /\ DOMAIN Cheapest[m] \subseteq DOMAIN s
      BY ItemFacts DEF N
    <2>2. m \in 0..N /\ m + 1 \in 0..N
      BY <2>1, ItemFacts DEF N
    <2> HIDE DEF Good
    <2>3. ASSUME NEW x \in DOMAIN Cheapest[m], NEW c \in Step(x, y), Cheapest[m][x] + c < call.inf
          PROVE  y \in DOMAIN s
      <3>1. x \in DOMAIN s /\ x \in Items /\ y \in Items /\ Cheapest[m][x] \in Nat
        BY <2>1, <2>2, CheapestTyped
      <3>2. s[x].d <= Cheapest[m][x] /\ s[x].d \in Nat /\ c \in Nat
        BY <2>2, <3>1, StepFacts DEF SettledOK
      <3>3. s[x].d + c < call.inf
        BY <2>3, <3>1, <3>2, CallShape
      <3>4. Covered({}, s, y, s[x].d + c)
        BY <3>1, <3>3 DEF CoverOK
      <3> QED
        BY <3>4 DEF Covered
    <2> QED
      BY <2>1, <2>3, CheapestStep
  <1>3. Good = Nat
    BY <1>1, <1>2, SetInduction
  <1>4. N \in Good
    BY <1>3, ItemFacts DEF N
  <1>5. DOMAIN Reference \subseteq DOMAIN s
    BY <1>4, ItemFacts DEF Reference, N
  <1> QED
    BY <1>5, SettledIsReference

LEMMA ReferenceFunction ==
  ASSUME CallOK, CircleOK
  PROVE  Reference = [x \in DOMAIN Reference |-> Reference[x]]
  <1>1. \A m \in Nat : m <= N => Cheapest[m] = [x \in DOMAIN Cheapest[m] |-> Cheapest[m][x]]
    <2>1. Cheapest[0] = [x \in DOMAIN Cheapest[0] |-> Cheapest[0][x]]
      BY CheapestUnfold
    <2>2. ASSUME NEW m \in Nat, m <= N, m # 0
          PROVE  Cheapest[m] = [x \in DOMAIN Cheapest[m] |-> Cheapest[m][x]]
      <3>1. m - 1 \in Nat /\ (m - 1) + 1 <= N /\ (m - 1) + 1 = m
        BY <2>2, ItemFacts DEF N
      <3>2. Cheapest[m] = Extend(Cheapest[m - 1])
        BY <3>1, CheapestUnfold DEF N
      <3>3. \A d : Extend(d) = [x \in DOMAIN Extend(d) |-> Extend(d)[x]]
        BY DEF Extend
      <3> QED
        BY <3>2, <3>3
    <2> QED
      BY <2>1, <2>2
  <1> QED
    BY <1>1, ItemFacts DEF Reference, N

\* Nothing waits any more
LEMMA ExhaustedExact ==
  ASSUME CallOK, CircleOK, NEW s, NEW a, SettledOK(s), CoverOK({}, s), CostsOK(s, a)
  PROVE  Exact(a)
  <1>1. DOMAIN Reference = DOMAIN s /\ \A x \in DOMAIN s : Reference[x] = s[x].d
    BY EmptyQueue, SettledIsReference
  <1>2. CASE call.mode = "first"
    BY <1>1, <1>2 DEF CostsOK, Exact
  <1>3. CASE call.mode = "each"
    <2>1. a = [t \in Targets |-> IF t \in DOMAIN s THEN s[t].d ELSE call.inf]
      BY <1>3 DEF CostsOK
    <2>2. a = [t \in Targets |-> IF t \in DOMAIN Reference \cap Targets THEN Reference[t]
                                 ELSE call.inf]
      BY <1>1, <2>1
    <2> QED
      BY <1>3, <2>2 DEF Exact
  <1>4. CASE call.mode \in {"all", "rev"}
    <2>1. a = [x \in DOMAIN s |-> s[x].d]
      BY <1>4 DEF CostsOK
    <2>2. a = Reference
      BY <1>1, <2>1, ReferenceFunction
    <2> QED
      BY <1>4, <2>2 DEF Exact
  <1> QED
    BY <1>2, <1>3, <1>4, CallShape

\* All targets are settled
LEMMA AllFoundExact ==
  ASSUME CallOK, CircleOK, NEW s, NEW a, SettledOK(s), CostsOK(s, a), call.mode = "each",
         Targets \subseteq DOMAIN s
  PROVE  Exact(a)
  <1>1. a = [t \in Targets |-> s[t].d]
    BY DEF CostsOK
  <1>2. \A t \in Targets : t \in DOMAIN Reference /\ Reference[t] = s[t].d
    BY SettledIsReference
  <1>3. a = [t \in Targets |-> IF t \in DOMAIN Reference \cap Targets THEN Reference[t]
                               ELSE call.inf]
    BY <1>1, <1>2
  <1> QED
    BY <1>3 DEF Exact

\* The first target is settled
LEMMA FirstFoundExact ==
  ASSUME CallOK, CircleOK, NEW q, NEW s, SearchOK(q, s, None), call.mode = "first",
         NEW r \in Top(q), r.x \notin DOMAIN s, r.x \in Targets
  PROVE  Exact(Put(None, r.x, r.d))
  <1>1. QueueOK(q, s) /\ SettledOK(s) /\ CoverOK(q, s) /\ Targets \cap DOMAIN s = {}
    BY DEF SearchOK, CostsOK
  <1>2. r \in q /\ r.x \in Items /\ r.d \in Nat
    BY <1>1 DEF Top, QueueOK
  <1>3. N \in 0..N /\ Reference = Cheapest[N] /\ \A u \in Items : Heur(u) \in Int
    BY ItemFacts, HeurFacts DEF N, Reference
  <1>4. r.x \in DOMAIN Reference /\ Reference[r.x] = r.d
    <2>1. SettledOK(Put(s, r.x, r))
      BY <1>1, SettleKeepsSearch
    <2>2. r.x \in DOMAIN Put(s, r.x, r) /\ Put(s, r.x, r)[r.x] = r
      BY DEF Put
    <2> QED
      BY <2>1, <2>2, SettledIsReference
  <1>5. ASSUME NEW u \in DOMAIN Reference \cap Targets
        PROVE  Reference[r.x] + Heur(r.x) <= Reference[u] + Heur(u)
    <2>1. u \notin DOMAIN s
      BY <1>1
    <2>2. CASE \A w \in q : r.d + Heur(r.x) <= w.d + Heur(w.x)
      <3>1. r.d + Heur(r.x) \in Int
        BY <1>2, <1>3
      <3>2. r.d + Heur(r.x) <= Cheapest[N][u] + Heur(u)
        BY <1>1, <1>3, <2>1, <2>2, <3>1, LowerBound
      <3> QED
        BY <1>3, <1>4, <3>2
    <2>3. CASE r.d = First(r.x) /\ 0 < r.d + Heur(r.x) /\ call.algo = "nodes"
      <3>1. r.d = 0 /\ Heur(r.x) <= 0 /\ Heur(r.x) \in Int
        BY <1>2, <1>3, <2>3, HeurFacts DEF First
      <3> QED
        BY <2>3, <3>1
    <2> QED
      BY <1>1, <2>2, <2>3, TopLeast
  <1> QED
    BY <1>4, <1>5 DEF Exact

-----------------------------------------------------------------------------
(* The call does not change, and nothing that is defined from it.          *)

Frozen == UNCHANGED <<call, centre, radius>>

LEMMA CallFrozen ==
  ASSUME Frozen
  PROVE  /\ \A n : Out(n)' = Out(n) /\ In(n)' = In(n)
         /\ Sources' = Sources /\ Targets' = Targets /\ Items' = Items
         /\ \A x : At(x)' = At(x) /\ First(x)' = First(x) /\ Heur(x)' = Heur(x)
         /\ \A x, y : Step(x, y)' = Step(x, y)
         /\ CallOK' = CallOK
  <1>1. call' = call /\ centre' = centre /\ radius' = radius
    BY DEF Frozen
  <1>2. \A n : Out(n)' = Out(n) /\ In(n)' = In(n)
    BY <1>1 DEF Out, In
  <1>3. Sources' = Sources
    BY <1>1, <1>2 DEF Sources
  <1>4. Targets' = Targets
    BY <1>1, <1>2 DEF Targets
  <1>5. Items' = Items
    BY <1>1 DEF Items
  <1>6. \A x : At(x)' = At(x)
    BY <1>1 DEF At
  <1>7. \A x : First(x)' = First(x)
    BY <1>1 DEF First, Start
  <1>8. \A x : Heur(x)' = Heur(x)
    BY <1>1, <1>6 DEF Heur
  <1>9. \A x, y : Step(x, y)' = Step(x, y)
    <2>1. \A e, f : Move(e, f)' = Move(e, f)
      BY <1>1 DEF Move
    <2> QED
      BY <1>1, <1>2, <2>1 DEF Step
  <1>10. CallOK' = CallOK
    BY <1>1 DEF CallOK
  <1> QED
    BY <1>2, <1>3, <1>4, <1>5, <1>6, <1>7, <1>8, <1>9, <1>10

\* Cheapest obeys its equations
CheapestOK == Bellman(Cheapest, N) /\ N \in Nat

LEMMA CheapestIsOK == CallOK => CheapestOK
  BY CheapestEquations, ItemFacts DEF CheapestOK, N

LEMMA ReferenceFrozen ==
  ASSUME CallOK, Frozen
  PROVE  N' = N /\ Cheapest' = Cheapest /\ Reference' = Reference
  <1>1. N' = N
    BY CallFrozen DEF N
  <1>2. \A d : Extend(d)' = Extend(d)
    BY CallFrozen DEF Extend, Frozen
  <1>3. \A f, n : Bellman(f, n)' <=> Bellman(f, n)
    BY <1>2, CallFrozen DEF Bellman
  <1>4. CallOK' => CheapestOK'
    BY CheapestIsOK, PTL
  <1>5. Bellman(Cheapest, N)' /\ N' \in Nat
    BY <1>4, CallFrozen DEF CheapestOK
  <1>6. Bellman(Cheapest', N)
    <2>1. Bellman(Cheapest', N')
      BY <1>3, <1>5
    <2> QED
      BY <2>1, <1>1
  <1>7. Cheapest' = Cheapest
    BY <1>1, <1>5, <1>6, CheapestIsOK, BellmanUnique DEF CheapestOK
  <1> QED
    BY <1>1, <1>7 DEF Reference, N

LEMMA SearchFrozen ==
  ASSUME CallOK, Frozen
  PROVE  /\ \A q, s, a : SearchOK(q, s, a)' <=> SearchOK(q, s, a)
         /\ \A a : Exact(a)' <=> Exact(a)
         /\ SourcesOutside' <=> SourcesOutside
         /\ CircleOK' <=> CircleOK
         /\ NoWayIn' <=> NoWayIn
         /\ NoWayOut' <=> NoWayOut
  <1>1. call' = call /\ centre' = centre /\ radius' = radius
    BY DEF Frozen
  <1>2. \A x, v, n : Walked(x, v, n)' <=> Walked(x, v, n)
    BY ReferenceFrozen DEF Walked
  <1>3. \A q, r : Early(q, r)' <=> Early(q, r)
    BY <1>1, CallFrozen DEF Early
  <1>4. \A q, s : QueueOK(q, s)' <=> QueueOK(q, s)
    BY <1>1, <1>2, <1>3, CallFrozen DEF QueueOK
  <1>5. \A s : SettledOK(s)' <=> SettledOK(s)
    BY <1>2, CallFrozen, ReferenceFrozen DEF SettledOK
  <1>6. \A q, s : CoverOK(q, s)' <=> CoverOK(q, s)
    BY <1>1, CallFrozen DEF CoverOK, Covered
  <1>7. \A s, a : CostsOK(s, a)' <=> CostsOK(s, a)
    BY <1>1, CallFrozen DEF CostsOK
  <1>8. \A q, s, a : SearchOK(q, s, a)' <=> SearchOK(q, s, a)
    BY <1>4, <1>5, <1>6, <1>7 DEF SearchOK
  <1>9. \A a : Exact(a)' <=> Exact(a)
    BY <1>1, CallFrozen, ReferenceFrozen DEF Exact
  <1>10. SourcesOutside' <=> SourcesOutside
    BY <1>1, CallFrozen DEF SourcesOutside
  <1>11. CircleOK' <=> CircleOK
    BY <1>1, CallFrozen DEF CircleOK
  <1>12. (NoWayIn' <=> NoWayIn) /\ (NoWayOut' <=> NoWayOut)
    BY <1>1, CallFrozen DEF NoWayIn, NoWayOut
  <1> QED
    BY <1>8, <1>9, <1>10, <1>11, <1>12

-----------------------------------------------------------------------------
(* The beginning.                                                          *)

\* No answer yet
NoAnswer == IF call.mode = "each" THEN [t \in Targets |-> call.inf] ELSE None

LEMMA InitialOK ==
  ASSUME CallOK, CircleOK, SourcesOutside
  PROVE  SearchOK(Initial, None, NoAnswer)
  <1>1. DOMAIN None = {} /\ Cardinality({}) = 0
    BY FS_EmptySet DEF None
  <1>2. \A r \in Initial : r.x \in Sources /\ r.d = First(r.x)
    BY CallShape DEF Initial, Entry, First
  <1>3. \A x \in Sources : \E r \in Initial : r.x = x /\ r.d = First(x)
    <2> SUFFICES ASSUME NEW x \in Sources PROVE \E r \in Initial : r.x = x /\ r.d = First(x)
      OBVIOUS
    <2>1. CASE call.algo = "nodes"
      <3> DEFINE r == Entry(x, Null, Null, 0, 0)
      <3>0. Initial = {Entry(n, Null, Null, 0, 0) : n \in Sources}
        BY <2>1, CallShape DEF Initial
      <3>1. r \in Initial
        BY <3>0
      <3>2. r.x = x /\ r.d = First(x)
        BY <2>1 DEF Entry, First
      <3> QED
        BY <3>1, <3>2
    <2>2. CASE call.algo = "edges" /\ call.mode \in {"all", "rev"}
      <3> DEFINE r == Entry(x, Null, Null, Start(x), 0)
      <3>1. r \in Initial
        BY <2>2 DEF Initial
      <3>2. r.x = x /\ r.d = First(x)
        BY <2>2 DEF Entry, First
      <3> QED
        BY <3>1, <3>2
    <2>3. CASE call.algo = "edges" /\ call.mode \notin {"all", "rev"}
      <3> DEFINE r == Entry(x, Null, Null, Start(x), Start(x) + Heur(x))
      <3>1. r \in Initial
        BY <2>3 DEF Initial
      <3>2. r.x = x /\ r.d = First(x)
        BY <2>3 DEF Entry, First
      <3> QED
        BY <3>1, <3>2
    <2> QED
      BY <2>1, <2>2, <2>3, CallShape
  <1>4. \A r \in Initial : IF call.mode = "rev" THEN r.h = 0
                           ELSE r.h = r.d + Heur(r.x) \/ Early(Initial, r)
    <2> SUFFICES ASSUME NEW r \in Initial
                 PROVE  IF call.mode = "rev" THEN r.h = 0
                        ELSE r.h = r.d + Heur(r.x) \/ Early(Initial, r)
      OBVIOUS
    <2>1. r.x \in Sources /\ r.d = First(r.x) /\ r.x \in Items /\ First(r.x) \in Nat
          /\ Heur(r.x) \in Int
      BY <1>2, ItemFacts, HeurFacts
    <2>2. CASE call.algo = "nodes"
      <3>1. r.h = 0 /\ r.d = 0 /\ call.mode # "rev"
        BY <2>2, CallShape DEF Initial, Entry
      <3>2. CASE Cardinality(Sources) = 1
        <4>1. PICK n : Sources = {n}
          <5>1. IsFiniteSet(Sources)
            BY ItemFacts, FS_Subset
          <5> QED
            BY <3>2, <5>1, FS_Singleton
        <4>2. \A w \in Initial : w = Entry(n, Null, Null, 0, 0)
          <5>1. Initial = {Entry(m, Null, Null, 0, 0) : m \in Sources}
            BY <2>2, CallShape DEF Initial
          <5> QED
            BY <4>1, <5>1
        <4>3. Initial = {r}
          BY <4>2
        <4> QED
          BY <2>1, <2>2, <3>1, <4>3 DEF Early
      <3>3. CASE \A n \in Sources : Heur(n) >= 0
        <4>1. 0 <= r.d + Heur(r.x)
          BY <2>1, <3>1, <3>3
        <4> QED
          BY <2>1, <2>2, <3>1, <4>1 DEF Early
      <3> QED
        BY <2>2, <3>2, <3>3 DEF SourcesOutside
    <2>3. CASE call.algo = "edges" /\ call.mode = "rev"
      BY <2>3 DEF Initial, Entry
    <2>4. CASE call.algo = "edges" /\ call.mode = "all"
      <3>1. r.h = 0
        BY <2>4 DEF Initial, Entry
      <3>2. Heur(r.x) = 0
        BY <2>1, <2>4, CallShape, HeurFacts
      <3> QED
        BY <2>1, <2>4, <3>1, <3>2 DEF Early
    <2>5. CASE call.algo = "edges" /\ call.mode \notin {"all", "rev"}
      <3>1. PICK e \in Sources : r = Entry(e, Null, Null, Start(e), Start(e) + Heur(e))
        BY <2>5 DEF Initial
      <3>2. r.h = r.d + Heur(r.x)
        BY <3>1 DEF Entry
      <3> QED
        BY <2>5, <3>2
    <2> QED
      BY <2>2, <2>3, <2>4, <2>5, CallShape
  <1>5. QueueOK(Initial, None)
    <2>1. \A x \in Sources : Walked(x, First(x), 0)
      BY CheapestUnfold, ItemFacts DEF Walked
    <2>2. \A x \in Sources : x \in Items /\ First(x) \in Nat
      BY ItemFacts
    <2> QED
      BY <1>1, <1>2, <1>4, <2>1, <2>2 DEF QueueOK
  <1>6. SettledOK(None)
    BY <1>1 DEF SettledOK
  <1>7. CoverOK(Initial, None)
    <2>1. \A x \in Sources : Covered(Initial, None, x, First(x))
      <3>1. \A x \in Sources : First(x) \in Nat
        BY ItemFacts
      <3> QED
        BY <1>3, <3>1 DEF Covered
    <2> QED
      BY <1>1, <2>1 DEF CoverOK
  <1>8. CostsOK(None, NoAnswer)
    <2>1. call.mode \in {"all", "rev"} => NoAnswer = [x \in DOMAIN None |-> None[x].d]
      <3>1. None = [x \in {} |-> None[x].d]
        BY DEF None
      <3> QED
        BY <1>1, <3>1 DEF NoAnswer
    <2>2. call.mode = "each" => NoAnswer = [t \in Targets |-> IF t \in DOMAIN None THEN None[t].d
                                                              ELSE call.inf]
      BY <1>1 DEF NoAnswer
    <2>3. call.mode = "first" => NoAnswer = None /\ Targets \cap DOMAIN None = {}
      BY <1>1 DEF NoAnswer
    <2> QED
      BY <2>1, <2>2, <2>3, CallShape DEF CostsOK
  <1> QED
    BY <1>5, <1>6, <1>7, <1>8 DEF SearchOK

\* Why a call gives up at once
Stop ==
    \/ call.mode = "first" /\ (Sources = {} \/ Targets = {} \/ NoWayIn)
    \/ call.mode \in {"first", "each"} /\ NoWayOut
    \/ call.mode = "each" /\ Targets = {}

\* What is not a start item is reached by a step from an item that is reached
LEMMA ReachedByStep ==
  ASSUME CallOK, CircleOK, NEW x \in DOMAIN Reference
  PROVE  x \in Sources \/ \E n \in 0..N : \E z \in DOMAIN Cheapest[n] : Step(z, x) # {}
  <1> DEFINE By(m) == \A y \in DOMAIN Cheapest[m] :
                         y \in Sources \/ \E n \in 0..N : \E z \in DOMAIN Cheapest[n] : Step(z, y) # {}
  <1> DEFINE Good == {m \in Nat : m <= N => By(m)}
  <1>1. 0 \in Good
    BY CheapestUnfold
  <1>2. ASSUME NEW m \in Good PROVE m + 1 \in Good
    <2> SUFFICES ASSUME m + 1 <= N, NEW y \in DOMAIN Cheapest[m + 1]
                 PROVE  y \in Sources \/ \E n \in 0..N : \E z \in DOMAIN Cheapest[n] : Step(z, y) # {}
      BY DEF Good
    <2>1. m \in Nat /\ m \in 0..N /\ By(m)
      BY ItemFacts DEF N
    <2> HIDE DEF Good
    <2>2. CASE y \in DOMAIN Cheapest[m]
      BY <2>1, <2>2
    <2>3. CASE \E z \in DOMAIN Cheapest[m] : \E c \in Step(z, y) : TRUE
      BY <2>1, <2>3
    <2> QED
      BY <2>1, <2>2, <2>3, CheapestStep
  <1>3. Good = Nat
    BY <1>1, <1>2, SetInduction
  <1>4. N \in Good
    BY <1>3, ItemFacts DEF N
  <1> QED
    BY <1>4, ItemFacts DEF Reference, N

LEMMA StopExact ==
  ASSUME CallOK, CircleOK, Stop, NoWayIn \/ NoWayOut => Sources \cap Targets = {}
  PROVE  Exact(NoAnswer)
  <1>1. DOMAIN Reference \cap Targets = {}
    <2> SUFFICES ASSUME NEW x \in DOMAIN Reference, x \in Targets PROVE FALSE
      OBVIOUS
    <2>0. x \in Items
      BY ItemFacts
    <2>1. CASE Sources = {}
      <3> DEFINE Good == {m \in Nat : m <= N => DOMAIN Cheapest[m] = {}}
      <3>1. 0 \in Good
        BY <2>1, CheapestUnfold
      <3>2. \A m \in Good : m + 1 \in Good
        <4> SUFFICES ASSUME NEW m \in Good, m + 1 <= N PROVE DOMAIN Cheapest[m + 1] = {}
          OBVIOUS
        <4>1. m \in Nat /\ DOMAIN Cheapest[m] = {}
          BY ItemFacts DEF N
        <4> QED
          BY <4>1, CheapestStep
      <3>3. Good = Nat
        BY <3>1, <3>2, SetInduction
      <3>4. N \in Good
        BY <3>3, ItemFacts DEF N
      <3> QED
        BY <3>4, ItemFacts DEF Reference, N
    <2>2. CASE NoWayIn
      <3>1. PICK n \in call.to : In(n) = {} /\ call.to = {n}
        <4>1. PICK n \in call.to : In(n) = {}
          BY <2>2 DEF NoWayIn
        <4>2. IsFiniteSet(call.to)
          BY CallShape, NodesAssumption, FS_Subset
        <4>3. \E m : call.to = {m}
          BY <2>2, <4>2, CallShape, FS_Singleton DEF NoWayIn
        <4> QED
          BY <4>1, <4>3
      <3>2. CASE call.algo = "edges"
        <4>1. call.args[2] = "node"
          BY <2>2, <3>2, CallShape DEF NoWayIn
        <4>2. Targets = {}
          BY <3>1, <3>2, <4>1 DEF Targets
        <4> QED
          BY <4>2
      <3>3. CASE call.algo = "nodes"
        <4>1. x = n
          BY <3>1, <3>3 DEF Targets
        <4>2. x \notin Sources
          BY <2>2
        <4>3. PICK z : Step(z, x) # {}
          BY <4>2, ReachedByStep
        <4>4. Step(z, x) = {e[3] : e \in Out(z) \cap In(x)}
          BY <3>3, CallShape DEF Step
        <4> QED
          BY <3>1, <4>1, <4>3, <4>4
      <3> QED
        BY <3>2, <3>3, CallShape
    <2>3. CASE NoWayOut
      <3>1. call.algo = "nodes" /\ Sources = call.from
        BY <2>3 DEF NoWayOut, Sources
      <3>2. PICK n \in Sources : Out(n) = {} /\ Sources = {n}
        <4>1. PICK n \in Sources : Out(n) = {}
          BY <2>3, <3>1 DEF NoWayOut
        <4>2. IsFiniteSet(Sources)
          BY ItemFacts, FS_Subset
        <4>3. \E m : Sources = {m}
          BY <2>3, <3>1, <4>2, FS_Singleton DEF NoWayOut
        <4> QED
          BY <4>1, <4>3
      <3>3. \A y : Step(n, y) = {}
        BY <3>1, <3>2, CallShape DEF Step
      <3> DEFINE Good == {m \in Nat : m <= N => DOMAIN Cheapest[m] \subseteq Sources}
      <3>4. 0 \in Good
        BY CheapestUnfold
      <3>5. \A m \in Good : m + 1 \in Good
        <4> SUFFICES ASSUME NEW m \in Good, m + 1 <= N PROVE DOMAIN Cheapest[m + 1] \subseteq Sources
          OBVIOUS
        <4>1. m \in Nat /\ DOMAIN Cheapest[m] \subseteq Sources
          BY ItemFacts DEF N
        <4> QED
          BY <3>2, <3>3, <4>1, CheapestStep
      <3>6. Good = Nat
        BY <3>4, <3>5, SetInduction
      <3>7. N \in Good
        BY <3>6, ItemFacts DEF N
      <3>8. x \in Sources
        BY <3>7, ItemFacts DEF Reference, N
      <3> QED
        BY <2>3, <3>8
    <2>4. CASE Targets = {}
      BY <2>4
    <2> QED
      BY <2>1, <2>2, <2>3, <2>4 DEF Stop
  <1>2. CASE call.mode = "first"
    BY <1>1, <1>2 DEF Exact, NoAnswer
  <1>3. CASE call.mode = "each"
    <2>1. NoAnswer = [t \in Targets |-> IF t \in DOMAIN Reference \cap Targets THEN Reference[t]
                                        ELSE call.inf]
      BY <1>1, <1>3 DEF NoAnswer
    <2> QED
      BY <1>3, <2>1 DEF Exact
  <1> QED
    BY <1>2, <1>3 DEF Stop

-----------------------------------------------------------------------------
(* The steps.                                                              *)

\* The calls for which the answer is promised
Promised == SourcesOutside /\ (NoWayIn \/ NoWayOut => Sources \cap Targets = {})

AnsweredExactly == pc = "done" /\ Promised => Exact(costs)

LEMMA ExactAtEnd == SearchExact <=> AnsweredExactly
  BY DEF SearchExact, AnsweredExactly, Promised, Exact

LEMMA InitInv == Init => Inv
  <1> SUFFICES ASSUME Init PROVE Inv
    OBVIOUS
  <1>1. CallOK
    BY DEF Init, CallOK
  <1>2. CircleOK
    BY <1>1, CircleHoldsTargets DEF Init, CircleOK
  <1>3. SearchExact
    BY ExactAtEnd DEF Init, AnsweredExactly
  <1> QED
    BY <1>1, <1>2, <1>3 DEF Init, Inv

\* A step that leaves the call alone preserves Inv when it preserves what Inv
\* says of the queue, the settled entries and the answers
LEMMA StepInv ==
  ASSUME Inv, Frozen, pc' \in {"search", "done"},
         pc' = "search" /\ SourcesOutside => SearchOK(pq', settled', costs'),
         pc' = "done" /\ Promised => Exact(costs')
  PROVE  Inv'
  <1>1. CallOK' /\ CircleOK'
    BY CallFrozen, SearchFrozen DEF Inv
  <1>2. (SourcesOutside' <=> SourcesOutside) /\ (Promised' <=> Promised)
    BY CallFrozen, SearchFrozen DEF Inv, Promised
  <1>3. pc' = "search" /\ SourcesOutside' => SearchOK(pq, settled, costs)'
    <2>1. \A q, s, a : SearchOK(q, s, a)' <=> SearchOK(q, s, a)
      BY SearchFrozen DEF Inv
    <2> QED
      BY <1>2, <2>1
  <1>4. SearchExact'
    <2>1. \A a : Exact(a)' <=> Exact(a)
      BY SearchFrozen DEF Inv
    <2>2. pc' = "done" /\ Promised' => Exact(costs)'
      BY <1>2, <2>1
    <2>3. AnsweredExactly'
      BY <2>2 DEF AnsweredExactly
    <2> QED
      BY <2>3, ExactAtEnd, PTL
  <1> QED
    BY <1>1, <1>3, <1>4 DEF Inv

LEMMA BeginInv == Inv /\ Begin => Inv'
  <1> SUFFICES ASSUME Inv, Begin PROVE Inv'
    OBVIOUS
  <1>1. Frozen /\ CallOK /\ CircleOK /\ settled = None
    BY DEF Inv, Begin, Frozen
  <1>2. /\ pc' = IF Stop THEN "done" ELSE "search"
        /\ pq' = IF Stop THEN {} ELSE Initial
        /\ costs' = NoAnswer /\ settled' = None
    BY <1>1 DEF Begin, Stop, NoAnswer
  <1>3. pc' = "search" /\ SourcesOutside => SearchOK(pq', settled', costs')
    BY <1>1, <1>2, InitialOK
  <1>4. pc' = "done" /\ Promised => Exact(costs')
    BY <1>1, <1>2, StopExact DEF Promised
  <1>5. pc' \in {"search", "done"}
    BY <1>2
  <1> QED
    BY <1>1, <1>3, <1>4, <1>5, StepInv

LEMMA SkipInv == Inv /\ Skip => Inv'
  <1> SUFFICES ASSUME Inv, Skip PROVE Inv'
    OBVIOUS
  <1>1. Frozen /\ CallOK /\ CircleOK /\ pc' = "search" /\ pc = "search"
        /\ settled' = settled /\ costs' = costs
    BY DEF Inv, Skip, Frozen
  <1>2. PICK r \in Top(pq) : r.x \in DOMAIN settled /\ pq' = pq \ {r}
    BY DEF Skip
  <1>3. SourcesOutside => SearchOK(pq', settled', costs')
    BY <1>1, <1>2, SkipKeepsSearch DEF Inv, SearchOK
  <1> QED
    BY <1>1, <1>3, StepInv

LEMMA ExhaustedInv == Inv /\ Exhausted => Inv'
  <1> SUFFICES ASSUME Inv, Exhausted PROVE Inv'
    OBVIOUS
  <1>1. Frozen /\ CallOK /\ CircleOK /\ pc' = "done" /\ pc = "search" /\ pq = {}
        /\ settled' = settled /\ costs' = costs
    BY DEF Inv, Exhausted, Frozen
  <1>2. Promised => Exact(costs')
    BY <1>1, ExhaustedExact DEF Inv, SearchOK, Promised
  <1> QED
    BY <1>1, <1>2, StepInv

\* The targets are counted one by one
LEMMA AllFound ==
  ASSUME CallOK, NEW s, Found(s) = Cardinality(Targets)
  PROVE  Targets \subseteq DOMAIN s
  <1>1. IsFiniteSet(Targets)
    BY ItemFacts
  <1> QED
    BY <1>1, FS_Subset DEF Found

LEMMA SettleInv == Inv /\ Settle => Inv'
  <1> SUFFICES ASSUME Inv, Settle PROVE Inv'
    OBVIOUS
  <1>1. Frozen /\ CallOK /\ CircleOK /\ pc = "search"
    BY DEF Inv, Settle, Frozen
  <1>2. PICK r \in Top(pq) :
          /\ r.x \notin DOMAIN settled
          /\ settled' = Put(settled, r.x, r)
          /\ costs' = IF Answers(r) THEN Put(costs, r.x, r.d) ELSE costs
          /\ IF EndsWith(r, Put(settled, r.x, r)) THEN pc' = "done" /\ pq' = pq \ {r}
             ELSE pc' = pc /\ pq' = (pq \ {r}) \cup Relax(r)
    BY DEF Settle
  <1>3. pc' \in {"search", "done"}
    BY <1>1, <1>2
  <1>4. CASE ~SourcesOutside
    BY <1>1, <1>3, <1>4, StepInv DEF Promised
  <1>5. CASE SourcesOutside
    <2>1. SearchOK(pq, settled, costs)
      BY <1>1, <1>5 DEF Inv
    <2>2. /\ QueueOK(pq, settled) /\ SettledOK(settled) /\ CoverOK(pq, settled)
          /\ CostsOK(settled, costs) /\ DOMAIN settled \subseteq Items
      BY <2>1 DEF SearchOK, SettledOK
    <2>3. CASE call.mode = "first" /\ r.x \in Targets
      <3>1. EndsWith(r, Put(settled, r.x, r)) /\ Answers(r)
        BY <2>3 DEF EndsWith, Answers
      <3>2. costs = None
        BY <2>2, <2>3 DEF CostsOK
      <3>3. Exact(costs')
        BY <1>1, <1>2, <2>1, <2>3, <3>1, <3>2, FirstFoundExact
      <3> QED
        BY <1>1, <1>2, <3>1, <3>3, StepInv
    <2>4. CASE ~(call.mode = "first" /\ r.x \in Targets)
      <3>1. CostsOK(settled', costs')
        BY <1>1, <1>2, <2>2, <2>4, SettleKeepsCosts
      <3>2. SettledOK(settled')
        BY <1>1, <1>2, <2>2, SettleKeepsSearch
      <3>3. CASE EndsWith(r, Put(settled, r.x, r))
        <4>1. call.mode = "each" /\ Targets \subseteq DOMAIN settled'
          BY <1>1, <1>2, <2>4, <3>3, AllFound DEF EndsWith
        <4>2. Exact(costs')
          BY <1>1, <3>1, <3>2, <4>1, AllFoundExact
        <4> QED
          BY <1>1, <1>2, <3>3, <4>2, StepInv
      <3>4. CASE ~EndsWith(r, Put(settled, r.x, r))
        <4>1. SearchOK(pq', settled', costs')
          BY <1>1, <1>2, <2>2, <3>1, <3>4, SettleKeepsSearch DEF SearchOK
        <4> QED
          BY <1>1, <1>2, <3>4, <4>1, StepInv
      <3> QED
        BY <3>3, <3>4
    <2> QED
      BY <2>3, <2>4
  <1> QED
    BY <1>4, <1>5

LEMMA NextInv == Inv /\ [Next]_vars => Inv'
  <1>1. Inv /\ UNCHANGED vars => Inv'
    <2> SUFFICES ASSUME Inv, UNCHANGED vars PROVE Inv'
      OBVIOUS
    <2>1. Frozen /\ pc' = pc /\ pq' = pq /\ settled' = settled /\ costs' = costs
      BY DEF vars, Frozen
    <2>2. CASE pc = "start"
      <3>1. CallOK' /\ CircleOK'
        BY <2>1, CallFrozen, SearchFrozen DEF Inv
      <3>2. SearchExact'
        <4>1. pc' # "done"
          BY <2>1, <2>2
        <4>2. pc' = "done" /\ Promised' => Exact(costs)'
          BY <4>1
        <4>3. AnsweredExactly'
          BY <4>2 DEF AnsweredExactly
        <4> QED
          BY <4>3, ExactAtEnd, PTL
      <3>3. None' = None
        BY DEF None
      <3> QED
        BY <2>1, <2>2, <3>1, <3>2, <3>3 DEF Inv
    <2>3. CASE pc \in {"search", "done"}
      BY <2>1, <2>3, StepInv, ExactAtEnd DEF Inv, Promised, AnsweredExactly
    <2> QED
      BY <2>2, <2>3 DEF Inv
  <1> QED
    BY <1>1, BeginInv, SkipInv, SettleInv, ExhaustedInv DEF Next, Done

LEMMA SpecInv == Spec => []Inv
  <1> QED
    BY InitInv, NextInv, PTL DEF Spec

\* EDijkstra and Dijkstra are exact: whatever the graph, the penalties, the
\* bound, the heuristic and the order of equal entries in the heap, a search
\* that has ended has the lowest cost of every target, of everything within
\* reach, or of the target with the least cost and heuristic value.
THEOREM SearchesAreExact == Spec => []SearchExact
  <1>1. Inv => SearchExact
    BY DEF Inv
  <1> QED
    BY <1>1, SpecInv, PTL

-----------------------------------------------------------------------------
(* Paths: what the entries say of where they come from.                    *)

IsFirst(r) == r.parent = Null /\ r.x \in Sources /\ r.d = First(r.x)

\* r is an entry that relaxing p leaves
Link(r, p) ==
    CASE call.algo = "nodes" ->
           r.via \in call.graph /\ r.via[1] = p.x /\ r.via[2] = r.x /\ r.d = p.d + r.via[3]
      [] call.algo = "edges" /\ call.mode = "rev" -> r.x[2] = p.x[1] /\ r.d = p.d + Move(r.x, p.x)
      [] OTHER -> r.via = p.x[2] /\ r.x[1] = p.x[2] /\ r.d = p.d + Move(p.x, r.x)

\* The item before r is settled
LinkOK(r, s) ==
    /\ r.x \in Items /\ r.d \in Nat
    /\ IsFirst(r) \/ (r.parent \in DOMAIN s /\ Link(r, s[r.parent]))

TreeOK(s) == \A y \in DOMAIN s : s[y].x = y /\ LinkOK(s[y], s)

\* f obeys the equations of Back
BackOf(f, s) ==
    f = [y \in DOMAIN s |->
           IF s[y].parent = Null THEN <<s[y]>> ELSE <<s[y]>> \o f[s[y].parent]]

Entries(s) == {s[z] : z \in DOMAIN s}

\* b leads from the entry of y back to a first entry
Chain(b, y, s) ==
    /\ b \in Seq(Entries(s)) /\ Len(b) >= 1 /\ b[1] = s[y]
    /\ \A i \in 1..(Len(b) - 1) : Link(b[i], b[i + 1])
    /\ IsFirst(b[Len(b)])

BacksOK(s) ==
    /\ \E f : BackOf(f, s)
    /\ \A f : BackOf(f, s) => \A y \in DOMAIN s : Chain(f[y], y, s)

LEMMA ItemNotNull ==
  ASSUME CallOK, NEW x \in Items
  PROVE  x # Null
  BY CallShape, NullAssumption DEF Items

LEMMA PutFacts ==
  \A s, x, r :
    /\ DOMAIN Put(s, x, r) = DOMAIN s \cup {x}
    /\ Put(s, x, r)[x] = r
    /\ \A y \in DOMAIN s : y # x => Put(s, x, r)[y] = s[y]
  BY DEF Put

LEMMA RelaxLinks ==
  ASSUME CallOK, NEW s, NEW r, r.x \in Items, r.d \in Nat, NEW w \in Relax(r)
  PROVE  LinkOK(w, Put(s, r.x, r))
  <1> DEFINE t == Put(s, r.x, r)
  <1>0. r.x \in DOMAIN t /\ t[r.x] = r
    BY DEF Put
  <1> HIDE DEF t
  <1>1. CASE call.algo = "nodes"
    <2>0. Relax(r) = RelaxNode(r)
      BY <1>1, CallShape DEF Relax
    <2>1. PICK e \in Out(r.x) : w = Entry(e[2], r.x, e, r.d + e[3], r.d + e[3] + Heur(e[2]))
      BY <2>0 DEF RelaxNode
    <2>2. e \in call.graph /\ e[1] = r.x /\ e[2] \in Nodes /\ e[3] \in Nat
      BY CallShape DEF Out
    <2>3. w.x = e[2] /\ w.parent = r.x /\ w.via = e /\ w.d = r.d + e[3]
      BY <2>1 DEF Entry
    <2>4. Link(w, r)
      BY <1>1, <2>2, <2>3 DEF Link
    <2>5. w.x \in Items /\ w.d \in Nat
      BY <1>1, <2>2, <2>3 DEF Items
    <2> QED
      BY <1>0, <2>3, <2>4, <2>5 DEF LinkOK, t
  <1>2. CASE call.algo = "edges" /\ call.mode = "rev"
    <2>0. Relax(r) = RelaxInv(r)
      BY <1>2 DEF Relax
    <2>1. PICK f \in In(r.x[1]) : w = Entry(f, r.x, r.x[1], r.d + Move(f, r.x), 0)
      BY <2>0 DEF RelaxInv
    <2>2. f \in call.graph /\ f[2] = r.x[1]
      BY CallShape DEF In
    <2>3. w.x = f /\ w.parent = r.x /\ w.d = r.d + Move(f, r.x)
      BY <2>1 DEF Entry
    <2>4. Link(w, r)
      BY <1>2, <2>2, <2>3 DEF Link
    <2>5. w.x \in Items /\ w.d \in Nat
      <3>1. Move(f, r.x) \in Nat
        BY <1>2, <2>2, CallShape DEF Move, Items
      <3> QED
        BY <1>2, <2>2, <2>3, <3>1 DEF Items
    <2> QED
      BY <1>0, <2>3, <2>4, <2>5 DEF LinkOK, t
  <1>3. CASE call.algo = "edges" /\ call.mode # "rev"
    <2>0. Relax(r) = RelaxEdge(r)
      BY <1>3 DEF Relax
    <2>1. PICK f \in Out(r.x[2]) : w = Entry(f, r.x, r.x[2], r.d + Move(r.x, f),
                                             r.d + Move(r.x, f) + Heur(f))
      BY <2>0 DEF RelaxEdge
    <2>2. f \in call.graph /\ f[1] = r.x[2]
      BY CallShape DEF Out
    <2>3. w.x = f /\ w.parent = r.x /\ w.via = r.x[2] /\ w.d = r.d + Move(r.x, f)
      BY <2>1 DEF Entry
    <2>4. Link(w, r)
      BY <1>3, <2>2, <2>3 DEF Link
    <2>5. w.x \in Items /\ w.d \in Nat
      <3>1. Move(r.x, f) \in Nat
        BY <1>3, <2>2, CallShape DEF Move, Items
      <3> QED
        BY <1>3, <2>2, <2>3, <3>1 DEF Items
    <2> QED
      BY <1>0, <2>3, <2>4, <2>5 DEF LinkOK, t
  <1> QED
    BY <1>1, <1>2, <1>3, CallShape

LEMMA InitialLinks ==
  ASSUME CallOK, NEW w \in Initial
  PROVE  LinkOK(w, None)
  <1>1. \E e \in Sources : \E h : w = Entry(e, Null, Null, First(e), h)
    <2>1. CASE call.algo = "nodes"
      BY <2>1, CallShape DEF Initial, First
    <2>2. CASE call.algo = "edges" /\ call.mode \in {"all", "rev"}
      BY <2>2 DEF Initial, First
    <2>3. CASE call.algo = "edges" /\ call.mode \notin {"all", "rev"}
      BY <2>3 DEF Initial, First
    <2> QED
      BY <2>1, <2>2, <2>3, CallShape
  <1>2. PICK e \in Sources : \E h : w = Entry(e, Null, Null, First(e), h)
    BY <1>1
  <1>3. w.x = e /\ w.parent = Null /\ w.d = First(e)
    BY <1>2 DEF Entry
  <1> QED
    BY <1>3, ItemFacts DEF LinkOK, IsFirst

\* Settling keeps the items before it
LEMMA LinkKept ==
  ASSUME NEW s, NEW x, x \notin DOMAIN s, NEW r, NEW w, LinkOK(w, s)
  PROVE  LinkOK(w, Put(s, x, r))
  <1>1. w.parent \in DOMAIN s => w.parent \in DOMAIN Put(s, x, r) /\ Put(s, x, r)[w.parent] = s[w.parent]
    BY DEF Put
  <1> QED
    BY <1>1 DEF LinkOK

LEMMA EntriesGrow ==
  ASSUME NEW s, NEW x, x \notin DOMAIN s, NEW r
  PROVE  Entries(s) \subseteq Entries(Put(s, x, r)) /\ r \in Entries(Put(s, x, r))
  BY DEF Put, Entries

\* A chain stays one, and one more entry in front of it gives another
LEMMA ChainKept ==
  ASSUME NEW s, NEW x, x \notin DOMAIN s, NEW r, NEW y \in DOMAIN s, NEW b, Chain(b, y, s)
  PROVE  Chain(b, y, Put(s, x, r))
  <1>1. Entries(s) \subseteq Entries(Put(s, x, r))
    BY EntriesGrow
  <1>2. b \in Seq(Entries(Put(s, x, r)))
    BY <1>1, SeqMonotonic DEF Chain
  <1>3. Put(s, x, r)[y] = s[y]
    BY PutFacts
  <1> QED
    BY <1>2, <1>3 DEF Chain

LEMMA ChainLonger ==
  ASSUME NEW s, NEW r, r.x \notin DOMAIN s, r.parent \in DOMAIN s, Link(r, s[r.parent]),
         NEW b, Chain(b, r.parent, s)
  PROVE  Chain(<<r>> \o b, r.x, Put(s, r.x, r))
  <1> DEFINE t == Put(s, r.x, r)
             E == Entries(t)
             c == <<r>> \o b
  <1>1. <<r>> \in Seq(E) /\ b \in Seq(E)
    BY EntriesGrow, SeqMonotonic DEF Chain
  <1>2. t[r.x] = r
    BY PutFacts
  <1>3. Len(b) \in Nat /\ Len(b) >= 1 /\ b[1] = s[r.parent] /\ IsFirst(b[Len(b)])
        /\ \A i \in 1..(Len(b) - 1) : Link(b[i], b[i + 1])
    BY LenProperties DEF Chain
  <1> HIDE DEF t, E
  <1>4. c \in Seq(E) /\ Len(c) = Len(b) + 1
        /\ \A i \in 1..(Len(b) + 1) : c[i] = IF i <= 1 THEN r ELSE b[i - 1]
    <2>1. Len(<<r>>) = 1 /\ <<r>>[1] = r
      OBVIOUS
    <2>2. /\ <<r>> \o b \in Seq(E)
          /\ Len(<<r>> \o b) = Len(<<r>>) + Len(b)
          /\ \A i \in 1..(Len(<<r>>) + Len(b)) :
               (<<r>> \o b)[i] = IF i <= Len(<<r>>) THEN <<r>>[i] ELSE b[i - Len(<<r>>)]
      BY <1>1, ConcatProperties
    <2> QED
      BY <1>3, <2>1, <2>2
  <1> HIDE DEF c
  <1>5. c[1] = r /\ c[Len(c)] = b[Len(b)]
    BY <1>3, <1>4
  <1>6. ASSUME NEW i \in 1..(Len(c) - 1) PROVE Link(c[i], c[i + 1])
    <2>1. CASE i = 1
      <3>1. c[1 + 1] = b[1]
        BY <1>3, <1>4
      <3> QED
        BY <1>3, <1>5, <2>1, <3>1
    <2>2. CASE i > 1
      <3>1. c[i] = b[i - 1] /\ c[i + 1] = b[i] /\ i - 1 \in 1..(Len(b) - 1) /\ i = (i - 1) + 1
        BY <1>3, <1>4, <2>2
      <3> DEFINE j == i - 1
      <3>2. Link(b[j], b[j + 1])
        BY <1>3, <3>1
      <3> QED
        BY <3>1, <3>2
    <2> QED
      BY <1>3, <1>4, <2>1, <2>2
  <1> QED
    BY <1>2, <1>3, <1>4, <1>5, <1>6 DEF Chain, c, t, E

LEMMA ChainOne ==
  ASSUME NEW s, NEW r, r.x \notin DOMAIN s, IsFirst(r)
  PROVE  Chain(<<r>>, r.x, Put(s, r.x, r))
  <1>1. <<r>> \in Seq(Entries(Put(s, r.x, r)))
    BY EntriesGrow
  <1>2. Len(<<r>>) = 1 /\ <<r>>[1] = r /\ Put(s, r.x, r)[r.x] = r
    BY PutFacts
  <1> QED
    BY <1>1, <1>2 DEF Chain

\* The equations of Back have a solution, and every solution consists of chains
LEMMA SettleKeepsBacks ==
  ASSUME CallOK, NEW s, TreeOK(s), BacksOK(s), DOMAIN s \subseteq Items,
         NEW r, LinkOK(r, s), r.x \notin DOMAIN s
  PROVE  BacksOK(Put(s, r.x, r))
  <1> DEFINE x == r.x
             t == Put(s, x, r)
  <1>1. DOMAIN t = DOMAIN s \cup {x} /\ t[x] = r /\ \A y \in DOMAIN s : t[y] = s[y]
    BY DEF Put
  <1>2. \A y \in DOMAIN s : s[y].parent # Null => s[y].parent \in DOMAIN s
    BY DEF TreeOK, LinkOK, IsFirst
  <1>3. r.parent # Null => r.parent \in DOMAIN s /\ Link(r, s[r.parent])
    BY DEF LinkOK, IsFirst
  <1>4. r.parent = Null => IsFirst(r)
    BY ItemNotNull DEF LinkOK
  <1> HIDE DEF t
  <1>5. \E f : BackOf(f, t)
    <2>1. PICK f : BackOf(f, s)
      BY DEF BacksOK
    <2>2. \A y \in DOMAIN s : f[y] = IF s[y].parent = Null THEN <<s[y]>>
                                     ELSE <<s[y]>> \o f[s[y].parent]
      BY <2>1 DEF BackOf
    <2> DEFINE g == [y \in DOMAIN t |-> IF y \in DOMAIN s THEN f[y]
                                        ELSE IF r.parent = Null THEN <<r>> ELSE <<r>> \o f[r.parent]]
    <2>3. \A y \in DOMAIN s : g[y] = f[y]
      BY <1>1
    <2>4. \A y \in DOMAIN t : g[y] = IF t[y].parent = Null THEN <<t[y]>>
                                     ELSE <<t[y]>> \o g[t[y].parent]
      <3> SUFFICES ASSUME NEW y \in DOMAIN t
                   PROVE  g[y] = IF t[y].parent = Null THEN <<t[y]>> ELSE <<t[y]>> \o g[t[y].parent]
        OBVIOUS
      <3>1. CASE y \in DOMAIN s
        <4>1. t[y] = s[y] /\ g[y] = f[y]
          BY <1>1, <2>3, <3>1
        <4>2. s[y].parent # Null => g[s[y].parent] = f[s[y].parent]
          BY <1>2, <2>3, <3>1
        <4> HIDE DEF g
        <4> QED
          BY <2>2, <3>1, <4>1, <4>2
      <3>2. CASE y = x
        <4>1. t[y] = r /\ g[y] = IF r.parent = Null THEN <<r>> ELSE <<r>> \o f[r.parent]
          BY <1>1, <3>2
        <4>2. r.parent # Null => g[r.parent] = f[r.parent]
          BY <1>3, <2>3
        <4> HIDE DEF g
        <4> QED
          BY <4>1, <4>2
      <3> QED
        BY <1>1, <3>1, <3>2
    <2>5. g = [y \in DOMAIN t |-> g[y]]
      OBVIOUS
    <2> HIDE DEF g
    <2>6. g = [y \in DOMAIN t |-> IF t[y].parent = Null THEN <<t[y]>>
                                  ELSE <<t[y]>> \o g[t[y].parent]]
      BY <2>4, <2>5
    <2> QED
      BY <2>6 DEF BackOf
  <1>6. ASSUME NEW g, BackOf(g, t), NEW y \in DOMAIN t PROVE Chain(g[y], y, t)
    <2> DEFINE f == [z \in DOMAIN s |-> g[z]]
    <2>1. \A z \in DOMAIN t : g[z] = IF t[z].parent = Null THEN <<t[z]>>
                                     ELSE <<t[z]>> \o g[t[z].parent]
      BY <1>6 DEF BackOf
    <2>2. BackOf(f, s)
      <3>1. \A z \in DOMAIN s : f[z] = IF s[z].parent = Null THEN <<s[z]>>
                                       ELSE <<s[z]>> \o f[s[z].parent]
        <4> SUFFICES ASSUME NEW z \in DOMAIN s
                     PROVE  f[z] = IF s[z].parent = Null THEN <<s[z]>> ELSE <<s[z]>> \o f[s[z].parent]
          OBVIOUS
        <4>1. f[z] = g[z] /\ t[z] = s[z] /\ z \in DOMAIN t
          BY <1>1
        <4>2. s[z].parent # Null => f[s[z].parent] = g[s[z].parent]
          BY <1>2
        <4> HIDE DEF f
        <4> QED
          BY <2>1, <4>1, <4>2
      <3>2. f = [z \in DOMAIN s |-> f[z]]
        OBVIOUS
      <3> HIDE DEF f
      <3>3. f = [z \in DOMAIN s |-> IF s[z].parent = Null THEN <<s[z]>>
                                    ELSE <<s[z]>> \o f[s[z].parent]]
        BY <3>1, <3>2
      <3> QED
        BY <3>3 DEF BackOf
    <2>3. \A z \in DOMAIN s : Chain(g[z], z, s)
      <3>1. \A z \in DOMAIN s : f[z] = g[z]
        OBVIOUS
      <3> HIDE DEF f
      <3> QED
        BY <2>2, <3>1 DEF BacksOK
    <2>4. CASE y \in DOMAIN s
      BY <2>3, <2>4, ChainKept DEF t
    <2>5. CASE y = x /\ r.parent = Null
      <3>1. g[y] = <<r>>
        BY <1>1, <2>1, <2>5
      <3> QED
        BY <1>4, <2>5, <3>1, ChainOne DEF t
    <2>6. CASE y = x /\ r.parent # Null
      <3>1. g[y] = <<r>> \o g[r.parent]
        BY <1>1, <2>1, <2>6
      <3> QED
        BY <1>3, <2>3, <2>6, <3>1, ChainLonger DEF t
    <2> QED
      BY <1>1, <2>4, <2>5, <2>6
  <1> QED
    BY <1>5, <1>6 DEF BacksOK, t

-----------------------------------------------------------------------------
(* Paths: what buildPath reads off a chain.                                *)

\* The legs of es add up to c: d holds the sums from every edge to the end
LegSums(es, c, d) ==
    /\ d \in [1..(Len(es) + 1) -> Int]
    /\ d[1] = c /\ d[Len(es) + 1] = 0
    /\ \A i \in 1..Len(es) : Leg(es, i) \in Int /\ d[i] = Leg(es, i) + d[i + 1]

\* What PathsMatchCosts asks of the edges and nodes of the path to x
PathOK(x, es, ns, c) ==
    /\ Len(es) \in Nat
    /\ Consecutive(es)
    /\ call.algo = "edges" => es[1] = x /\ es[Len(es)] \in Sources
    /\ call.algo = "nodes" => ns[1] = x /\ ns[Len(ns)] \in Sources
    /\ \E d : LegSums(es, c, d)
    /\ call.mode # "rev" =>
         \A i \in DOMAIN es : ns[i] = es[i][2] /\ (i + 1 \in DOMAIN ns => ns[i + 1] = es[i][1])

\* PathCost sums from the end; so do its equations
LEMMA PathCostIs ==
  ASSUME NEW es, Len(es) \in Nat, NEW c, NEW d, LegSums(es, c, d)
  PROVE  PathCost(es) = c
  <1> DEFINE n == Len(es)
             Sum(f) == f = [i \in 1..(n + 1) |-> IF i = n + 1 THEN 0 ELSE Leg(es, i) + f[i + 1]]
  <1>0. n \in Nat
    OBVIOUS
  <1>1. d \in [1..(n + 1) -> Int] /\ d[1] = c /\ d[n + 1] = 0
        /\ \A i \in 1..n : Leg(es, i) \in Int /\ d[i] = Leg(es, i) + d[i + 1]
    BY DEF LegSums
  <1>2. PathCost(es) = (CHOOSE f : Sum(f))[1]
    BY DEF PathCost
  <1> HIDE DEF n
  <1>3. Sum(d)
    <2>1. \A i \in 1..(n + 1) : d[i] = IF i = n + 1 THEN 0 ELSE Leg(es, i) + d[i + 1]
      BY <1>0, <1>1
    <2>2. d = [i \in 1..(n + 1) |-> d[i]]
      BY <1>1
    <2> QED
      BY <2>1, <2>2
  <1>4. \A f : Sum(f) => f[1] = c
    <2> SUFFICES ASSUME NEW f, Sum(f) PROVE f[1] = c
      OBVIOUS
    <2>1. \A i \in 1..(n + 1) : f[i] = IF i = n + 1 THEN 0 ELSE Leg(es, i) + f[i + 1]
      OBVIOUS
    <2> HIDE DEF Sum
    <2> DEFINE Good == {m \in Nat : m <= n => f[n + 1 - m] = d[n + 1 - m]}
    <2>2. 0 \in Good
      BY <1>0, <1>1, <2>1
    <2>3. ASSUME NEW m \in Good PROVE m + 1 \in Good
      <3> SUFFICES ASSUME m + 1 <= n PROVE f[n + 1 - (m + 1)] = d[n + 1 - (m + 1)]
        OBVIOUS
      <3> DEFINE i == n - m
      <3>1. m \in Nat /\ f[n + 1 - m] = d[n + 1 - m]
        BY <1>0
      <3>2. i \in 1..n /\ i + 1 = n + 1 - m /\ i = n + 1 - (m + 1) /\ i # n + 1 /\ i \in 1..(n + 1)
        BY <1>0, <3>1
      <3> HIDE DEF i
      <3>3. f[i] = Leg(es, i) + f[i + 1]
        BY <2>1, <3>2
      <3>4. d[i] = Leg(es, i) + d[i + 1]
        BY <1>1, <3>2
      <3> QED
        BY <3>1, <3>2, <3>3, <3>4
    <2>4. Good = Nat
      BY <2>2, <2>3, SetInduction
    <2>5. n \in Good
      BY <1>0, <2>4
    <2>6. f[1] = d[1]
      BY <1>0, <2>5
    <2> QED
      BY <1>1, <2>6
  <1> HIDE DEF Sum
  <1> QED
    BY <1>2, <1>3, <1>4

\* A set of one member as a sequence
LEMMA OneAsSeq ==
  ASSUME NEW x
  PROVE  SetToSeq({x}) = <<x>>
  <1>1. Cardinality({x}) = 1
    BY FS_Singleton
  <1>2. \A f : f \in [1..1 -> {x}] <=> f = <<x>>
    <2>1. <<x>> = [i \in 1..1 |-> x]
      OBVIOUS
    <2> QED
      BY <2>1
  <1>3. IsInjective(<<x>>)
    BY DEF IsInjective
  <1>4. SetToSeq({x}) = CHOOSE f \in [1..1 -> {x}] : IsInjective(f)
    BY <1>1 DEF SetToSeq
  <1> QED
    BY <1>2, <1>3, <1>4

\* What PathEdges and PathNodes make of a chain b
EdgesOf(b) ==
    IF call.algo = "edges" THEN [i \in DOMAIN b |-> b[i].x]
    ELSE [i \in 1..(Len(b) - 1) |-> b[i].via]

NodesOf(x, b) ==
    LET vias == [i \in 1..(Len(b) - 1) |-> b[i].via]
    IN IF call.algo = "nodes" THEN [i \in DOMAIN b |-> b[i].x]
       ELSE <<x[2]>> \o vias
            \o (IF call.args[1] = "node" THEN SetToSeq(call.from) ELSE <<>>)

\* The chain of y, without the entries it is made of
Walk(b, y, s) ==
    /\ Len(b) \in Nat /\ Len(b) >= 1 /\ DOMAIN b = 1..Len(b)
    /\ \A i \in 1..Len(b) : b[i].x \in Items /\ b[i].d \in Nat
    /\ b[1].x = y /\ b[1].d = s[y].d
    /\ \A i \in 1..(Len(b) - 1) : Link(b[i], b[i + 1])
    /\ b[Len(b)].x \in Sources /\ b[Len(b)].d = First(b[Len(b)].x)

LEMMA ChainWalk ==
  ASSUME CallOK, NEW s, TreeOK(s), NEW y \in DOMAIN s, NEW b, Chain(b, y, s)
  PROVE  Walk(b, y, s)
  <1>1. b \in Seq(Entries(s)) /\ Len(b) >= 1 /\ b[1] = s[y] /\ IsFirst(b[Len(b)])
        /\ \A i \in 1..(Len(b) - 1) : Link(b[i], b[i + 1])
    BY DEF Chain
  <1>2. Len(b) \in Nat /\ DOMAIN b = 1..Len(b) /\ \A i \in 1..Len(b) : b[i] \in Entries(s)
    BY <1>1, LenProperties
  <1>3. \A r \in Entries(s) : r.x \in Items /\ r.d \in Nat
    BY DEF Entries, TreeOK, LinkOK
  <1>4. s[y].x = y
    BY DEF TreeOK
  <1> QED
    BY <1>1, <1>2, <1>3, <1>4 DEF IsFirst, Walk

\* Dijkstra: the edges are the ones taken, the nodes the items
LEMMA NodePath ==
  ASSUME CallOK, NEW s, TreeOK(s), NEW y \in DOMAIN s, NEW b, Chain(b, y, s), call.algo = "nodes"
  PROVE  PathOK(y, EdgesOf(b), NodesOf(y, b), s[y].d)
  <1> DEFINE n == Len(b)
             es == [i \in 1..(n - 1) |-> b[i].via]
             ns == [i \in 1..n |-> b[i].x]
  <1>0. Walk(b, y, s)
    BY ChainWalk
  <1>1. /\ n \in Nat /\ n >= 1 /\ DOMAIN b = 1..n
        /\ \A i \in 1..n : b[i].x \in Items /\ b[i].d \in Nat
        /\ b[1].x = y /\ b[1].d = s[y].d
        /\ \A i \in 1..(n - 1) : Link(b[i], b[i + 1])
        /\ b[n].x \in Sources /\ b[n].d = 0
    BY <1>0 DEF First, Walk
  <1>2. EdgesOf(b) = es /\ NodesOf(y, b) = ns
    BY <1>1 DEF EdgesOf, NodesOf
  <1> HIDE DEF n
  <1>3. \A i \in 1..(n - 1) :
          /\ b[i].via \in call.graph /\ b[i].via[3] \in Nat
          /\ b[i].via[1] = b[i + 1].x /\ b[i].via[2] = b[i].x /\ b[i].d = b[i + 1].d + b[i].via[3]
    <2>1. \A i \in 1..(n - 1) :
            /\ b[i].via \in call.graph
            /\ b[i].via[1] = b[i + 1].x /\ b[i].via[2] = b[i].x /\ b[i].d = b[i + 1].d + b[i].via[3]
      BY <1>1 DEF Link
    <2>2. \A e \in call.graph : e[3] \in Nat
      BY CallShape
    <2> QED
      BY <2>1, <2>2
  <1>4. Len(es) = n - 1 /\ DOMAIN es = 1..(n - 1) /\ Len(ns) = n /\ DOMAIN ns = 1..n
    BY <1>1
  <1>5. \A i \in 1..(n - 1) : es[i] = b[i].via
    OBVIOUS
  <1>6. \A i \in 1..n : ns[i] = b[i].x
    OBVIOUS
  <1> HIDE DEF es, ns
  <1>7. Consecutive(es)
    <2>1. call.mode # "rev"
      BY CallShape
    <2>2. ASSUME NEW i \in 1..(n - 1 - 1) PROVE es[i + 1][2] = es[i][1]
      <3>1. i \in 1..(n - 1) /\ i + 1 \in 1..(n - 1)
        BY <1>1
      <3>2. es[i + 1] = b[i + 1].via /\ es[i] = b[i].via
        BY <1>5, <3>1
      <3>3. b[i + 1].via[2] = b[i + 1].x /\ b[i].via[1] = b[i + 1].x
        BY <1>3, <3>1
      <3> QED
        BY <3>2, <3>3
    <2> QED
      BY <1>4, <2>1, <2>2 DEF Consecutive
  <1>8. \E d : LegSums(es, s[y].d, d)
    <2> DEFINE d == [i \in 1..n |-> b[i].d]
    <2>1. \A i \in 1..n : d[i] = b[i].d
      OBVIOUS
    <2>2. d \in [1..n -> Int]
      BY <1>1
    <2> HIDE DEF d
    <2>3. n = Len(es) + 1
      BY <1>1, <1>4
    <2>4. d[1] = s[y].d /\ d[n] = 0
      BY <1>1, <2>1
    <2>5. ASSUME NEW i \in 1..(n - 1) PROVE Leg(es, i) \in Int /\ d[i] = Leg(es, i) + d[i + 1]
      <3>1. Leg(es, i) = es[i][3]
        BY CallShape DEF Leg
      <3>2. i \in 1..n /\ i + 1 \in 1..n
        BY <1>1
      <3>3. es[i] = b[i].via /\ b[i].via[3] \in Nat /\ b[i].d = b[i + 1].d + b[i].via[3]
        BY <1>3, <1>5
      <3>4. d[i] = b[i].d /\ d[i + 1] = b[i + 1].d /\ b[i + 1].d \in Nat
        BY <1>1, <2>1, <3>2
      <3> QED
        BY <3>1, <3>3, <3>4
    <2> QED
      BY <1>4, <2>2, <2>3, <2>4, <2>5 DEF LegSums
  <1>9. ns[1] = y /\ ns[Len(ns)] \in Sources
    BY <1>1, <1>4, <1>6
  <1>10. \A i \in 1..(n - 1) : ns[i] = es[i][2] /\ ns[i + 1] = es[i][1]
    <2> SUFFICES ASSUME NEW i \in 1..(n - 1) PROVE ns[i] = es[i][2] /\ ns[i + 1] = es[i][1]
      OBVIOUS
    <2>1. i \in 1..n /\ i + 1 \in 1..n
      BY <1>1
    <2> QED
      BY <1>3, <1>5, <1>6, <2>1
  <1>11. Len(es) \in Nat
    BY <1>1, <1>4
  <1> QED
    BY <1>2, <1>4, <1>7, <1>8, <1>9, <1>10, <1>11 DEF PathOK

\* EDijkstra: the nodes collected are the heads of the edges, and last the
\* node the search started from, if it started from one
LEMMA EdgePathNodes ==
  ASSUME CallOK, NEW s, TreeOK(s), NEW y \in DOMAIN s, NEW b, Chain(b, y, s), call.algo = "edges",
         call.mode # "rev", NEW i \in 1..Len(b)
  PROVE  LET ns == NodesOf(y, b)
         IN ns[i] = b[i].x[2] /\ (i + 1 \in DOMAIN ns => ns[i + 1] = b[i].x[1])
  <1> DEFINE n == Len(b)
             vias == [j \in 1..(n - 1) |-> b[j].via]
             tail == IF call.args[1] = "node" THEN SetToSeq(call.from) ELSE <<>>
             ns == <<y[2]>> \o vias \o tail
  <1>0. Walk(b, y, s)
    BY ChainWalk
  <1>1. /\ n \in Nat /\ n >= 1
        /\ \A j \in 1..n : b[j].x \in Items
        /\ b[1].x = y /\ b[n].x \in Sources
        /\ \A j \in 1..(n - 1) : Link(b[j], b[j + 1])
    BY ONLY <1>0 DEF Walk
  <1>2. NodesOf(y, b) = ns
    BY DEF NodesOf
  <1>3. \A j \in 1..n : b[j].x \in Nodes \X Nodes \X Nat
    BY <1>1, ItemFacts
  <1> HIDE DEF n
  <1>4. \A j \in 1..(n - 1) : b[j].via = b[j + 1].x[2] /\ b[j].x[1] = b[j + 1].x[2]
    BY <1>1 DEF Link
  <1>5. \A j \in 1..(n - 1) : b[j].via \in Nodes
    <2>1. \A j \in 1..(n - 1) : j + 1 \in 1..n
      BY <1>1
    <2> QED
      BY <1>3, <1>4, <2>1
  <1>6. tail \in Seq(Nodes) /\ Len(tail) <= 1 /\ (Len(tail) = 1 => tail[1] = b[n].x[1])
    <2>1. CASE call.args[1] = "node"
      <3>1. IsFiniteSet(call.from) /\ Cardinality(call.from) = 1 /\ call.from \subseteq Nodes
        BY <2>1, CallShape, NodesAssumption, FS_Subset
      <3>2. PICK m : call.from = {m}
        BY <3>1, FS_Singleton
      <3>3. tail = <<m>>
        BY <2>1, <3>2, OneAsSeq
      <3>4. Sources = Out(m)
        BY <2>1, <3>2 DEF Sources
      <3>5. b[n].x[1] = m
        BY <1>1, <3>4 DEF Out
      <3>6. m \in Nodes
        BY <3>1, <3>2
      <3> HIDE DEF tail
      <3> QED
        BY <3>3, <3>5, <3>6
    <2>2. CASE call.args[1] # "node"
      <3>1. tail = <<>>
        BY <2>2
      <3> HIDE DEF tail
      <3> QED
        BY <3>1
    <2> QED
      BY <2>1, <2>2
  <1>7. <<y[2]>> \in Seq(Nodes) /\ Len(<<y[2]>>) = 1 /\ <<y[2]>>[1] = y[2]
    BY <1>1, <1>3
  <1>8. vias \in Seq(Nodes) /\ Len(vias) = n - 1 /\ \A j \in 1..(n - 1) : vias[j] = b[j].via
    <2>1. vias \in [1..(n - 1) -> Nodes] /\ n - 1 \in Nat
      BY <1>1, <1>5
    <2> QED
      BY <2>1
  <1> HIDE DEF vias, tail
  <1>9. /\ <<y[2]>> \o vias \in Seq(Nodes) /\ Len(<<y[2]>> \o vias) = n
        /\ \A j \in 1..n : (<<y[2]>> \o vias)[j] = IF j <= 1 THEN y[2] ELSE vias[j - 1]
    <2>1. /\ <<y[2]>> \o vias \in Seq(Nodes)
          /\ Len(<<y[2]>> \o vias) = Len(<<y[2]>>) + Len(vias)
          /\ \A j \in 1..(Len(<<y[2]>>) + Len(vias)) :
               (<<y[2]>> \o vias)[j] = IF j <= Len(<<y[2]>>) THEN <<y[2]>>[j]
                                       ELSE vias[j - Len(<<y[2]>>)]
      BY <1>7, <1>8, ConcatProperties
    <2>2. Len(<<y[2]>>) + Len(vias) = n
      BY <1>1, <1>7, <1>8
    <2> QED
      BY <1>1, <1>7, <2>1, <2>2
  <1> DEFINE front == <<y[2]>> \o vias
  <1>10. front \in Seq(Nodes) /\ Len(front) = n
    BY <1>9
  <1>11. front[1] = y[2] /\ \A j \in 1..(n - 1) : front[j + 1] = b[j].via
    BY <1>1, <1>8, <1>9
  <1>12. ns = front \o tail
    OBVIOUS
  <1> HIDE DEF front, ns
  <1>13. /\ ns \in Seq(Nodes) /\ Len(ns) = n + Len(tail)
         /\ \A j \in 1..(n + Len(tail)) : ns[j] = IF j <= n THEN front[j] ELSE tail[j - n]
    BY <1>6, <1>10, <1>12, ConcatProperties
  <1>14. DOMAIN ns = 1..(n + Len(tail)) /\ Len(tail) \in Nat
    BY <1>6, <1>13, LenProperties
  <1>15. i \in 1..n
    BY DEF n
  <1>16. ns[i] = b[i].x[2]
    <2>1. ns[i] = front[i]
      BY <1>1, <1>13, <1>14, <1>15
    <2>2. CASE i = 1
      BY <1>1, <1>11, <2>1, <2>2
    <2>3. CASE i > 1
      <3> DEFINE j == i - 1
      <3>1. j \in 1..(n - 1) /\ j + 1 = i
        BY <1>1, <1>15, <2>3
      <3> HIDE DEF j
      <3>2. front[j + 1] = b[j].via /\ b[j].via = b[j + 1].x[2]
        BY <1>4, <1>11, <3>1
      <3> QED
        BY <2>1, <3>1, <3>2
    <2> QED
      BY <1>1, <1>15, <2>2, <2>3
  <1>17. ASSUME i + 1 \in DOMAIN ns PROVE ns[i + 1] = b[i].x[1]
    <2>1. CASE i < n
      <3>1. i \in 1..(n - 1) /\ i + 1 \in 1..n
        BY <1>1, <1>15, <2>1
      <3>2. ns[i + 1] = front[i + 1]
        BY <1>1, <1>13, <1>14, <3>1
      <3>3. front[i + 1] = b[i].via /\ b[i].via = b[i + 1].x[2] /\ b[i].x[1] = b[i + 1].x[2]
        BY <1>4, <1>11, <3>1
      <3> QED
        BY <3>2, <3>3
    <2>2. CASE i = n
      <3> DEFINE k == n + 1
      <3>1. k \in 1..(n + Len(tail)) /\ n \in Nat /\ Len(tail) \in Nat /\ Len(tail) <= 1
        BY <1>1, <1>6, <1>14, <1>17, <2>2
      <3>2. Len(tail) = 1
        <4>1. ASSUME NEW m \in Nat, NEW l \in Nat, l <= 1, m + 1 \in 1..(m + l) PROVE l = 1
          BY <4>1
        <4> QED
          BY <3>1, <4>1
      <3>3. ~(k <= n) /\ k - n = 1
        BY <3>1
      <3> HIDE DEF k
      <3>4. ns[k] = tail[1]
        BY <1>13, <3>1, <3>3
      <3> QED
        BY <1>6, <2>2, <3>2, <3>4 DEF k
    <2> QED
      BY <1>1, <1>15, <2>1, <2>2
  <1> QED
    BY <1>2, <1>16, <1>17

\* EDijkstra: the edges are the items, forwards or backwards
LEMMA EdgePath ==
  ASSUME CallOK, NEW s, TreeOK(s), NEW y \in DOMAIN s, NEW b, Chain(b, y, s), call.algo = "edges"
  PROVE  PathOK(y, EdgesOf(b), NodesOf(y, b), s[y].d)
  <1> DEFINE n == Len(b)
             es == [i \in 1..n |-> b[i].x]
  <1>0. Walk(b, y, s)
    BY ChainWalk
  <1>1. /\ n \in Nat /\ n >= 1 /\ DOMAIN b = 1..n
        /\ \A i \in 1..n : b[i].x \in Items /\ b[i].d \in Nat
        /\ b[1].x = y /\ b[1].d = s[y].d
        /\ \A i \in 1..(n - 1) : Link(b[i], b[i + 1])
        /\ b[n].x \in Sources /\ b[n].d = First(b[n].x)
    BY ONLY <1>0 DEF Walk
  <1>2. EdgesOf(b) = es
    BY <1>1 DEF EdgesOf
  <1>3. call.mode # "rev" =>
          \A i \in 1..n : NodesOf(y, b)[i] = b[i].x[2]
                          /\ (i + 1 \in DOMAIN NodesOf(y, b) => NodesOf(y, b)[i + 1] = b[i].x[1])
    BY EdgePathNodes
  <1> HIDE DEF n
  <1>4. Len(es) = n /\ DOMAIN es = 1..n
    BY <1>1
  <1>5. \A i \in 1..n : es[i] = b[i].x
    OBVIOUS
  <1> HIDE DEF es
  <1>6. \A i \in 1..(n - 1) :
          IF call.mode = "rev"
          THEN b[i].x[2] = b[i + 1].x[1] /\ b[i].d = b[i + 1].d + Move(b[i].x, b[i + 1].x)
          ELSE b[i + 1].x[2] = b[i].x[1] /\ b[i].d = b[i + 1].d + Move(b[i + 1].x, b[i].x)
    BY <1>1 DEF Link
  <1>7. Consecutive(es)
    <2> SUFFICES ASSUME NEW i \in 1..(n - 1)
                 PROVE  IF call.mode = "rev" THEN es[i][2] = es[i + 1][1]
                        ELSE es[i + 1][2] = es[i][1]
      BY <1>4 DEF Consecutive
    <2>1. i \in 1..n /\ i + 1 \in 1..n
      BY <1>1
    <2>2. es[i] = b[i].x /\ es[i + 1] = b[i + 1].x
      BY <1>5, <2>1
    <2> QED
      BY <1>6, <2>2
  <1>8. \E d : LegSums(es, s[y].d, d)
    <2> DEFINE d == [i \in 1..(n + 1) |-> IF i = n + 1 THEN 0 ELSE b[i].d]
    <2>1. d[n + 1] = 0 /\ \A i \in 1..n : d[i] = b[i].d
      BY <1>1
    <2>2. d \in [1..(n + 1) -> Int]
      BY <1>1
    <2> HIDE DEF d
    <2>3. d[1] = s[y].d
      BY <1>1, <2>1
    <2>4. ASSUME NEW i \in 1..n PROVE Leg(es, i) \in Int /\ d[i] = Leg(es, i) + d[i + 1]
      <3>1. b[i].x \in Items /\ es[i] = b[i].x /\ d[i] = b[i].d /\ b[i].d \in Nat
        BY <1>1, <1>5, <2>1
      <3>2. CASE i = n
        <4>1. Leg(es, i) = Start(es[i])
          BY <1>4, <3>2 DEF Leg
        <4>2. b[i].d = Start(es[i])
          BY <1>1, <3>1, <3>2 DEF First
        <4> QED
          BY <2>1, <3>1, <3>2, <4>1, <4>2
      <3>3. CASE i # n
        <4>1. i \in 1..(n - 1) /\ i + 1 \in 1..n
          BY <1>1, <3>3
        <4>2. es[i + 1] = b[i + 1].x /\ d[i + 1] = b[i + 1].d /\ b[i + 1].d \in Nat
              /\ b[i + 1].x \in Items
          BY <1>1, <1>5, <2>1, <4>1
        <4>3. \A e, f \in Items : Move(e, f) \in Nat
          BY CallShape DEF Move, Items
        <4>4. CASE call.mode = "rev"
          <5>1. Leg(es, i) = Move(es[i], es[i + 1])
            BY <1>4, <3>3, <4>1, <4>4 DEF Leg
          <5> QED
            BY <1>6, <3>1, <4>1, <4>2, <4>3, <4>4, <5>1
        <4>5. CASE call.mode # "rev"
          <5>1. Leg(es, i) = Move(es[i + 1], es[i])
            BY <1>4, <3>3, <4>5 DEF Leg
          <5> QED
            BY <1>6, <3>1, <4>1, <4>2, <4>3, <4>5, <5>1
        <4> QED
          BY <4>4, <4>5
      <3> QED
        BY <3>2, <3>3
    <2> QED
      BY <1>4, <2>1, <2>2, <2>3, <2>4 DEF LegSums
  <1>9. es[1] = y /\ es[Len(es)] \in Sources
    BY <1>1, <1>4, <1>5
  <1>10. call.mode # "rev" =>
           \A i \in DOMAIN es :
             NodesOf(y, b)[i] = es[i][2]
             /\ (i + 1 \in DOMAIN NodesOf(y, b) => NodesOf(y, b)[i + 1] = es[i][1])
    BY <1>3, <1>4, <1>5
  <1> QED
    BY <1>1, <1>2, <1>4, <1>7, <1>8, <1>9, <1>10 DEF PathOK

\* buildPath follows a chain
LEMMA SettledPath ==
  ASSUME CallOK, NEW s, TreeOK(s), BacksOK(s), NEW y \in DOMAIN s
  PROVE  PathOK(y, PathEdges(y, s), PathNodes(y, s), s[y].d)
  <1>1. Back(y, s) = (CHOOSE f : BackOf(f, s))[y]
    BY DEF Back, BackOf
  <1>2. Chain(Back(y, s), y, s)
    BY <1>1 DEF BacksOK
  <1>3. PathEdges(y, s) = EdgesOf(Back(y, s)) /\ PathNodes(y, s) = NodesOf(y, Back(y, s))
    BY DEF PathEdges, PathNodes, EdgesOf, NodesOf
  <1> QED
    BY <1>2, <1>3, CallShape, NodePath, EdgePath

-----------------------------------------------------------------------------
(* Paths: the steps.                                                       *)

TreesOK(q, s) == (\A r \in q : LinkOK(r, s)) /\ TreeOK(s) /\ BacksOK(s)

PathsOK(s, a, es, ns) ==
    /\ DOMAIN es \subseteq DOMAIN s /\ DOMAIN es \subseteq DOMAIN a /\ DOMAIN ns = DOMAIN es
    /\ \A x \in DOMAIN es : PathOK(x, es[x], ns[x], a[x])

PathInv ==
    /\ CallOK
    /\ pc = "start" => pq = {} /\ settled = None /\ resEdges = None /\ resNodes = None
    /\ TreesOK(pq, settled)
    /\ PathsOK(settled, costs, resEdges, resNodes)

LEMMA PathsFrozen ==
  ASSUME Frozen
  PROVE  /\ \A q, s : TreesOK(q, s)' <=> TreesOK(q, s)
         /\ \A s, a, es, ns : PathsOK(s, a, es, ns)' <=> PathsOK(s, a, es, ns)
  <1>1. call' = call
    BY DEF Frozen
  <1>2. \A e, f : Move(e, f)' = Move(e, f)
    BY <1>1 DEF Move
  <1>3. \A f : Start(f)' = Start(f)
    BY <1>1 DEF Start
  <1>4. \A r, p : Link(r, p)' <=> Link(r, p)
    BY <1>1, <1>2 DEF Link
  <1>5. \A r : IsFirst(r)' <=> IsFirst(r)
    BY CallFrozen DEF IsFirst
  <1>6. \A r, s : LinkOK(r, s)' <=> LinkOK(r, s)
    BY <1>4, <1>5, CallFrozen DEF LinkOK
  <1>7. \A s : TreeOK(s)' <=> TreeOK(s)
    BY <1>6 DEF TreeOK
  <1>8. \A b, y, s : Chain(b, y, s)' <=> Chain(b, y, s)
    BY <1>4, <1>5 DEF Chain, Entries
  <1>9. \A s : BacksOK(s)' <=> BacksOK(s)
    BY <1>8 DEF BacksOK, BackOf
  <1>10. \A es, i : Leg(es, i)' = Leg(es, i)
    BY <1>1, <1>2, <1>3 DEF Leg
  <1>11. \A es, c, d : LegSums(es, c, d)' <=> LegSums(es, c, d)
    BY <1>10 DEF LegSums
  <1>12. \A es : Consecutive(es)' <=> Consecutive(es)
    BY <1>1 DEF Consecutive
  <1>13. \A x, es, ns, c : PathOK(x, es, ns, c)' <=> PathOK(x, es, ns, c)
    BY <1>1, <1>11, <1>12, CallFrozen DEF PathOK
  <1> QED
    BY <1>6, <1>7, <1>9, <1>13 DEF TreesOK, PathsOK

LEMMA PathStepInv ==
  ASSUME PathInv, Frozen, pc' # "start", TreesOK(pq', settled'),
         PathsOK(settled', costs', resEdges', resNodes')
  PROVE  PathInv'
  <1>1. CallOK'
    BY CallFrozen DEF PathInv
  <1>2. TreesOK(pq, settled)'
    <2>1. \A q, s : TreesOK(q, s)' <=> TreesOK(q, s)
      BY PathsFrozen
    <2> QED
      BY <2>1
  <1>3. PathsOK(settled, costs, resEdges, resNodes)'
    <2>1. \A s, a, es, ns : PathsOK(s, a, es, ns)' <=> PathsOK(s, a, es, ns)
      BY PathsFrozen
    <2> QED
      BY <2>1
  <1> QED
    BY <1>1, <1>2, <1>3 DEF PathInv

LEMMA NoneIsEmpty == DOMAIN None = {}
  BY DEF None

LEMMA NoTree == BacksOK(None) /\ TreeOK(None)
  <1>1. TreeOK(None)
    BY NoneIsEmpty DEF TreeOK
  <1>2. \E f : BackOf(f, None)
    <2> DEFINE g == [y \in {} |-> <<>>]
    <2>1. g = [y \in {} |-> IF None[y].parent = Null THEN <<None[y]>>
                            ELSE <<None[y]>> \o g[None[y].parent]]
      OBVIOUS
    <2> HIDE DEF g
    <2> QED
      BY <2>1, NoneIsEmpty DEF BackOf
  <1> QED
    BY <1>1, <1>2, NoneIsEmpty DEF BacksOK

LEMMA PathInitInv == Init => PathInv
  BY NoTree, NoneIsEmpty DEF Init, PathInv, CallOK, TreesOK, PathsOK

LEMMA PathBeginInv == PathInv /\ Begin => PathInv'
  <1> SUFFICES ASSUME PathInv, Begin PROVE PathInv'
    OBVIOUS
  <1>1. Frozen /\ CallOK /\ settled' = None /\ resEdges' = None /\ resNodes' = None
        /\ pc' # "start"
        /\ pq' \subseteq Initial
    BY DEF PathInv, Begin, Frozen
  <1>2. TreesOK(pq', settled')
    BY <1>1, InitialLinks, NoTree DEF TreesOK
  <1>3. PathsOK(settled', costs', resEdges', resNodes')
    BY <1>1, NoneIsEmpty DEF PathsOK
  <1> QED
    BY <1>1, <1>2, <1>3, PathStepInv

\* A step that only takes entries off the queue
LEMMA PathLessInv ==
  ASSUME PathInv, Frozen, pc' # "start", pq' \subseteq pq,
         UNCHANGED <<settled, costs, resEdges, resNodes>>
  PROVE  PathInv'
  <1>1. TreesOK(pq', settled')
    BY DEF PathInv, TreesOK
  <1>2. PathsOK(settled', costs', resEdges', resNodes')
    BY DEF PathInv
  <1> QED
    BY <1>1, <1>2, PathStepInv

LEMMA PathSettleInv == PathInv /\ Settle => PathInv'
  <1> SUFFICES ASSUME PathInv, Settle PROVE PathInv'
    OBVIOUS
  <1>1. Frozen /\ CallOK /\ pc = "search" /\ TreesOK(pq, settled)
        /\ PathsOK(settled, costs, resEdges, resNodes)
    BY DEF PathInv, Settle, Frozen
  <1>2. PICK r \in Top(pq) :
          /\ r.x \notin DOMAIN settled
          /\ settled' = Put(settled, r.x, r)
          /\ IF Answers(r)
             THEN /\ costs' = Put(costs, r.x, r.d)
                  /\ resEdges' = Put(resEdges, r.x, PathEdges(r.x, Put(settled, r.x, r)))
                  /\ resNodes' = Put(resNodes, r.x, PathNodes(r.x, Put(settled, r.x, r)))
             ELSE UNCHANGED <<costs, resEdges, resNodes>>
          /\ pc' = "done" \/ pc' = pc
          /\ pq' \subseteq pq \cup Relax(r)
    BY DEF Settle
  <1>3. LinkOK(r, settled) /\ r.x \in Items /\ r.d \in Nat
    BY <1>1, <1>2 DEF TreesOK, LinkOK, Top
  <1>4. TreeOK(settled')
    <2>1. \A y \in DOMAIN settled : settled'[y] = settled[y]
      BY <1>2 DEF Put
    <2>2. settled'[r.x] = r /\ DOMAIN settled' = DOMAIN settled \cup {r.x}
      BY <1>2 DEF Put
    <2>3. \A w : LinkOK(w, settled) => LinkOK(w, settled')
      BY <1>2, LinkKept
    <2> QED
      BY <1>1, <1>3, <2>1, <2>2, <2>3 DEF TreeOK, TreesOK
  <1>5. BacksOK(settled')
    <2>1. DOMAIN settled \subseteq Items
      BY <1>1 DEF TreesOK, TreeOK, LinkOK
    <2> QED
      BY <1>1, <1>2, <1>3, <2>1, SettleKeepsBacks DEF TreesOK
  <1>6. TreesOK(pq', settled')
    <2>1. \A w \in pq : LinkOK(w, settled')
      BY <1>1, <1>2, LinkKept DEF TreesOK
    <2>2. \A w \in Relax(r) : LinkOK(w, settled')
      BY <1>1, <1>2, <1>3, RelaxLinks
    <2> QED
      BY <1>2, <1>4, <1>5, <2>1, <2>2 DEF TreesOK
  <1>7. PathsOK(settled', costs', resEdges', resNodes')
    <2>1. DOMAIN settled' = DOMAIN settled \cup {r.x} /\ settled'[r.x] = r
      BY <1>2 DEF Put
    <2>2. CASE Answers(r)
      <3>1. PathOK(r.x, PathEdges(r.x, settled'), PathNodes(r.x, settled'), r.d)
        BY <1>1, <1>4, <1>5, <2>1, SettledPath
      <3>2. /\ DOMAIN resEdges' = DOMAIN resEdges \cup {r.x}
            /\ DOMAIN resNodes' = DOMAIN resNodes \cup {r.x} /\ DOMAIN costs' = DOMAIN costs \cup {r.x}
            /\ resEdges'[r.x] = PathEdges(r.x, settled') /\ resNodes'[r.x] = PathNodes(r.x, settled')
            /\ costs'[r.x] = r.d
        BY <1>2, <2>2 DEF Put
      <3>3. ASSUME NEW x \in DOMAIN resEdges
            PROVE  PathOK(x, resEdges'[x], resNodes'[x], costs'[x])
        <4>1. x # r.x /\ PathOK(x, resEdges[x], resNodes[x], costs[x])
          BY <1>1, <1>2 DEF PathsOK
        <4>2. x \in DOMAIN resNodes /\ x \in DOMAIN costs
          BY <1>1 DEF PathsOK
        <4> QED
          BY <1>2, <2>2, <4>1, <4>2, PutFacts
      <3> QED
        BY <1>1, <2>1, <3>1, <3>2, <3>3 DEF PathsOK
    <2>3. CASE ~Answers(r)
      BY <1>1, <1>2, <2>1, <2>3 DEF PathsOK
    <2> QED
      BY <2>2, <2>3
  <1> QED
    BY <1>1, <1>2, <1>6, <1>7, PathStepInv

LEMMA PathNextInv == PathInv /\ [Next]_vars => PathInv'
  <1> SUFFICES ASSUME PathInv, [Next]_vars PROVE PathInv'
    OBVIOUS
  <1>1. CASE Skip
    BY <1>1, PathLessInv DEF Skip, Frozen
  <1>2. CASE Exhausted
    BY <1>2, PathLessInv DEF Exhausted, Frozen
  <1>3. CASE UNCHANGED vars
    <2>1. CASE pc = "start"
      <3>1. Frozen /\ pq' = pq /\ settled' = settled /\ costs' = costs /\ resEdges' = resEdges
            /\ resNodes' = resNodes
        BY <1>3 DEF vars, Frozen
      <3>2. TreesOK(pq, settled)' /\ PathsOK(settled, costs, resEdges, resNodes)'
        <4>1. \A q, s : TreesOK(q, s)' <=> TreesOK(q, s)
          BY <3>1, PathsFrozen
        <4>2. \A s, a, es, ns : PathsOK(s, a, es, ns)' <=> PathsOK(s, a, es, ns)
          BY <3>1, PathsFrozen
        <4> QED
          BY <3>1, <4>1, <4>2 DEF PathInv
      <3>3. CallOK' /\ None' = None
        BY <3>1, CallFrozen DEF PathInv, None
      <3> QED
        BY <2>1, <3>1, <3>2, <3>3 DEF PathInv
    <2>2. CASE pc # "start"
      BY <1>3, <2>2, PathLessInv DEF vars, Frozen
    <2> QED
      BY <2>1, <2>2
  <1> QED
    BY <1>1, <1>2, <1>3, PathBeginInv, PathSettleInv DEF Next, Done

\* The paths that buildPath collects are paths of the graph with the cost that
\* is returned for them, whatever older entries still wait in the queue.
THEOREM PathsAreReal == Spec => []PathsMatchCosts
  <1>1. PathInv => PathsMatchCosts
    <2> SUFFICES ASSUME PathInv, NEW x \in DOMAIN resEdges
                 PROVE  /\ PathOK(x, resEdges[x], resNodes[x], costs[x])
                        /\ PathCost(resEdges[x]) = costs[x]
      BY DEF PathsMatchCosts, PathOK
    <2>1. PathOK(x, resEdges[x], resNodes[x], costs[x])
      BY DEF PathInv, PathsOK
    <2> QED
      BY <2>1, PathCostIs DEF PathOK
  <1> QED
    BY <1>1, PathInitInv, PathNextInv, PTL DEF Spec

=============================================================================
