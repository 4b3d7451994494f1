---------------------------- MODULE ShortestPath ----------------------------
(***************************************************************************)
(* The searches of util::graph: EDijkstra settles edges, Dijkstra settles  *)
(* nodes.  Both are A* searches on a priority queue without decrease-key:  *)
(* an item may wait in the queue several times and is skipped once it is   *)
(* settled.  One behaviour is one call; a call names the algorithm, how it *)
(* ends, the graph, the items to start from and to reach, the cost above   *)
(* which paths are given up (inf), and whether a heuristic is used.        *)
(*                                                                         *)
(* An edge of the directed graph is <<from, to, length>>; there is at most *)
(* one for two nodes.  Costs are the ones of the router: leaving an edge   *)
(* costs its length and a full turn the call's penalty, or (CombCostFunc)  *)
(* entering an edge costs its length.  Distances are exact, where the code *)
(* uses doubles, and nodes lie on a line.                                  *)
(***************************************************************************)
EXTENDS Integers, FiniteSets, Sequences, SequencesExt

CONSTANTS
    Nodes,
    Pos,         \* where a node lies, multiples of 6 so that a mean of three is exact
    Calls,       \* sets of calls
    Null         \* no parent

ASSUME PosAssumption == Pos \in [Nodes -> Int]

ASSUME NodesAssumption == IsFiniteSet(Nodes)

ASSUME NullAssumption == Null \notin Nodes /\ Null \notin Nodes \X Nodes \X Nat

VARIABLES
    call,        \* the arguments
    centre,      \* DistHeur::_center, NDistHeur::_center
    radius,      \* _maxCentD
    pq,          \* the queue; equal entries are kept once
    settled,     \* [item -> entry]
    costs,       \* [target -> cost], the answer
    resEdges,    \* [target -> edges of its path, the last one first]
    resNodes,    \* [target -> nodes of its path, the last one first]
    pc           \* "start", "search", "done"

vars == <<call, centre, radius, pq, settled, costs, resEdges, resNodes, pc>>

Abs(x) == IF x < 0 THEN -x ELSE x

\* What the callers guarantee: the ends of an edge are nodes of the graph and
\* costs are not negative; an edge is at least as long as the straight line
\* between its ends where a heuristic is used, which is only done for given
\* targets and costs paid on leaving an edge; a pair is one of single nodes, and
\* EDijkstra starts from a single node or from edges.
CallsAssumption ==
    \A c \in UNION Calls :
        LET group(which) == IF c.algo = "nodes" \/ c.args[which] = "node" THEN SUBSET Nodes
                            ELSE SUBSET c.graph
        IN /\ c.algo \in {"edges", "nodes"}
           /\ c.mode \in {"first", "each"} \/ (c.mode \in {"all", "rev"} /\ c.algo = "edges")
           /\ c.graph \subseteq Nodes \X Nodes \X Nat /\ IsFiniteSet(c.graph)
           /\ c.from \in group(1) /\ c.to \in group(2)
           /\ c.algo = "edges" /\ c.args[1] = "node" => Cardinality(c.from) = 1
           /\ c.turn \in Nat /\ c.inf \in Nat
           /\ c.heur => /\ c.mode \in {"first", "each"} /\ ~c.enter
                        /\ \A e \in c.graph : Abs(Pos[e[1]] - Pos[e[2]]) <= e[3]
           /\ c.pair => /\ Cardinality(c.to) = 1
                        /\ c.algo = "edges" => c.args[2] = "node"

ASSUME CallsOK == CallsAssumption

None == [x \in {} |-> Null]

\* f with the value v for x
Put(f, x, v) == [y \in DOMAIN f \cup {x} |-> IF y = x THEN v ELSE f[y]]

-----------------------------------------------------------------------------
(* The call.                                                               *)

Out(n) == {e \in call.graph : e[1] = n}
In(n)  == {e \in call.graph : e[2] = n}

\* In EDijkstra a node stands for its outgoing edges at the start and for its
\* incoming ones at the end
Sources ==
    IF call.algo = "edges" /\ call.args[1] = "node" THEN UNION {Out(n) : n \in call.from}
    ELSE call.from

Targets ==
    IF call.algo = "edges" /\ call.args[2] = "node" THEN UNION {In(n) : n \in call.to}
    ELSE call.to

\* The overloads for a pair of nodes give up when nothing leads to the target
NoWayIn == call.pair /\ \E n \in call.to : In(n) = {}

\* Dijkstra from one node gives up when nothing leads out of it
NoWayOut ==
    call.algo = "nodes" /\ Cardinality(call.from) = 1
    /\ \E n \in call.from : Out(n) = {}

\* Where an item lies for the heuristic: an edge at its first node
At(x) == IF call.algo = "edges" THEN Pos[x[1]] ELSE Pos[x]

\* The constructors of DistHeur and NDistHeur
Centre ==
    IF Targets = {} THEN 0 ELSE MapThenSumSet(At, Targets) \div Cardinality(Targets)
Radius == IF Targets = {} THEN 0 ELSE Max({Abs(At(t) - Centre) : t \in Targets})

\* Mutant: the distance is weighted like a slower level than the cheapest
HeurTooHigh(x) == IF call.heur THEN 2 * (Abs(At(x) - centre) - radius) ELSE 0

\* The distance to the centre of the targets, less the radius of the targets
Heur(x) == IF call.heur THEN Abs(At(x) - centre) - radius ELSE 0

FullTurn(e, f) == e[1] = f[2] /\ e[2] = f[1]

\* Cost of going from edge e to edge f, of starting with edge f, and of
\* taking edge e from a node
Move(e, f) ==
    IF call.enter THEN f[3]
    ELSE e[3] + (IF FullTurn(e, f) THEN call.turn ELSE 0)
Start(f) == IF call.enter THEN f[3] ELSE 0

-----------------------------------------------------------------------------
(* The queue.                                                              *)

Entry(x, parent, via, d, h) ==
    [x |-> x, parent |-> parent, via |-> via, d |-> d, h |-> h]

\* Entries the heap may have on top: lowest h first, then lowest d
Top(q) ==
    {r \in q : \A s \in q : r.h < s.h \/ (r.h = s.h /\ r.d <= s.d)}

\* Mutant: the block for undirected graphs is entered for every edge
RelaxBothEnds(cur) ==
    {Entry(f, cur.x, f[1], cur.d + Move(cur.x, f), cur.d + Move(cur.x, f) + Heur(f)) :
        f \in {g \in (Out(cur.x[1]) \cup Out(cur.x[2])) \ {cur.x} :
                 ~(call.inf <= cur.d + Move(cur.x, g))}}

\* EDijkstra::relax.  The block for undirected graphs applies to a loop, whose
\* ends have the same outgoing edges.
RelaxEdge(cur) ==
    {Entry(f, cur.x, cur.x[2], cur.d + Move(cur.x, f), cur.d + Move(cur.x, f) + Heur(f)) :
        f \in {g \in Out(cur.x[2]) \ {cur.x} : ~(call.inf <= cur.d + Move(cur.x, g))}}

\* EDijkstra::relaxInv
RelaxInv(cur) ==
    {Entry(f, cur.x, cur.x[1], cur.d + Move(f, cur.x), 0) :
        f \in {g \in In(cur.x[1]) \ {cur.x} : ~(call.inf <= cur.d + Move(g, cur.x))}}

\* Dijkstra::relax
RelaxNode(cur) ==
    {Entry(e[2], cur.x, e, cur.d + e[3], cur.d + e[3] + Heur(e[2])) :
        e \in {g \in Out(cur.x) : ~(call.inf <= cur.d + g[3])}}

Relax(cur) ==
    CASE call.algo = "nodes" -> RelaxNode(cur)
      [] call.algo = "edges" /\ call.mode = "rev" -> RelaxInv(cur)
      [] OTHER -> RelaxEdge(cur)

\* The queue at the beginning
Initial ==
    CASE call.algo = "nodes" -> {Entry(n, Null, Null, 0, 0) : n \in Sources}
      [] call.mode \in {"all", "rev"} -> {Entry(e, Null, Null, Start(e), 0) : e \in Sources}
      [] OTHER -> {Entry(e, Null, Null, Start(e), Start(e) + Heur(e)) : e \in Sources}

\* EDijkstra::buildPath, Dijkstra::buildPath: from the item back to a source
Back(x, s) ==
    LET back[y \in DOMAIN s] ==
          IF s[y].parent = Null THEN <<s[y]>> ELSE <<s[y]>> \o back[s[y].parent]
    IN back[x]

PathEdges(x, s) ==
    LET b == Back(x, s)
    IN IF call.algo = "edges" THEN [i \in DOMAIN b |-> b[i].x]
       ELSE [i \in 1..(Len(b) - 1) |-> b[i].via]

PathNodes(x, s) ==
    LET b == Back(x, s)
        vias == [i \in 1..(Len(b) - 1) |-> b[i].via]
    IN IF call.algo = "nodes" THEN [i \in DOMAIN b |-> b[i].x]
       ELSE <<x[2]>> \o vias
            \o (IF call.args[1] = "node" THEN SetToSeq(call.from) ELSE <<>>)

-----------------------------------------------------------------------------
Init ==
    /\ \E some \in Calls : call \in some
    /\ centre = Centre /\ radius = Radius
    /\ pq = {} /\ settled = None
    /\ costs = None /\ resEdges = None /\ resNodes = None
    /\ pc = "start"

\* The early returns, and the first entries of the queue
Begin ==
    /\ pc = "start"
    /\ LET stop == \/ call.mode = "first" /\ (Sources = {} \/ Targets = {} \/ NoWayIn)
                   \/ call.mode \in {"first", "each"} /\ NoWayOut
                   \/ call.mode = "each" /\ Targets = {}
       IN /\ pc' = IF stop THEN "done" ELSE "search"
          /\ pq' = IF stop THEN {} ELSE Initial
    /\ costs' = IF call.mode = "each" THEN [t \in Targets |-> call.inf] ELSE None
    /\ UNCHANGED <<call, centre, radius, settled, resEdges, resNodes>>

\* The top was settled before
Skip ==
    /\ pc = "search"
    /\ \E r \in Top(pq) :
         /\ r.x \in DOMAIN settled
         /\ pq' = pq \ {r}
    /\ UNCHANGED <<call, centre, radius, settled, costs, resEdges, resNodes, pc>>

\* How many targets were settled
Found(s) == Cardinality(Targets \cap DOMAIN s)

\* Whether the loop ends with r
EndsWith(r, s) ==
    \/ call.mode = "first" /\ r.x \in Targets
    \/ call.mode = "each" /\ Found(s) = Cardinality(Targets)

\* Whether r is an answer
Answers(r) == call.mode \in {"all", "rev"} \/ r.x \in Targets

Settle ==
    /\ pc = "search"
    /\ \E r \in Top(pq) :
         LET s == Put(settled, r.x, r)
         IN /\ r.x \notin DOMAIN settled
            /\ settled' = s
            /\ IF Answers(r)
               THEN /\ costs' = Put(costs, r.x, r.d)
                    /\ resEdges' = Put(resEdges, r.x, PathEdges(r.x, s))
                    /\ resNodes' = Put(resNodes, r.x, PathNodes(r.x, s))
               ELSE UNCHANGED <<costs, resEdges, resNodes>>
            /\ IF EndsWith(r, s) THEN pc' = "done" /\ pq' = pq \ {r}
               ELSE pc' = pc /\ pq' = (pq \ {r}) \cup Relax(r)
    /\ UNCHANGED <<call, centre, radius>>

\* Nothing left: a call for the first target returns inf
Exhausted ==
    /\ pc = "search" /\ pq = {}
    /\ pc' = "done"
    /\ UNCHANGED <<call, centre, radius, pq, settled, costs, resEdges, resNodes>>

Done == pc = "done" /\ UNCHANGED vars

Next == Begin \/ Skip \/ Settle \/ Exhausted \/ Done

Spec == Init /\ [][Next]_vars

-----------------------------------------------------------------------------
(* The reference: Bellman's equations, cut off at inf.                      *)

Items == IF call.algo = "edges" THEN call.graph ELSE Nodes

Step(x, y) ==
    CASE call.algo = "nodes" -> {e[3] : e \in Out(x) \cap In(y)}
      [] call.mode = "rev" -> IF y[2] = x[1] /\ x # y THEN {Move(y, x)} ELSE {}
      [] OTHER -> IF x[2] = y[1] /\ x # y THEN {Move(x, y)} ELSE {}

First(x) == IF call.algo = "edges" THEN Start(x) ELSE 0

\* From the costs of some items, those of items one step further, below inf
Extend(d) ==
    LET via(y) == {d[l[1]] + l[2] : l \in UNION {{x} \X Step(x, y) : x \in DOMAIN d}}
        all(y) == {v \in via(y) : v < call.inf} \cup (IF y \in DOMAIN d THEN {d[y]} ELSE {})
    IN [y \in {z \in Items : all(z) # {}} |-> Min(all(y))]

\* The cost of a cheapest walk of at most n steps to every item that costs
\* less than inf; longer walks than there are items cost no less
Cheapest[n \in 0..Cardinality(Items)] ==
    IF n = 0 THEN [x \in Sources |-> First(x)] ELSE Extend(Cheapest[n - 1])

Reference == Cheapest[Cardinality(Items)]

\* Several start nodes wait with key 0 instead of their heuristic value; when
\* one of them lies inside the circle of the targets the order may be wrong.
SourcesOutside == call.algo = "nodes" => Cardinality(Sources) = 1
                                         \/ \A n \in Sources : Heur(n) >= 0

\* A search that has ended returns lowest costs, whatever the order of equal
\* entries in the heap: of every target, of everything below inf, or of one
\* target, the one for which cost and heuristic value add up to the least.  The
\* heuristic never makes EDijkstra or Dijkstra settle an item too early.  (The
\* early returns of Dijkstra and of the overloads for a pair of nodes leave out
\* the empty path.)
SearchExact ==
    pc = "done" /\ SourcesOutside /\ (NoWayIn \/ NoWayOut => Sources \cap Targets = {}) =>
        LET ref == Reference
            hit == DOMAIN ref \cap Targets
        IN CASE call.mode = "first" ->
                  IF hit = {} THEN costs = None
                  ELSE \E t \in hit : /\ \A u \in hit : ref[t] + Heur(t) <= ref[u] + Heur(u)
                                      /\ costs = Put(None, t, ref[t])
             [] call.mode = "each" ->
                  costs = [t \in Targets |-> IF t \in hit THEN ref[t] ELSE call.inf]
             [] OTHER -> costs = ref

Consecutive(es) ==
    \A i \in 1..(Len(es) - 1) :
        IF call.mode = "rev" THEN es[i][2] = es[i + 1][1] ELSE es[i + 1][2] = es[i][1]

\* What the i-th edge adds to the cost of a path
Leg(es, i) ==
    CASE call.algo = "nodes" -> es[i][3]
      [] call.algo = "edges" /\ i = Len(es) -> Start(es[i])
      [] call.mode = "rev" /\ i < Len(es) -> Move(es[i], es[i + 1])
      [] OTHER -> Move(es[i + 1], es[i])

PathCost(es) ==
    LET from[i \in 1..(Len(es) + 1)] ==
          IF i = Len(es) + 1 THEN 0 ELSE Leg(es, i) + from[i + 1]
    IN from[1]

\* The edges that buildPath collects for a target lead from a source to it
\* without a gap and cost what is returned for it, and the nodes collected
\* with them are the ends of these edges: entries that wait in the queue with
\* an older parent never leak into a path.
PathsMatchCosts ==
    \A x \in DOMAIN resEdges :
        LET es == resEdges[x]
            ns == resNodes[x]
        IN /\ Consecutive(es)
           /\ call.algo = "edges" => es[1] = x /\ es[Len(es)] \in Sources
           /\ call.algo = "nodes" => ns[1] = x /\ ns[Len(ns)] \in Sources
           /\ PathCost(es) = costs[x]
           /\ call.mode # "rev" =>
                \A i \in DOMAIN es : ns[i] = es[i][2] /\ (i + 1 \in DOMAIN ns => ns[i + 1] = es[i][1])
=============================================================================
