------------------------------- MODULE Router -------------------------------
(***************************************************************************)
(* pfaedle::router: a trip is a sequence of groups of candidates; a route  *)
(* picks one candidate of every group so that the hops between them cost   *)
(* least.  For every two groups a pilot search bounds the costs, then one  *)
(* search per candidate of the first group gives the costs to all of the   *)
(* second; found paths go into a cache by routing attributes, first and    *)
(* last edge.  The greedy routes search between nodes, one hop at a time.  *)
(*                                                                         *)
(* A search is taken by its contract, which ShortestPath checks: a         *)
(* cheapest path below inf to every target, or to the target that its      *)
(* heuristic prefers.  Costs are integers; nodes lie on a line.            *)
(* The program runs with one thread (the pragmas are commented out), so    *)
(* there is one cache.                                                     *)
(***************************************************************************)
EXTENDS Integers, FiniteSets, Sequences, SequencesExt

CONSTANTS
    Nodes, Edges,    \* of the transport graph
    NodeInfo,        \* [node -> [pos, comp, group]], group None without a station
    EdgeInfo,        \* [edge -> [from, to, len, level, oneWay, lines]]
    Sharp,           \* pairs of edges that meet at a sharp angle
    Forbidden,       \* pairs of edges the restrictor does not allow
    Opts,            \* routing_options
    Calls,           \* sequences of calls of the instance
    Caching,         \* the choices of the option
    None             \* no group, no edge, no path

ASSUME EdgesAssumption ==
    /\ IsFiniteSet(Nodes) /\ IsFiniteSet(Edges)
    /\ \A e \in Edges : EdgeInfo[e].from \in Nodes /\ EdgeInfo[e].to \in Nodes

\* The options and lengths are not negative; a level is one of eight
ASSUME CostsAssumption ==
    /\ Opts.levelPunish \in [1..8 -> Nat]
    /\ Opts.fullTurnPunishFac \in Nat /\ Opts.passThruStationsPunish \in Nat
    /\ Opts.oneWayPunishFac \in Nat /\ Opts.oneWayEdgePunish \in Nat
    /\ Opts.lineUnmatchedPunishThird \in Nat /\ Opts.noLinesPunishFact \in Nat
    /\ Opts.platformUnmatchedPen \in Nat
    /\ \A e \in Edges : EdgeInfo[e].len \in Nat /\ EdgeInfo[e].level \in 0..7
    /\ \A n \in Nodes : NodeInfo[n].pos \in Int

\* Every stop of a trip has candidates (get_shape throws for one without), each
\* with an outgoing edge (writeSelfEdgs), and they are nodes of one station
\* group: get_node_candidates gives the nodes of the group of the stop
AllCalls == UNION {{cs[k] : k \in DOMAIN cs} : cs \in Calls}
ASSUME CallsAssumption ==
    /\ Calls \subseteq Seq(AllCalls)
    /\ \A c \in AllCalls :
         /\ c.how \in {"route", "greedy", "greedy2"}
         /\ c.route \in Seq({c.route[k] : k \in DOMAIN c.route})
         /\ \A k \in DOMAIN c.route :
              /\ DOMAIN c.route[k] \subseteq Nodes /\ c.first[k] \in DOMAIN c.route[k]
              /\ \A n \in DOMAIN c.route[k] :
                   /\ \E e \in Edges : EdgeInfo[e].from = n
                   /\ NodeInfo[n].group = NodeInfo[c.first[k]].group

VARIABLES
    calls,       \* what remains to be routed; its head is the current call
    caching,     \* _caching
    cache,       \* [<<attributes, from, to>> -> [cost, edges]]
    i,           \* the current hop
    band,        \* HopBand::maxD of the hop
    froms,       \* candidates of group i that were not searched from yet
    comb,        \* edges of the candidate graph: [<<i, from, to>> -> [cost, edges]]
    hops,        \* the hops returned so far
    pc           \* "call", "pilot", "hops", "solve", "greedy", "return", "end"

vars == <<calls, caching, cache, i, band, froms, comb, hops, pc>>

Call == Head(calls)
Abs(x) == IF x < 0 THEN -x ELSE x
Empty == [x \in {} |-> None]

\* f where it is defined, else g
Over(f, g) == [x \in DOMAIN f \cup DOMAIN g |-> IF x \in DOMAIN f THEN f[x] ELSE g[x]]

From(e) == EdgeInfo[e].from
To(e)   == EdgeInfo[e].to
OutOf(n) == {e \in Edges : From(e) = n}
getDeg(n) == Cardinality(OutOf(n))
Dist(m, n) == Abs(NodeInfo[m].pos - NodeInfo[n].pos)

-----------------------------------------------------------------------------
(* Costs.                                                                  *)

\* routing_attributes::simi, in thirds: a part that is not given matches
Unlike(attrs, line) ==
    3 - Cardinality({k \in {"name", "from", "to"} :
                       attrs[k] = "" \/ (k # "name" /\ line[k] = "") \/ line[k] = attrs[k]})

NoAttrs(attrs) == attrs.name = "" /\ attrs.to = "" /\ attrs.from = ""

\* CostFunc::transitLineCmp
transitLineCmp(attrs, e) ==
    IF NoAttrs(attrs) THEN 0
    ELSE Min({3} \cup {Unlike(attrs, l) : l \in EdgeInfo[e].lines})

Bit(b) == IF b THEN 1 ELSE 0

\* CostFunc: going from edge e over node n to edge f, towards the group grp
Cost(attrs, grp, e, f) ==
    LET n == To(e)
        turn == \/ From(e) = To(f) /\ To(e) = From(f)
                \/ getDeg(n) > 2 /\ <<e, f>> \in Sharp
        wrongWay == Bit(EdgeInfo[e].oneWay = 2 \/ <<e, f>> \in Forbidden)
        skips == grp # None /\ NodeInfo[n].group \notin {None, grp}
        noLines == NoAttrs(attrs) /\ EdgeInfo[e].lines = {}
        len == EdgeInfo[e].len
    IN len * Opts.levelPunish[EdgeInfo[e].level + 1]
       + Bit(turn) * Opts.fullTurnPunishFac
       + Bit(skips) * Opts.passThruStationsPunish
       + len * wrongWay * Opts.oneWayPunishFac + wrongWay * Opts.oneWayEdgePunish
       + len * transitLineCmp(attrs, e) * Opts.lineUnmatchedPunishThird
       + Bit(noLines) * len * Opts.noLinesPunishFact

\* NCostFunc: taking edge e
NCost(e) ==
    LET wrongWay == Bit(EdgeInfo[e].oneWay = 2)
    IN EdgeInfo[e].len * Opts.levelPunish[EdgeInfo[e].level + 1]
       + EdgeInfo[e].len * wrongWay * Opts.oneWayPunishFac + wrongWay * Opts.oneWayEdgePunish

-----------------------------------------------------------------------------
(* The contract of a search over the links <<from, to, cost>>: Lowest      *)
(* gives the lowest costs of the items, inf for those not reached below    *)
(* it, Paths the cheapest paths to one, reversed.                          *)

Relaxed(items, links, d) ==
    [y \in items |-> Min({d[y]} \cup {d[l[1]] + l[3] : l \in {m \in links : m[2] = y}})]

Lowest(items, S, links, inf) ==
    LET Fix[d \in [items -> 0..inf]] ==
            LET r == Relaxed(items, links, d) IN IF r = d THEN d ELSE Fix[r]
    IN Fix[[y \in items |-> IF y \in S THEN 0 ELSE inf]]

Reached(S, d, inf) == {x \in DOMAIN d : x \in S \/ d[x] < inf}

\* The reversed paths P and those one link longer
Longer(P, d, links) ==
    P \cup UNION {{Append(p, l[1]) : l \in {m \in links : m[2] = Last(p) /\ d[m[1]] + m[3] = d[m[2]]}} : p \in P}

Paths(items, S, x, d, links) ==
    LET tails[n \in 0..Cardinality(items)] ==
            IF n = 0 THEN {<<x>>} ELSE Longer(tails[n - 1], d, links)
    IN {p \in tails[Cardinality(items)] : Last(p) \in S}

\* The target a search ends at: the cost and the distance from the centre of
\* all targets (times their number) add up to the least.  It need not be the
\* cheapest.
Preferred(hit, targets, d, pos, weight) ==
    LET k == Cardinality(targets)
        key(t) == k * d[t] + weight * Abs(k * pos[t] - MapThenSumSet(LAMBDA u : pos[u], targets))
    IN {t \in hit : \A u \in hit : key(t) <= key(u)}

Turns == {t \in Edges \X Edges : To(t[1]) = From(t[2]) /\ t[1] # t[2]}

EdgeLinks(attrs, grp) == {<<t[1], t[2], Cost(attrs, grp, t[1], t[2])>> : t \in Turns}

NodeLinks ==
    {<<l[1], l[2], NCost(CHOOSE e \in OutOf(l[1]) : To(e) = l[2])>> : l \in {<<From(e), To(e)>> : e \in Edges}}

-----------------------------------------------------------------------------
(* The cache.                                                              *)

\* The cost of the first k edges of a reversed path
Along(attrs, grp, el, k) ==
    LET sum[j \in 1..k] == IF j = 1 THEN 0 ELSE sum[j - 1] + Cost(attrs, grp, el[j], el[j - 1])
    IN sum[k]

\* Where parts of a reversed path start that end where it ends
Parts(el, starts) == {k \in DOMAIN el : el[k] \in starts /\ el[k] # el[1]}

\* Mutant: the cost of the whole path is filed with every part of it
nestedCacheWhole(store, attrs, grp, els, starts) ==
    LET keys == UNION {{<<attrs, el[k], el[1]>> : k \in Parts(el, starts)} : el \in els}
        path(key) == CHOOSE el \in els : el[1] = key[3]
        last(key) == CHOOSE k \in Parts(path(key), starts) : path(key)[k] = key[2]
        filed == [key \in keys |-> [cost |-> Along(attrs, grp, path(key), Len(path(key))),
                                    edges |-> SubSeq(path(key), 1, last(key))]]
    IN IF caching THEN Over(filed, store) ELSE store

\* router::nestedCache, router::cache: the parts of the found paths els (each
\* to another edge) that start at a candidate
nestedCache(store, attrs, grp, els, starts) ==
    LET keys == UNION {{<<attrs, el[k], el[1]>> : k \in Parts(el, starts)} : el \in els}
        path(key) == CHOOSE el \in els : el[1] = key[3]
        last(key) == CHOOSE k \in Parts(path(key), starts) : path(key)[k] = key[2]
        filed == [key \in keys |-> [cost |-> Along(attrs, grp, path(key), last(key)),
                                    edges |-> SubSeq(path(key), 1, last(key))]]
    IN IF caching THEN Over(filed, store) ELSE store

-----------------------------------------------------------------------------
(* One call.                                                               *)

\* router::route for nodes: a node stands for its outgoing edges
Group(k) ==
    [e \in UNION {OutOf(n) : n \in DOMAIN Call.route[k]} |-> Call.route[k][From(e)]]
Cands(k) == DOMAIN Group(k)
NumHops == Len(Call.route) - 1

\* The station group of the first candidate of a stop
TgGrp(k) == NodeInfo[Call.first[k]].group

compConned(a, b) ==
    \E e \in a, f \in b : NodeInfo[From(e)].comp = NodeInfo[From(f)].comp

Init ==
    /\ calls \in Calls
    /\ caching \in Caching
    /\ cache = Empty
    /\ i = 1 /\ band = 0 /\ froms = {} /\ comb = Empty /\ hops = <<>>
    /\ pc = "call"

\* router::route, routeGreedy, routeGreedy2: nothing to do for one stop
Begin ==
    /\ pc = "call" /\ calls # <<>>
    /\ pc' = IF Len(Call.route) < 2 THEN "return"
             ELSE IF Call.how = "route" THEN "pilot" ELSE "greedy"
    /\ i' = 1 /\ comb' = Empty /\ hops' = <<>>
    /\ UNCHANGED <<calls, caching, cache, band, froms>>

\* The air distance that bounds the pilot search
Pending(a, b) == Max({Dist(From(e), From(f)) : e \in a, f \in b})

\* getHopBand for the lowest costs d from group a to b over the links w.
\* A path of one edge below inf is a common candidate.
Bound(a, b, w, d, inf) ==
    LET hit == IF compConned(a, b) THEN b \cap Reached(a, d, inf) ELSE {}
        pos == [e \in Edges |-> NodeInfo[From(e)].pos]
    IN \/ /\ hit = {} \/ inf = 0
          /\ band' = 1 /\ UNCHANGED cache
       \/ /\ hit # {} /\ inf # 0
          /\ \E t \in Preferred(hit, b, d, pos, Opts.levelPunish[1]) :
               /\ band' = Max({d[t], Pending(a, b) * Opts.levelPunish[3]}) * 3
                          + Opts.fullTurnPunishFac + Opts.platformUnmatchedPen
               /\ \E el \in Paths(Edges, a, t, d, w) :
                    cache' = nestedCache(cache, Call.attrs, TgGrp(i + 1), {el}, a)

\* router::getHopBand
Pilot ==
    /\ pc = "pilot"
    /\ \E inf \in {Pending(Cands(i), Cands(i + 1)) * 50}, w \in {EdgeLinks(Call.attrs, TgGrp(i + 1))} :
       \E d \in {Lowest(Edges, Cands(i), w, inf)} : Bound(Cands(i), Cands(i + 1), w, d, inf)
    /\ froms' = Cands(i)
    /\ pc' = "hops"
    /\ UNCHANGED <<calls, caching, i, comb, hops>>

\* Hops that are not searched: inf at once
Trivial(e, f) ==
    \/ Opts.noSelfHops /\ (e = f \/ From(e) = From(f))
    \/ NodeInfo[From(e)].comp # NodeInfo[To(f)].comp
    \/ EdgeInfo[e].oneWay = 2 \/ EdgeInfo[f].oneWay = 2

\* Mutant: the edge is taken off at the other end
PoppedOtherEnd(el) == IF Opts.popReachEdge /\ el # <<>> THEN Front(el) ELSE el

\* The edge that reaches the target is not part of the geometry
Popped(el) == IF Opts.popReachEdge /\ el # <<>> THEN Tail(el) ELSE el

\* router::hops with getCachedHops for candidate e, the group b and the lowest
\* costs d over the links w
Search(e, b, w, d) ==
    LET key(t) == <<Call.attrs, e, t>>
        cached == {t \in b : caching /\ key(t) \in DOMAIN cache}
        found == {t \in (b \ cached) \cap Reached({e}, d, band) : ~Trivial(e, t)}
        cost(t) == IF t \in cached THEN cache[key(t)].cost
                   ELSE IF t \in found THEN d[t] ELSE band
        paths == [t \in found |-> Paths(Edges, {e}, t, d, w)]
    IN \E path \in {p \in [found -> UNION {paths[t] : t \in found}] : \A t \in found : p[t] \in paths[t]} :
         /\ cache' = nestedCache(cache, Call.attrs, TgGrp(i + 1), {path[t] : t \in found}, Cands(i))
         /\ comb' = Over(comb,
               [x \in {<<i, e, t>> : t \in b} |->
                  [cost |-> Group(i + 1)[x[3]] + cost(x[3]),
                   edges |-> IF x[3] \in cached THEN Popped(cache[key(x[3])].edges)
                             ELSE IF x[3] \in found THEN Popped(path[x[3]]) ELSE <<>>]])

\* One candidate of the group
Hop ==
    /\ pc = "hops"
    /\ \E e \in froms, w \in {EdgeLinks(Call.attrs, TgGrp(i + 1))} :
         /\ \E d \in {Lowest(Edges, {e}, w, band)} : Search(e, Cands(i + 1), w, d)
         /\ froms' = froms \ {e}
    /\ IF froms' # {} THEN UNCHANGED <<i, pc>>
       ELSE IF i < NumHops THEN i' = i + 1 /\ pc' = "pilot"
       ELSE i' = i /\ pc' = "solve"
    /\ UNCHANGED <<calls, caching, band, hops>>

\* The choices of one candidate of every group
Picks == {c \in [1..Len(Call.route) -> UNION {Cands(k) : k \in DOMAIN Call.route}] :
              \A k \in DOMAIN c : c[k] \in Cands(k)}

Total(c) ==
    Group(1)[c[1]] + MapThenSumSet(LAMBDA k : comb[<<k, c[k], c[k + 1]>>].cost, 1..NumHops)

\* A cheapest way through the candidate graph, and its hops
Solve ==
    /\ pc = "solve"
    /\ \E c \in {x \in Picks : \A y \in Picks : Total(x) <= Total(y)} :
         hops' = [k \in 1..NumHops |->
                    [edges |-> comb[<<k, c[k], c[k + 1]>>].edges,
                     start |-> From(c[k]), end |-> From(c[k + 1])]]
    /\ pc' = "return"
    /\ UNCHANGED <<calls, caching, cache, i, band, froms, comb>>

-----------------------------------------------------------------------------
(* The greedy routes, one hop per step.                                    *)

CandNodes(k) == {From(e) : e \in Cands(k)}

\* The nodes a hop starts from: all candidates, or where the last one ended
Starts(k) ==
    IF Call.how = "greedy2" /\ k > 1 THEN {hops[k - 1].end} ELSE CandNodes(k)

\* The paths that a search from nodes S to nodes T may return
Walks(S, T) ==
    LET d == Lowest(Nodes, S, NodeLinks, Opts.infinity)
        hit == T \cap Reached(S, d, Opts.infinity)
        best == Preferred(hit, T, d, [n \in Nodes |-> NodeInfo[n].pos], 1)
    IN UNION {Paths(Nodes, S, t, d, NodeLinks) : t \in best}

\* The hop along a path
HopOf(w) ==
    LET edge(m, n) == CHOOSE e \in OutOf(m) : To(e) = n
    IN [edges |-> [k \in 1..(Len(w) - 1) |-> edge(w[k + 1], w[k])],
        start |-> w[Len(w)], end |-> w[1]]

\* Without a path, or with one that has no edges, the hop is between the
\* first candidates
GreedyHops(S, T) ==
    {HopOf(w) : w \in {x \in Walks(S, T) : Len(x) > 1}}
    \cup (IF Walks(S, T) = {} \/ \E w \in Walks(S, T) : Len(w) = 1
          THEN [edges : {<<>>}, start : S, end : T] ELSE {})

Greedy ==
    /\ pc = "greedy"
    /\ \E h \in GreedyHops(Starts(i), CandNodes(i + 1)) : hops' = Append(hops, h)
    /\ IF i < NumHops THEN i' = i + 1 /\ UNCHANGED pc ELSE i' = i /\ pc' = "return"
    /\ UNCHANGED <<calls, caching, cache, band, froms, comb>>

-----------------------------------------------------------------------------
Return ==
    /\ pc = "return"
    /\ calls' = Tail(calls)
    /\ pc' = "call"
    /\ UNCHANGED <<caching, cache, i, band, froms, comb, hops>>

End == pc = "call" /\ calls = <<>> /\ UNCHANGED vars

Next == Begin \/ Pilot \/ Hop \/ Solve \/ Greedy \/ Return \/ End

Spec == Init /\ [][Next]_vars

-----------------------------------------------------------------------------
(* Properties.                                                             *)

\* A reversed list of edges leads from m to n
Leads(el, m, n) ==
    /\ \A k \in 1..(Len(el) - 1) : To(el[k + 1]) = From(el[k])
    /\ From(el[Len(el)]) = m /\ To(el[1]) = n

\* A route has a hop for every two groups, between a candidate of the one and
\* of the other; the edges of a hop lead from its start to its end without a
\* gap, also when they come from the cache or the reach edge was taken off;
\* and (except for routeGreedy, which starts every hop anew) a hop starts
\* where the one before has ended.
RouteContiguous ==
    pc = "return" /\ Len(Call.route) >= 2 =>
        /\ Len(hops) = NumHops
        /\ \A k \in DOMAIN hops :
             /\ hops[k].start \in CandNodes(k) /\ hops[k].end \in CandNodes(k + 1)
             /\ hops[k].edges # <<>> /\ (Opts.popReachEdge \/ Call.how # "route")
                  => Leads(hops[k].edges, hops[k].start, hops[k].end)
             /\ k > 1 /\ Call.how # "greedy" => hops[k].start = hops[k - 1].end

\* Whatever the routes asked for so far, the route cache answers as a search
\* would: an entry holds a path from its first to its last edge, with the cost
\* that this path has for the attributes it is filed under and for the station
\* group of the stop it leads to, and no other path between the two edges costs
\* less.  So it does not matter that an entry may be a part of a longer hop, or
\* was found on the way to other targets and below the bound of another band.
CacheSound ==
    \A key \in DOMAIN cache :
        LET el == cache[key].edges
            cost == cache[key].cost
            grp == NodeInfo[From(key[3])].group
        IN /\ el[Len(el)] = key[2] /\ el[1] = key[3]
           /\ Leads(el, From(key[2]), To(key[3]))
           /\ cost = Along(key[1], grp, el, Len(el))
           /\ cost = Lowest(Edges, {key[2]}, EdgeLinks(key[1], grp), cost + 1)[key[3]]
=============================================================================
