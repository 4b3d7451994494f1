------------------------------ MODULE TrGraph -------------------------------
(***************************************************************************)
(* trgraph::graph and trgraph::restrictor: the transport graph after it    *)
(* was read, and the passes that osm_builder::read makes over it until it  *)
(* can be routed on: closing gaps, geometries, stations on edges, dead     *)
(* ends, contraction, components, the other direction of every edge.       *)
(*                                                                         *)
(* There is at most one edge from a node to another.  Adjacency lists keep *)
(* the order in which their edges were added, so a sequence of all edges   *)
(* in that order gives them all.  getNds() is a set of pointers: passes    *)
(* meet the nodes in the order of their addresses, here up or down.        *)
(***************************************************************************)
EXTENDS Geometry, SequencesExt, TLC

CONSTANTS
    MaxSnaps,   \* bound on the stations put on the graph from outside
    None        \* no edge, no component

VARIABLES
    g,       \* the graph: [nd, edges, next, lvl]
    restor,  \* the restrictor: [pos, neg, rlx, dangling]
    down,    \* the nodes are met in descending order
    snaps,   \* the stations put on the graph so far
    at       \* the pass that is next

graphVars == <<g, restor, down, snaps, at>>

\* The passes of osm_builder::read
Passes ==
    <<"filter_nodes", "relations", "edges", "nodes", "tracks", "gaps",
      "geometries", "snap", "orphan_nodes", "orphan_edges", "collapse",
      "orphan_nodes", "orphan_edges", "components", "simplify", "odir",
      "self", "done">>

\* Op(...Op(Op(base, s[1]), s[2])..., s[Len(s)]): what a loop over s computes.
\* A function, since TLC then evaluates every step once.
Fold(Op(_, _), base, s) ==
    LET F[x \in Any] == IF x.s = <<>> THEN x.v
                        ELSE F[[v |-> Op(x.v, Head(x.s)), s |-> Tail(x.s)]]
    IN F[[v |-> base, s |-> s]]

-----------------------------------------------------------------------------
(* Nodes [pos, si, grp, blocker, track, comp] by name, edges with their    *)
(* ends and payload.  "way" names the OSM way an edge was made from.       *)

Before(m, n) == m[1] < n[1] \/ (m[1] = n[1] /\ m[2] < n[2])

\* getNds()
Nds(gr) ==
    LET S == DOMAIN gr.nd
        before(n) == {m \in S : IF down THEN Before(n, m) ELSE Before(m, n)}
    IN [k \in 1..Cardinality(S) |-> CHOOSE n \in S : Cardinality(before(n)) = k - 1]

AdjListOut(gr, n) == SelectSeq(gr.edges, LAMBDA e : e.from = n)
AdjListIn(gr, n)  == SelectSeq(gr.edges, LAMBDA e : e.to = n)
Deg(gr, n) == Len(AdjListIn(gr, n)) + Len(AdjListOut(gr, n))

getOtherNd(e, n) == IF e.to = n THEN e.from ELSE e.to

hasEdg(gr, m, n) == \E k \in DOMAIN gr.edges : gr.edges[k].from = m /\ gr.edges[k].to = n
getEdg(gr, m, n) == Head(SelectSeq(gr.edges, LAMBDA e : e.from = m /\ e.to = n))

\* The default payload
edge_payload ==
    [id |-> 0, from |-> None, to |-> None, geom |-> <<>>, len |-> 0, oneWay |-> 0,
     restricted |-> FALSE, rev |-> FALSE, lvl |-> 0, lines |-> <<>>, speed |-> 50,
     way |-> 0]

NoGraph == [nd |-> <<>>, edges |-> <<>>, next |-> 1, lvl |-> <<>>]

\* addEdg does not touch the edge that is already there
addEdg(gr, m, n, pl) ==
    IF hasEdg(gr, m, n) THEN gr
    ELSE [gr EXCEPT !.edges = Append(@, [pl EXCEPT !.from = m, !.to = n, !.id = gr.next]),
                    !.next = @ + 1]

\* The edge e gets the payload it is written with here
setPl(gr, e) ==
    [gr EXCEPT !.edges = [k \in DOMAIN @ |-> IF @[k].id = e.id THEN e ELSE @[k]]]

delEdg(gr, e) == [gr EXCEPT !.edges = SelectSeq(@, LAMBDA f : f.id # e.id)]

delNd(gr, n) ==
    [gr EXCEPT !.nd = [m \in DOMAIN @ \ {n} |-> @[m]] @@ <<>>,
               !.edges = SelectSeq(@, LAMBDA e : n \notin {e.from, e.to})]

\* A pass: Op(graph, node) for one node after the other, if it still exists
Over(gr, Op(_, _)) ==
    Fold(LAMBDA h, n : IF n \in DOMAIN h.nd THEN Op(h, n) ELSE h, gr, Nds(gr))

SI(gr, n) == gr.nd[n].si # ""

-----------------------------------------------------------------------------
(* The restrictor.  pos and neg hold the rules [via, from, to] in the      *)
(* order in which they were added, from and to being edge ids.             *)

NoRules == [pos |-> <<>>, neg |-> <<>>, rlx |-> <<>>, dangling |-> {}]

\* Rules that were added before their second edge was read get it now
relax(r, wid, n, e) ==
    LET open(kind) == {x.k : x \in {y \in r.dangling : y.kind = kind /\ y.via = n /\ y.wid = wid}}
        filled(kind) == [k \in DOMAIN r[kind] |->
                            IF k \in open(kind) THEN [r[kind][k] EXCEPT !.to = e] ELSE r[kind][k]]
    IN [r EXCEPT !.rlx = (<<n, wid>> :> e) @@ @, !.pos = filled("pos"), !.neg = filled("neg")]

add(r, kind, from, wid, via) ==
    LET known == <<via, wid>> \in DOMAIN r.rlx
        to == IF known THEN r.rlx[<<via, wid>>] ELSE None
        more == [r EXCEPT ![kind] = Append(@, [via |-> via, from |-> from, to |-> to])]
    IN IF known THEN more
       ELSE [more EXCEPT !.dangling =
                @ \cup {[kind |-> kind, via |-> via, wid |-> wid, k |-> Len(r[kind]) + 1]}]

may(r, from, to, via) ==
    LET first == SelectSeq(r.pos, LAMBDA x : x.via = via /\ x.from = from /\ x.to # None)
    IN IF first # <<>> THEN Head(first).to = to
       ELSE ~ \E k \in DOMAIN r.neg : r.neg[k] = [via |-> via, from |-> from, to |-> to]

\* Every rule becomes Op(rule)
MapRules(r, Op(_)) ==
    [r EXCEPT !.pos = [k \in DOMAIN @ |-> Op(@[k])], !.neg = [k \in DOMAIN @ |-> Op(@[k])]]

\* replace_edge: old was split into a and b
replace_edge(r, old, a, b) ==
    LET atFrom == IF old.from \in {a.from, a.to} THEN a ELSE b
        atTo   == IF old.from \in {a.from, a.to} THEN b ELSE a
        New(via, e) == IF e # old.id THEN e
                       ELSE IF via = old.to THEN atTo.id
                       ELSE IF via = old.from THEN atFrom.id ELSE e
    IN MapRules(r, LAMBDA x : [x EXCEPT !.from = New(x.via, @), !.to = New(x.via, @)])

\* Mutant: only the first edge of a rule is turned
duplicateFirstOnly(r, old, new) ==
    MapRules(r, LAMBDA x : IF x.via # old.from THEN x
                           ELSE [x EXCEPT !.from = IF @ = old.id THEN new ELSE @])

\* duplicate_edge: new runs against old; a rule wants its first edge to
\* arrive at the node and its second edge to leave it
duplicate_edge(r, old, new) ==
    LET Turned(x) ==
          [x EXCEPT !.from = IF @ = old.id /\ old.to # x.via THEN new ELSE @,
                    !.to   = IF @ = old.id /\ old.from # x.via THEN new ELSE @]
    IN MapRules(r, LAMBDA x : IF x.via \in {old.from, old.to} THEN Turned(x) ELSE x)

-----------------------------------------------------------------------------
(* The passes.                                                             *)

\* The end nb of an edge lies (within a meter) at the end n of another one:
\* nb's edge is laid to n, unless one of the nodes is a station
closeGap(gr, n, nb) ==
    LET e == IF AdjListOut(gr, nb) # <<>> THEN Head(AdjListOut(gr, nb)) ELSE Head(AdjListIn(gr, nb))
        other == getOtherNd(e, nb)
        laid == addEdg(gr, other, n, e)
        drawn == [getEdg(laid, other, n) EXCEPT
                    !.geom = <<gr.nd[other].pos, gr.nd[n].pos>>]
    IN IF SI(gr, n) \/ SI(gr, nb) THEN addEdg(gr, n, nb, e)
       ELSE delNd(setPl(laid, drawn), nb)

\* The node grid holds the nodes that were ends before the pass
fix_gaps(gr) ==
    LET ends == SelectSeq(Nds(gr), LAMBDA n : Deg(gr, n) = 1)
        AtNode(h, n) ==
          IF Deg(h, n) # 1 THEN h
          ELSE Fold(LAMBDA k, nb :
                          IF /\ nb \in DOMAIN k.nd /\ nb # n /\ Deg(k, nb) = 1
                             /\ Dist(k.nd[nb].pos, k.nd[n].pos) <= 1
                          THEN closeGap(k, n, nb) ELSE k,
                        h, ends)
    IN Over(gr, AtNode)

\* add_point twice: the geometry a gap was closed with stays in front
write_geometries(gr) ==
    LET Drawn(e) == [e EXCEPT !.geom = @ \o <<gr.nd[e.from].pos, gr.nd[e.to].pos>>,
                              !.len = Dist(gr.nd[e.from].pos, gr.nd[e.to].pos)]
    IN [gr EXCEPT !.edges = [k \in DOMAIN @ |-> Drawn(@[k])]]

delete_orphan_nodes(gr) ==
    Over(gr, LAMBDA h, n :
        IF Deg(h, n) = 0 /\ ~(SI(h, n) /\ h.nd[n].grp) THEN delNd(h, n) ELSE h)

frontHop(e) == IF e.rev THEN e.geom[Len(e.geom) - 1] ELSE e.geom[2]
backHop(e)  == IF e.rev THEN e.geom[2] ELSE e.geom[Len(e.geom) - 1]

\* Without the dead end at n two streets would meet in a full turn
keep_full_turn(gr, n) ==
    LET e == IF AdjListOut(gr, n) # <<>> THEN Head(AdjListOut(gr, n)) ELSE Head(AdjListIn(gr, n))
        other == getOtherNd(e, n)
        rest == SelectSeq(AdjListIn(gr, other) \o AdjListOut(gr, other), LAMBDA f : f.id # e.id)
        Hop(f) == IF f.to = other THEN backHop(f) ELSE frontHop(f)
    IN Deg(gr, other) = 3 /\ angSmaller(Hop(rest[1]), gr.nd[other].pos, Hop(rest[2]))

\* Three rounds, each takes the last edge of every dead end
delete_orphan_edges(gr) ==
    LET Round(h) == Over(h, LAMBDA k, n :
            IF Deg(k, n) = 1 /\ ~SI(k, n) /\ ~keep_full_turn(k, n) THEN delNd(k, n) ELSE k)
    IN Round(Round(Round(gr)))

\* Mutant: a one-way street is like a two-way street
similarButOneWay(a, b) ==
    a.lvl = b.lvl /\ a.lines = b.lines /\ ~a.restricted /\ ~b.restricted

are_edges_similar(a, b) ==
    /\ (a.oneWay = 0) = (b.oneWay = 0)
    /\ a.lvl = b.lvl /\ a.lines = b.lines
    /\ a.oneWay # 0 => a.from = b.to \/ a.to = b.from
    /\ ~a.restricted /\ ~b.restricted

\* Mutant: the first geometry is taken as it is drawn
mergeAsDrawn(a, b) ==
    LET n == IF a.from \in {b.from, b.to} THEN a.from ELSE a.to
    IN [a EXCEPT !.geom = @ \o (IF b.to = n THEN Reverse(b.geom) ELSE b.geom),
                 !.len = @ + b.len]

\* The payload of a, with the geometry and the length of b added
merge_edge_payload(a, b) ==
    LET n == IF a.from \in {b.from, b.to} THEN a.from ELSE a.to
        first == IF a.to = n THEN a.geom ELSE Reverse(a.geom)
        second == IF b.to = n THEN Reverse(b.geom) ELSE b.geom
    IN [a EXCEPT !.geom = first \o second, !.len = @ + b.len]

\* A node between two similar edges, where these are not the only way
collapseAt(gr, n) ==
    LET out == AdjListOut(gr, n)  in == AdjListIn(gr, n)
        ea == IF Len(in) = 2 THEN in[1] ELSE out[1]
        eb == CASE Len(out) = 2 -> out[2] [] Len(in) = 2 -> in[2] [] OTHER -> in[1]
        oa == getOtherNd(ea, n)  ob == getOtherNd(eb, n)
        joined == IF ea.oneWay # 0 /\ oa # ea.from
                  THEN addEdg(gr, ob, oa, merge_edge_payload(eb, ea))
                  ELSE addEdg(gr, oa, ob, merge_edge_payload(ea, eb))
    IN IF \/ Deg(gr, n) # 2 \/ SI(gr, n)
          \/ hasEdg(gr, oa, ob) \/ hasEdg(gr, ob, oa)
          \/ ~are_edges_similar(ea, eb)
       THEN gr
       ELSE delEdg(delEdg(joined, ea), eb)

collapse_edges(gr) == Over(gr, collapseAt)

\* Depth first from n: everything on the stack gets the component c
RECURSIVE visit(_, _, _)
visit(gr, stack, c) ==
    IF stack = <<>> THEN gr
    ELSE LET n == Head(stack)
             es == AdjListOut(gr, n) \o AdjListIn(gr, n)
             marked == [gr EXCEPT !.nd[n].comp = c,
                                  !.lvl[c] = Min({@} \cup {es[k].lvl : k \in DOMAIN es})]
             new == SelectSeq([k \in DOMAIN es |-> getOtherNd(es[k], n)],
                              LAMBDA m : marked.nd[m].comp = None)
         IN visit(marked, Reverse(new) \o Tail(stack), c)

\* Mutant: no new component after the first
write_componentsOne(gr) ==
    Over([gr EXCEPT !.lvl = <<7>>], LAMBDA h, n :
        IF h.nd[n].comp # None THEN h ELSE visit(h, <<n>>, 1))

\* lvl gives component::minEdgeLvl
write_components(gr) ==
    Over([gr EXCEPT !.lvl = <<>>], LAMBDA h, n :
        IF h.nd[n].comp # None THEN h
        ELSE visit([h EXCEPT !.lvl = Append(@, 7)], <<n>>, Len(h.lvl) + 1))

simplify_geometries(gr) ==
    [gr EXCEPT !.edges = [k \in DOMAIN @ |-> [@[k] EXCEPT !.geom = simplify(@)]]]

revCopy(e) ==
    [e EXCEPT !.rev = TRUE, !.oneWay = IF @ = 0 THEN 0 ELSE 3 - @]

\* The graph and the restrictor after every edge got its other direction
writeODirEdgs(gr, r) ==
    LET AtEdge(s, e) ==
          IF hasEdg(s.g, e.to, e.from) THEN s
          ELSE [g |-> addEdg(s.g, e.to, e.from, revCopy(e)),
                r |-> IF e.restricted THEN duplicate_edge(s.r, e, s.g.next) ELSE s.r]
    IN Fold(LAMBDA s, n : Fold(AtEdge, s, AdjListOut(s.g, n)),
                [g |-> gr, r |-> r], Nds(gr))

writeSelfEdgs(gr) ==
    Over(gr, LAMBDA h, n :
        IF SI(h, n) /\ AdjListOut(h, n) = <<>> THEN addEdg(h, n, n, edge_payload) ELSE h)

\* snap_station: the station si becomes a node on edge e, at the point p
splitEdge(gr, n, e, p, si) ==
    LET there == [gr EXCEPT !.nd = (n :> [pos |-> p, si |-> si, grp |-> TRUE,
                               blocker |-> FALSE, track |-> {}, comp |-> None]) @@ @]
        Part(a, b) == [e EXCEPT !.geom = <<there.nd[a].pos, there.nd[b].pos>>,
                                !.len = Dist(there.nd[a].pos, there.nd[b].pos)]
    IN addEdg(addEdg(there, e.from, n, Part(e.from, n)), n, e.to, Part(n, e.to))
-----------------------------------------------------------------------------
(* Actions.                                                                *)

Pass(p) == Passes[at] = p /\ at' = at + 1 /\ UNCHANGED <<down, snaps>>

FixGaps == Pass("gaps") /\ g' = fix_gaps(g) /\ UNCHANGED restor

WriteGeometries == Pass("geometries") /\ g' = write_geometries(g) /\ UNCHANGED restor

\* A stop of the feed within 2 meters of an end of an edge, without a station
SnapToNode ==
    /\ Passes[at] = "snap" /\ snaps < MaxSnaps
    /\ \E n \in DOMAIN g.nd :
         /\ ~SI(g, n) /\ Deg(g, n) > 0
         /\ g' = [g EXCEPT !.nd[n].si = "stop", !.nd[n].grp = TRUE]
    /\ snaps' = snaps + 1
    /\ UNCHANGED <<restor, down, at>>

\* ... between the ends of an edge
Between(p, q) ==
    {<<(p[1] + q[1]) \div 2, (p[2] + q[2]) \div 2>>} \ {p, q}

SnapToEdge ==
    /\ Passes[at] = "snap" /\ snaps < MaxSnaps
    /\ \E k \in DOMAIN g.edges : \E n \in {<<0, snaps + 1>>} :
         LET e == g.edges[k] IN
         \E p \in Between(g.nd[e.from].pos, g.nd[e.to].pos) :
           \E h \in {splitEdge(g, n, e, p, "stop")} :
             /\ g' = delEdg(h, e)
             /\ restor' = replace_edge(restor, e, getEdg(h, e.from, n), getEdg(h, n, e.to))
    /\ snaps' = snaps + 1
    /\ UNCHANGED <<down, at>>

SnapDone == Pass("snap") /\ UNCHANGED <<g, restor>>

DeleteOrphanNodes == Pass("orphan_nodes") /\ g' = delete_orphan_nodes(g) /\ UNCHANGED restor

DeleteOrphanEdges == Pass("orphan_edges") /\ g' = delete_orphan_edges(g) /\ UNCHANGED restor

CollapseEdges == Pass("collapse") /\ g' = collapse_edges(g) /\ UNCHANGED restor

WriteComponents == Pass("components") /\ g' = write_components(g) /\ UNCHANGED restor

SimplifyGeometries == Pass("simplify") /\ g' = simplify_geometries(g) /\ UNCHANGED restor

WriteODirEdgs ==
    /\ Pass("odir")
    /\ \E s \in {writeODirEdgs(g, restor)} : g' = s.g /\ restor' = s.r

WriteSelfEdgs == Pass("self") /\ g' = writeSelfEdgs(g) /\ UNCHANGED restor

GraphNext ==
    \/ FixGaps \/ WriteGeometries \/ SnapToNode \/ SnapToEdge \/ SnapDone
    \/ DeleteOrphanNodes \/ DeleteOrphanEdges \/ CollapseEdges
    \/ WriteComponents \/ SimplifyGeometries \/ WriteODirEdgs \/ WriteSelfEdgs
=============================================================================
