------------------------------ MODULE OsmRead -------------------------------
(***************************************************************************)
(* osm_builder::read and osm_builder::filter_write: the passes over an OSM *)
(* document that build the transport graph and the turn restrictions, or   *)
(* write a smaller document, followed by the passes of TrGraph.            *)
(*                                                                         *)
(* An id is a number, a tag a key with the set of values between its       *)
(* semicolons, a filter a set of rules [k, v, flags].  osm_id_set is a set *)
(* here (module IdSet is its contract), station groups a flag (module      *)
(* StationGroups).  osm_relation::keepFlags is not initialised, and read   *)
(* although nothing was assigned if the filters do not take the relation.  *)
(***************************************************************************)
EXTENDS TrGraph, BoundingBox

CONSTANTS
    Docs,        \* the documents, [nodes, ways, rels]
    Opts,        \* osm_read_options
    Filters,     \* the options -X is given, one for every configuration
    Boxes(_),    \* the boxes around the stops of a feed, sequences of them
    Padding,     \* of the boxes
    Norm(_)      \* the normalizers: what they make of a value

VARIABLES
    doc,        \* the document that is read
    tree,       \* bounding_box::_root
    boxes,      \* what was added to it
    bboxNodes, noHupNodes,   \* osm_id_sets
    flat,       \* flat_relations, by index
    rests,      \* restrictions, [pos, neg] of [via, from, to]
    etracks,    \* edge_tracks: [edge id -> track]
    out,        \* the document that filter_write wrote
    mode        \* "read", "filter", "written" or "died"

readVars == <<doc, tree, boxes, bboxNodes, noHupNodes, flat, rests, etracks, out, mode>>
vars == <<graphVars, readVars>>

-----------------------------------------------------------------------------
(* osm_filter.                                                             *)

valMatches(a, b, mult) == b = "*" \/ a = {b} \/ (mult /\ b \in a)

\* The rules that match, for entities of type t; contained returns the
\* flags of the first of them in the order of a hash table
contained(attrs, rules, t) ==
    {r \in rules : /\ r.k \in DOMAIN attrs /\ t \notin r.flags
                   /\ valMatches(attrs[r.k], r.v, "MULT_VAL_MATCH" \in r.flags)}

Keeps(o, attrs, t) == contained(attrs, o.keep, t) # {}
Drops(o, attrs, t) == contained(attrs, o.drop, t) # {}

oneway(o, attrs, rules) ==
    contained(attrs, o.twoWay, "NO_WAYS") = {} /\ contained(attrs, rules, "NO_WAYS") # {}

restricts(o, attrs, rules) ==
    contained(attrs, o.noRestr, "") = {} /\ contained(attrs, rules, "") # {}


\* The best matching level, 0 without one
level(o, attrs) ==
    LET hit == {l \in 0..7 : \E r \in o.levels[l + 1] :
                   r.k \in DOMAIN attrs /\ valMatches(attrs[r.k], r.v, FALSE)}
    IN IF hit = {} THEN 0 ELSE Min(hit)

\* merge: the rules to drop are left out; where two configurations have the
\* same rule with different flags, the first one stays
merge(fs) ==
    Fold(LAMBDA o, f :
        [o EXCEPT !.keep = @ \cup {r \in f.keep : ~ \E q \in @ : q.k = r.k /\ q.v = r.v}],
        [keep |-> {}, drop |-> {}], fs)

LOCAL Keys(rules) == {r.k : r \in rules}

\* Deep rules read the entity's own attribute, or one of a relation it is in
LOCAL OwnKeys(rules)  == {r.attr : r \in {q \in Range(rules) : q.relK = ""}}
LOCAL DeepKeys(rules) == UNION {{r.attr, r.relK} : r \in {q \in Range(rules) : q.relK # ""}}

\* The keys kept of nodes, ways and relations
get_kept_attribute_keys(o) ==
    LET all == Keys(o.keep \cup o.drop)
        ofNodes == o.group \o o.name \o o.platform \o o.id
    IN [nodes |-> all \cup Keys(o.noHup \cup o.station \cup o.blocker) \cup OwnKeys(ofNodes),
        ways  |-> all \cup Keys(o.oneWay \cup o.oneWayRev \cup o.twoWay)
                      \cup UNION {Keys(o.levels[l]) : l \in 1..7}
                      \cup OwnKeys(o.track) \cup {"maxspeed"},
        rels  |-> all \cup Keys(o.station \cup o.posRestr \cup o.negRestr \cup o.noRestr)
                      \cup Range(o.sName \o o.fromName \o o.toName)
                      \cup DeepKeys(ofNodes \o o.track) \cup {"from", "via", "to"}]

Only(attrs, keys) == [k \in DOMAIN attrs \cap keys |-> attrs[k]] @@ <<>>

\* string_to_kmh of <<class, number>>; stoi throws for anything it cannot read
string_to_kmh(v) ==
    LET c == v[1]  n == v[2]
        kmh == CASE c = "none" -> 150 [] c = "rural" -> 80 [] c = "urban" -> 50
                 [] c = "walk" -> 6 [] c = "mp" -> (n * 1609) \div 1000
                 [] c = "knots" -> (n * 1852) \div 1000 [] OTHER -> n
    IN IF kmh <= 0 THEN 50 ELSE kmh

Throws(v) == v[1] = "word"

-----------------------------------------------------------------------------
(* The passes over a document d, with options o and the kept keys ks.      *)

filter_nodes(d, tr) == {n.id : n \in {m \in Range(d.nodes) : tree_has(m.pos, tr)}}

nohup_nodes(d, rules, in) ==
    {n.id : n \in {m \in Range(d.nodes) : m.id \in in /\ contained(m.tags, rules, "") # {}}}

relAttrs(d, ks, i) == Only(d.rels[i].tags, ks.rels)

\* nodeRels and wayRels: the relations with a member, by index
relsOf(d, type, id) ==
    SelectSeq([i \in DOMAIN d.rels |-> i],
              LAMBDA i : \E m \in Range(d.rels[i].members) : m.type = type /\ m.ref = id)

\* keepFlags & REL_NO_DOWN: assigned only if the filters take the relation
mayBeFlat(d, o, ks, i) ==
    LET hit == contained(relAttrs(d, ks, i), o.keep, "NO_RELATIONS")
    IN IF hit # {} /\ ~Drops(o, relAttrs(d, ks, i), "NO_RELATIONS")
       THEN {("REL_NO_DOWN" \in r.flags) : r \in hit}
       ELSE BOOLEAN

\* read_restrictions for one kind of rule
read_restrictions(d, o, ks, kind) ==
    LET Members(i, type, role) ==
          SelectSeq(d.rels[i].members, LAMBDA m : m.type = type /\ m.role = role)
        isPos(i) == restricts(o, relAttrs(d, ks, i), o.posRestr)
        isNeg(i) == restricts(o, relAttrs(d, ks, i), o.negRestr)
        usable(i) ==
          /\ "type" \in DOMAIN relAttrs(d, ks, i) /\ relAttrs(d, ks, i)["type"] = {"restriction"}
          /\ IF kind = "pos" THEN isPos(i) ELSE isNeg(i) /\ ~isPos(i)
          /\ Len(Members(i, "way", "from")) = 1 /\ Len(Members(i, "way", "to")) = 1
          /\ Members(i, "node", "via") # <<>>
        rule(i) == [via  |-> Members(i, "node", "via")[1].ref,
                    from |-> Members(i, "way", "from")[1].ref,
                    to   |-> Members(i, "way", "to")[1].ref]
        is == SelectSeq([i \in DOMAIN d.rels |-> i], usable)
    IN [k \in DOMAIN is |-> rule(is[k])]

should_keep_relation(d, type, id, fl) == \E i \in Range(relsOf(d, type, id)) : i \notin fl

keep_way(d, w, o, ks, in, fl) ==
    LET attrs == Only(w.tags, ks.ways)
    IN /\ Len(w.nds) > 1
       /\ should_keep_relation(d, "way", w.id, fl) \/ Keeps(o, attrs, "NO_WAYS")
       /\ ~Drops(o, attrs, "NO_WAYS")
       /\ \E nid \in Range(w.nds) : nid \in in

\* get_attribute: "" where there is none
get_attribute(r, attrs, d, ks, is) ==
    LET fits == SelectSeq(is, LAMBDA i :
                  LET a == relAttrs(d, ks, i)
                  IN /\ r.relK \in DOMAIN a /\ valMatches(a[r.relK], r.relV, FALSE)
                     /\ r.attr \in DOMAIN a)
    IN IF r.relK = "" THEN IF r.attr \in DOMAIN attrs THEN attrs[r.attr] ELSE {}
       ELSE IF fits = <<>> THEN {} ELSE relAttrs(d, ks, fits[1])[r.attr]

getAttrMatchRanked(rules, attrs, d, ks, is) ==
    SelectSeq([k \in DOMAIN rules |-> Norm(get_attribute(rules[k], attrs, d, ks, is))],
              LAMBDA v : v # {})

getAttrByFirstMatch(rules, attrs, d, ks, is) ==
    LET all == getAttrMatchRanked(rules, attrs, d, ks, is)
    IN IF all = <<>> THEN {} ELSE all[1]

\* The lines of the relations is, the same line once
get_lines(d, o, ks, is) ==
    LET Part(keys, i) ==
          LET a == relAttrs(d, ks, i)
              vals == SelectSeq([k \in DOMAIN keys |->
                                   IF keys[k] \in DOMAIN a THEN Norm(a[keys[k]]) ELSE {}],
                                LAMBDA v : v # {})
          IN IF vals = <<>> THEN {} ELSE vals[1]
        line(i) == <<Part(o.sName, i), Part(o.fromName, i), Part(o.toName, i)>>
        named == SelectSeq(is, LAMBDA i : line(i) # <<{}, {}, {}>>)
    IN Fold(LAMBDA ls, i : IF line(i) \in Range(ls) THEN ls ELSE Append(ls, line(i)),
                <<>>, named)

\* process_restrictions at node n, for edge e of way wid: [r, e] changed
process_restrictions(rs, nid, wid, n, s) ==
    LET At(kind, t, x) ==
          IF x.via # nid \/ wid \notin {x.from, x.to} THEN t
          ELSE [r |-> IF x.from = wid THEN add(t.r, kind, t.e.id, x.to, n)
                                      ELSE relax(t.r, wid, n, t.e.id),
                e |-> [t.e EXCEPT !.restricted = TRUE]]
    IN Fold(LAMBDA t, x : At("neg", t, x),
                Fold(LAMBDA t, x : At("pos", t, x), s, rs.pos), rs.neg)

NewNode == [pos |-> <<0, 0>>, si |-> "", grp |-> FALSE, blocker |-> FALSE,
            track |-> {}, comp |-> None]

addNd(gr, n) == [gr EXCEPT !.nd = (n :> NewNode) @@ @]

\* The copies that were made of node nid where nothing may be joined
multNodes(gr, nid) == {n \in DOMAIN gr.nd : n[1] = nid /\ n[2] > 0}

\* One node of a way: s is [g, r, tr, last], last the node before it
wayNode(d, o, ks, w, in, nohup, rs, s, nid) ==
    LET attrs == Only(w.tags, ks.ways)
        is == relsOf(d, "way", w.id)
        n == IF nid \in nohup THEN <<nid, 1 + Cardinality(multNodes(s.g, nid))>> ELSE <<nid, 0>>
        withN == IF n \in DOMAIN s.g.nd THEN s.g ELSE addNd(s.g, n)
        linked == addEdg(withN, s.last, n, edge_payload)
        e == getEdg(linked, s.last, n)
        here == process_restrictions(rs, nid, w.id, n, [r |-> s.r, e |-> e])
        both == process_restrictions(rs, s.last[1], w.id, s.last, here)
        lines == SelectSeq(get_lines(d, o, ks, is), LAMBDA l : l \notin Range(e.lines))
        track == getAttrByFirstMatch(o.track, attrs, d, ks, is)
        written == [both.e EXCEPT
            !.lines = @ \o lines, !.lvl = level(o, attrs), !.way = w.id,
            !.speed = IF "maxspeed" \in DOMAIN attrs THEN string_to_kmh(attrs["maxspeed"]) ELSE 50,
            !.oneWay = IF oneway(o, attrs, o.oneWayRev) THEN 2
                       ELSE IF oneway(o, attrs, o.oneWay) THEN 1 ELSE @]
    IN IF nid \notin nohup /\ nid \notin in THEN s
       ELSE IF s.last = None THEN [s EXCEPT !.g = withN, !.last = n]
       ELSE [g |-> setPl(linked, written), r |-> both.r, last |-> n,
             tr |-> IF track = {} THEN s.tr ELSE (e.id :> track) @@ s.tr]

read_edges(d, o, ks, in, nohup, rs, fl) ==
    Fold(LAMBDA s, w :
        IF keep_way(d, w, o, ks, in, fl)
        THEN Fold(LAMBDA t, nid : wayNode(d, o, ks, w, in, nohup, rs, t, nid),
                      [s EXCEPT !.last = None], w.nds)
        ELSE s,
        [g |-> NoGraph, r |-> NoRules, tr |-> <<>>, last |-> None], d.ways)

\* read_edges ends with an exception
badSpeed(d, o, ks, in, fl) ==
    \E w \in Range(d.ways) :
        /\ keep_way(d, w, o, ks, in, fl)
        /\ Cardinality({k \in DOMAIN w.nds : w.nds[k] \in in}) > 1
        /\ "maxspeed" \in DOMAIN w.tags /\ Throws(w.tags["maxspeed"])

keep_node(d, m, o, ks, in, fl, used, mult) ==
    LET attrs == Only(m.tags, ks.nodes)
    IN /\ \/ m.id \in used \/ m.id \in mult
          \/ should_keep_relation(d, "node", m.id, fl) \/ Keeps(o, attrs, "NO_NODES")
       /\ m.id \in used \/ m.id \in in
       /\ m.id \in used \/ m.id \in mult \/ ~Drops(o, attrs, "NO_NODES")

\* The payload of a node: its place, the station it is, or a blocker
nodeRead(d, o, ks, m, nd) ==
    LET attrs == Only(m.tags, ks.nodes)
        is == relsOf(d, "node", m.id)
        names == getAttrMatchRanked(o.name, attrs, d, ks, is)
        placed == [nd EXCEPT !.pos = m.pos]
    IN IF contained(attrs, o.station, "NO_NODES") # {}
       THEN IF names = <<>> THEN placed
            ELSE [placed EXCEPT !.si = "osm",
                    !.track = getAttrByFirstMatch(o.platform, attrs, d, ks, is),
                    !.grp = \E r \in Range(o.group) : get_attribute(r, attrs, d, ks, is) # {}]
       ELSE [placed EXCEPT !.blocker = contained(attrs, o.blocker, "NO_NODES") # {}]

\* A station that no way touches becomes a node of its own
read_nodes(d, o, ks, in, fl, gr) ==
    LET used == {n[1] : n \in {x \in DOMAIN gr.nd : x[2] = 0}}
        mult == {n[1] : n \in {x \in DOMAIN gr.nd : x[2] > 0}}
        AtNode(h, m) ==
          IF ~keep_node(d, m, o, ks, in, fl, used, mult) THEN h
          ELSE IF m.id \in used \cup mult
          THEN [h EXCEPT !.nd = [n \in DOMAIN @ |->
                    IF n[1] = m.id THEN nodeRead(d, o, ks, m, @[n]) ELSE @[n]]]
          ELSE IF contained(Only(m.tags, ks.nodes), o.station, "NO_NODES") = {} THEN h
          ELSE [h EXCEPT !.nd = (<<m.id, -1>> :> nodeRead(d, o, ks, m, NewNode)) @@ @]
    IN Fold(AtNode, gr, d.nodes)

\* write_edge_tracks, over the edges in the order es
write_edge_tracks(gr, tr, es) ==
    LET Put(h, n, t) ==
          IF SI(h, n) /\ h.nd[n].track = {} THEN [h EXCEPT !.nd[n].track = t] ELSE h
        AtEdge(h, id) ==
          LET e == SelectInSeq(h.edges, LAMBDA x : x.id = id)
          IN Put(Put(h, h.edges[e].to, tr[id]), h.edges[e].from, tr[id])
    IN Fold(AtEdge, gr, es)

\* read_ways and the passes that write: what is left of the document.  Any
\* element with the id of a kept way is written as a way.
filter_write(d, o, ks, in, fl) ==
    LET kept == {w.id : w \in {x \in Range(d.ways) : keep_way(d, x, o, ks, in, fl)}}
        used == UNION {Range(w.nds) : w \in {x \in Range(d.ways) : x.id \in kept}}
        stays == SelectSeq(d.nodes, LAMBDA m : keep_node(d, m, o, ks, in, fl, used, {}))
        nodes == used \cup {stays[k].id : k \in DOMAIN stays}
        AsWay(x, nds) == [id |-> x.id, nds |-> nds, tags |-> Only(x.tags, ks.ways)]
        WithId(xs) == SelectSeq(xs, LAMBDA x : x.id \in kept)
        asWays(xs) == [k \in DOMAIN WithId(xs) |-> AsWay(WithId(xs)[k], <<>>)]
        Members(r) ==
          SelectSeq(r.members, LAMBDA m : m.type = "node" /\ m.ref \in nodes)
          \o SelectSeq(r.members, LAMBDA m : m.type = "way" /\ m.ref \in kept)
        rels == SelectSeq(d.rels, LAMBDA r : Members(r) # <<>>)
    IN [nodes |-> [k \in DOMAIN stays |->
                      [stays[k] EXCEPT !.tags = Only(@, ks.nodes)]],
        ways |-> asWays(d.nodes)
                 \o [k \in DOMAIN WithId(d.ways) |->
                       AsWay(WithId(d.ways)[k], WithId(d.ways)[k].nds)]
                 \o asWays(d.rels),
        rels |-> [k \in DOMAIN rels |->
                    [rels[k] EXCEPT !.tags = Only(@, ks.rels), !.members = Members(rels[k])]]]

-----------------------------------------------------------------------------
(* Actions.                                                                *)

\* The filter that applies and the attributes that are kept
Filter == IF mode = "filter" THEN merge(Filters) ELSE Opts

\* Mutant: the keys of nodes are kept of ways too
KeptMixed ==
    LET all == [k \in DOMAIN Filters |-> get_kept_attribute_keys(Filters[k])]
        OneOf(t) == UNION {all[k][t] : k \in DOMAIN all}
    IN IF mode = "read" THEN get_kept_attribute_keys(Opts)
       ELSE [nodes |-> OneOf("nodes"), ways |-> OneOf("nodes"), rels |-> OneOf("rels")]

Kept ==
    LET all == [k \in DOMAIN Filters |-> get_kept_attribute_keys(Filters[k])]
        OneOf(t) == UNION {all[k][t] : k \in DOMAIN all}
    IN IF mode = "read" THEN get_kept_attribute_keys(Opts)
       ELSE [nodes |-> OneOf("nodes"), ways |-> OneOf("ways"), rels |-> OneOf("rels")]

Init ==
    /\ doc \in Docs /\ mode \in {"read", "filter"} /\ down \in BOOLEAN
    /\ tree = NoBoxes /\ boxes = <<>>
    /\ g = NoGraph /\ restor = NoRules /\ snaps = 0 /\ at = 1
    /\ bboxNodes = {} /\ noHupNodes = {} /\ flat = {} /\ rests = [pos |-> <<>>, neg |-> <<>>]
    /\ etracks = <<>> /\ out = None

Reading(p) == mode \in {"read", "filter"} /\ Passes[at] = p

\* bounding_box::add, for the stops of the feed, before the document is read
AddBox ==
    /\ Reading("filter_nodes")
    /\ \E bs \in Boxes(doc) :
         /\ IsStrictPrefix(boxes, bs)
         /\ boxes' = SubSeq(bs, 1, Len(boxes) + 1)
         /\ tree' = add_to_tree(pad(boxes'[Len(boxes')], Padding), tree, 0)
    /\ UNCHANGED <<graphVars, doc, bboxNodes, noHupNodes, flat, rests, etracks, out, mode>>

NoArea ==
    /\ Reading("filter_nodes") /\ mode = "read" /\ boxes = <<>> /\ boxes \in Boxes(doc)
    /\ at' = Len(Passes)
    /\ UNCHANGED <<g, restor, down, snaps, readVars>>

FilterNodes ==
    /\ Reading("filter_nodes") /\ boxes \in Boxes(doc) /\ (mode = "read" => boxes # <<>>)
    /\ bboxNodes' = filter_nodes(doc, tree)
    /\ noHupNodes' = IF mode = "read" THEN nohup_nodes(doc, Opts.noHup, bboxNodes') ELSE {}
    /\ at' = at + 1
    /\ UNCHANGED <<g, restor, down, snaps, doc, tree, boxes, flat, rests, etracks, out, mode>>

ReadRelations ==
    /\ Reading("relations")
    /\ flat' \in {fl \in SUBSET DOMAIN doc.rels :
                    \A i \in DOMAIN doc.rels : (i \in fl) \in mayBeFlat(doc, Filter, Kept, i)}
    /\ rests' = IF mode = "filter" THEN rests
                ELSE [pos |-> read_restrictions(doc, Opts, Kept, "pos"),
                      neg |-> read_restrictions(doc, Opts, Kept, "neg")]
    /\ at' = at + 1
    /\ UNCHANGED <<g, restor, down, snaps, doc, tree, boxes, bboxNodes, noHupNodes,
                   etracks, out, mode>>

ReadEdges ==
    /\ Reading("edges") /\ mode = "read"
    /\ ~badSpeed(doc, Opts, Kept, bboxNodes, flat)
    /\ \E s \in {read_edges(doc, Opts, Kept, bboxNodes, noHupNodes, rests, flat)} :
         g' = s.g /\ restor' = s.r /\ etracks' = s.tr
    /\ at' = at + 1
    /\ UNCHANGED <<down, snaps, doc, tree, boxes, bboxNodes, noHupNodes, flat, rests, out, mode>>

\* Nobody catches what stoi throws
ReadDies ==
    /\ Reading("edges") /\ mode = "read"
    /\ badSpeed(doc, Opts, Kept, bboxNodes, flat)
    /\ mode' = "died"
    /\ UNCHANGED <<graphVars, doc, tree, boxes, bboxNodes, noHupNodes, flat, rests, etracks, out>>

\* The sets are given up with the block they are declared in
ReadNodes ==
    /\ Reading("nodes")
    /\ g' = read_nodes(doc, Opts, Kept, bboxNodes, flat, g)
    /\ at' = at + 1
    /\ UNCHANGED <<restor, down, snaps, readVars>>

WriteEdgeTracks ==
    /\ Reading("tracks")
    /\ \E es \in SetToSeqs(DOMAIN etracks) : g' = write_edge_tracks(g, etracks, es)
    /\ etracks' = <<>> /\ at' = at + 1
    /\ UNCHANGED <<restor, down, snaps, doc, tree, boxes, bboxNodes, noHupNodes, flat,
                   rests, out, mode>>

FilterWrite ==
    /\ Reading("edges") /\ mode = "filter"
    /\ out' = filter_write(doc, Filter, Kept, bboxNodes, flat)
    /\ mode' = "written"
    /\ UNCHANGED <<graphVars, doc, tree, boxes, bboxNodes, noHupNodes, flat, rests, etracks>>

Stopped == (mode \in {"died", "written"} \/ Passes[at] = "done") /\ UNCHANGED vars

Next ==
    \/ AddBox \/ NoArea \/ FilterNodes \/ ReadRelations \/ ReadEdges \/ ReadDies
    \/ ReadNodes \/ WriteEdgeTracks \/ FilterWrite
    \/ GraphNext /\ UNCHANGED readVars
    \/ Stopped

Spec == Init /\ [][Next]_vars
-----------------------------------------------------------------------------
(* Properties.                                                             *)

\* Every point within a box that was added is found in the tree, though
\* tree_has looks into one child only (bounding_box.cpp:86), and what the
\* tree finds is in a leaf, the boxes the Overpass query is written with
BoxesCovered ==
    \A x \in {doc.nodes[k].pos : k \in DOMAIN doc.nodes} :
        /\ (\E b \in Range(boxes) : contains(x, pad(b, Padding))) => tree_has(x, tree)
        /\ tree_has(x, tree) <=> \E b \in get_leafs_rec(tree) : contains(x, b)

\* All that is read of a document: the graph, the rules and the tracks
ReadOf(d, fl) ==
    LET ks == get_kept_attribute_keys(Opts)
        in == filter_nodes(d, tree)
        rs == [pos |-> read_restrictions(d, Opts, ks, "pos"),
               neg |-> read_restrictions(d, Opts, ks, "neg")]
        s == read_edges(d, Opts, ks, in, nohup_nodes(d, Opts.noHup, in), rs, fl)
    IN <<read_nodes(d, Opts, ks, in, fl, s.g), s.r, s.tr>>

\* The document -X writes for one configuration is read like the original
\* (README.md: it holds exactly the data needed), if a relation that no
\* rule takes has the same flag (osm_builder.cpp:1040) in every pass
FilteredFileSame ==
    mode = "written" /\ Filters = <<Opts>> =>
        LET ks == get_kept_attribute_keys(Opts)
            taken == {i \in DOMAIN doc.rels : Cardinality(mayBeFlat(doc, Opts, ks, i)) = 1}
            fl == (flat \ taken) \cup {i \in taken : TRUE \in mayBeFlat(doc, Opts, ks, i)}
        IN ReadOf(doc, fl) = ReadOf(out, {i \in DOMAIN out.rels :
                                \E j \in fl : doc.rels[j].id = out.rels[i].id})

Far == 1000

\* Driving distances from node s over arcs [from, to, len]
Distances(arcs, s) ==
    LET nds == {s} \cup {a.from : a \in arcs} \cup {a.to : a \in arcs}
        Better(f, k) == [n \in nds |-> Min({f[n]} \cup {f[a.from] + a.len :
                                              a \in {b \in arcs : b.to = n}})]
    IN Fold(Better, [n \in nds |-> IF n = s THEN 0 ELSE Far],
            [k \in 1..Cardinality(nds) |-> k])

\* Both directions of a street, as far as they may be driven
BothWays(m, n, len, ow) ==
    {[from |-> m, to |-> n, len |-> len] : x \in {1} \ {ow - 1}}
    \cup {[from |-> n, to |-> m, len |-> len] : x \in {1} \ {ow}}

\* The network as the document has it: the kept ways, joined at the nodes
\* they share (at a no-hup node every way for itself) and at ends that touch
DocArcs ==
    LET ks == get_kept_attribute_keys(Opts)
        pos == [id \in {m.id : m \in Range(doc.nodes)} |->
                  (CHOOSE m \in Range(doc.nodes) : m.id = id).pos]
        Name(w, k) == IF w.nds[k] \in noHupNodes THEN <<w.nds[k], w.id, k>> ELSE <<w.nds[k]>>
        Oneway(w) == IF oneway(Opts, w.tags, Opts.oneWayRev) THEN 2
                     ELSE IF oneway(Opts, w.tags, Opts.oneWay) THEN 1 ELSE 0
        inside(w) == {k \in DOMAIN w.nds : w.nds[k] \in bboxNodes}
        steps(w) == {<<k, l>> \in inside(w) \X inside(w) :
                        k < l /\ ~ \E j \in inside(w) : k < j /\ j < l}
        ways == {w \in Range(doc.ways) : keep_way(doc, w, Opts, ks, bboxNodes, flat)}
        streets == UNION {UNION {BothWays(Name(w, x[1]), Name(w, x[2]),
                              Dist(pos[w.nds[x[1]]], pos[w.nds[x[2]]]), Oneway(w)) :
                            x \in steps(w)} : w \in ways}
        beside(n) == {a.from : a \in {b \in streets : b.to = n}}
                     \cup {a.to : a \in {b \in streets : b.from = n}}
        ends == {n \in {a.from : a \in streets} \cup {a.to : a \in streets} :
                   Cardinality(beside(n)) = 1}
        gaps == {x \in ends \X ends : x[1] # x[2] /\ Dist(pos[x[1][1]], pos[x[2][1]]) <= 1}
    IN streets \cup {[from |-> x[1], to |-> x[2], len |-> Dist(pos[x[1][1]], pos[x[2][1]])] :
                       x \in gaps}

\* The network as the graph has it; once the other direction of every edge
\* was written, an edge is driven from its first node to its second only
GraphArcs ==
    LET Arcs(e) == BothWays(e.from, e.to, e.len, e.oneWay)
    IN UNION {IF at <= 16 THEN Arcs(g.edges[k])
              ELSE {a \in Arcs(g.edges[k]) : a.from = g.edges[k].from} : k \in DOMAIN g.edges}

LOCAL Shortest(arcs, from, to) ==
    Min({Far} \cup UNION {
        LET ds == Distances(arcs, s) IN {ds[n] : n \in {m \in DOMAIN ds : m[1] = to}} :
            s \in {m \in {a.from : a \in arcs} : m[1] = from}})

\* Whatever is moved, split, deleted, contracted or doubled: the stations
\* are as far apart as in the document, one-way streets respected
StationDistances ==
    mode = "read" /\ at >= 8 =>
        LET stations == {n[1] : n \in {m \in DOMAIN g.nd : g.nd[m].si = "osm"}}
        IN \E da \in {DocArcs} : \E ga \in {GraphArcs} :
             \A s, t \in stations : s # t =>
                 Shortest(da, s, t) = Shortest(ga, s, t)

\* Every turn restriction of the document holds for the edges that are left
\* of its ways, in the direction in which they are driven
RulesEnforced ==
    mode = "read" /\ Passes[at] = "done" =>
        LET Turns(x) == {<<e, f>> \in Range(g.edges) \X Range(g.edges) :
                           e.way = x.from /\ e.to[1] = x.via /\ f.from = e.to}
        IN /\ \A x \in Range(rests.neg) : \A t \in Turns(x) :
                t[2].way = x.to => ~may(restor, t[1].id, t[2].id, t[1].to)
           /\ \A x \in Range(rests.pos) : \A t \in Turns(x) :
                (\E u \in Turns(x) : u[2].way = x.to) =>
                    (may(restor, t[1].id, t[2].id, t[1].to) <=> t[2].way = x.to)

\* The geometry of an edge leads from its first node to its second, the
\* other way around for a reversed copy
GeometryJoinsEnds ==
    mode = "read" /\ at > 7 => \A k \in DOMAIN g.edges :
        LET e == g.edges[k]
            line == IF e.rev THEN Reverse(e.geom) ELSE e.geom
        IN e.from # e.to => /\ Head(line) = g.nd[e.from].pos
                            /\ line[Len(line)] = g.nd[e.to].pos

\* Nodes are in one component if there is a way between them, and the
\* component knows the best level of its edges
ComponentsExact ==
    mode = "read" /\ at > 14 =>
        LET arcs == UNION {{[from |-> e.from, to |-> e.to, len |-> 1],
                            [from |-> e.to, to |-> e.from, len |-> 1]} : e \in Range(g.edges)}
        IN \A n \in DOMAIN g.nd : \E ds \in {Distances(arcs, n)} :
             LET joined == {m \in DOMAIN ds : ds[m] < Far}
             IN /\ {m \in DOMAIN g.nd : g.nd[m].comp = g.nd[n].comp} = joined
                /\ g.lvl[g.nd[n].comp] =
                     Min({7} \cup {e.lvl : e \in {f \in Range(g.edges) :
                                       f.from \in joined /\ f.from # f.to}})
=============================================================================
