----------------------------- MODULE MCOsmRead ------------------------------
(***************************************************************************)
(* Small documents.  Every street follows the grid; nodes are four apart   *)
(* unless two ends are meant to touch.                                     *)
(***************************************************************************)
EXTENDS OsmRead

R(k, v) == [k |-> k, v |-> v, flags |-> {}]
RF(k, v, f) == [k |-> k, v |-> v, flags |-> {f}]
Own(a) == [attr |-> a, relK |-> "", relV |-> ""]

MCOpts ==
    [keep |-> {R("rail", "main"), R("rail", "side"), R("stop", "yes"), R("route", "rail"),
               RF("type", "restriction", "REL_NO_DOWN")},
     drop |-> {R("abandoned", "yes")},
     noHup |-> {R("cross", "yes")},
     oneWay |-> {R("oneway", "yes")}, oneWayRev |-> {R("oneway", "-1")},
     twoWay |-> {R("twoway", "yes")},
     station |-> {R("stop", "yes")}, blocker |-> {R("barrier", "yes")},
     posRestr |-> {R("restriction", "only")}, negRestr |-> {R("restriction", "no")},
     noRestr |-> {RF("except", "rail", "MULT_VAL_MATCH")},
     levels |-> <<{R("rail", "main")}, {}, {R("rail", "side")}, {}, {}, {}, {}, {}>>,
     group |-> <<Own("name")>>, name |-> <<Own("name"), Own("alt")>>,
     platform |-> <<Own("ref")>>, id |-> <<Own("uic_ref")>>, track |-> <<Own("track")>>,
     sName |-> <<"line">>, fromName |-> <<"orig">>, toName |-> <<"dest">>]

MCFilters == <<MCOpts>>
MCNorm(v) == v

Tag(k, v) == k :> {v}
Main == Tag("rail", "main")
Side == Tag("rail", "side")
Plain == <<>>
Stop(name) == Tag("stop", "yes") @@ Tag("name", name)

Nd(id, x, y, tags) == [id |-> id, pos |-> <<x, y>>, tags |-> tags]
Way(id, nds, tags) == [id |-> id, nds |-> nds, tags |-> tags]
Rel(id, tags, ms) == [id |-> id, tags |-> tags, members |-> ms]
Mem(type, ref, role) == [type |-> type, ref |-> ref, role |-> role]
Doc(nodes, ways, rels) == [nodes |-> nodes, ways |-> ways, rels |-> rels]

\* A way drawn one way or the other
Drawn(id, nds, tags, rev) == Way(id, IF rev THEN Reverse(nds) ELSE nds, tags)

Restriction(kind, from, via, to) ==
    Rel(31, Tag("type", "restriction") @@ Tag("restriction", kind),
        <<Mem("way", from, "from"), Mem("node", via, "via"), Mem("way", to, "to")>>)

\* A junction at node 2 with a restricted turn, its ways drawn and read in
\* every order
Junctions ==
    {LET ws == <<Drawn(11, <<1, 2>>, Main, r[1]), Drawn(12, <<2, 3>>, Main, r[2]),
                 Drawn(13, <<2, 4>>, Main, FALSE)>>
     IN Doc(<<Nd(1, 0, 0, Stop("A")), Nd(2, 4, 0, Plain), Nd(3, 8, 0, Stop("B")),
              Nd(4, 4, 4, Stop("C"))>>,
            IF turned THEN Reverse(ws) ELSE ws, <<Restriction(kind, 11, 2, 12)>>) :
        r \in {<<TRUE, TRUE>>, <<FALSE, FALSE>>, <<TRUE, FALSE>>},
        turned \in BOOLEAN, kind \in {"no", "only"}}

\* A way that bends between two stations, a second one after it, and a dead
\* end; where the traffic is one way it goes from 1 to 4
Bends ==
    {Doc(<<Nd(1, 0, 0, Stop("A")), Nd(2, 4, 0, Plain), Nd(3, 4, 4, Plain),
           Nd(4, 8, 4, Stop("B")), Nd(5, 4, -4, Plain)>>,
         <<Drawn(11, <<1, 2, 3>>, Main @@ dirs[1], revs[1]),
           Drawn(12, <<3, 4>>, kind @@ dirs[2], revs[2])>>
         \o dead, <<>>) :
        kind \in {Main, Side},
        dead \in {<<>>, <<Way(13, <<2, 5>>, Main)>>},
        revs \in BOOLEAN \X BOOLEAN,
        dirs \in {<<Plain, Plain>>, <<Plain, Tag("oneway", "yes")>>}}
    \cup
    {Doc(<<Nd(1, 0, 0, Stop("A")), Nd(2, 4, 0, Plain), Nd(3, 4, 4, Plain),
           Nd(4, 8, 4, Stop("B"))>>,
         <<Drawn(11, <<1, 2, 3>>, Main @@ dirs[1], FALSE),
           Drawn(12, <<3, 4>>, Main @@ dirs[2], TRUE)>>, <<>>) :
        dirs \in {<<Tag("oneway", "yes"), Tag("oneway", "-1")>>,
                  <<Tag("oneway", "yes") @@ Tag("twoway", "yes"), Plain>>}}
    \cup
    {Doc(<<Nd(1, 0, 0, Stop("A")), Nd(2, 4, 0, Plain), Nd(3, 4, 4, Plain),
           Nd(4, 8, 4, Stop("B"))>>,
         <<Way(11, <<1, 2, 3>>, Main @@ Tag("oneway", "yes")),
           Way(12, <<3, 4>>, Main @@ Tag("oneway", "yes"))>>, <<>>)}

\* Two streets leave node 2 the same way, a dead end keeps them apart; one
\* that is longer is taken away in rounds
FullTurns ==
    {Doc(<<Nd(1, 0, 0, Stop("A")), Nd(2, 4, 0, Plain), Nd(3, 8, 0, Plain),
           Nd(4, 8, 4, Stop("B")), Nd(5, 4, 4, Plain), Nd(6, 4, 8, Plain)>>,
         <<Drawn(11, <<4, 3, 2>>, Main, FALSE), Way(12, <<1, 2>>, Main),
           Drawn(13, dead, Main, r)>>, <<>>) :
        r \in BOOLEAN, dead \in {<<2, 5>>, <<2, 5, 6>>}}
    \cup
    {Doc(<<Nd(1, 12, 0, Stop("A")), Nd(2, 4, 0, Plain), Nd(3, 8, 0, Stop("B")),
           Nd(4, 4, 4, Plain)>>,
         <<Drawn(11, <<1, 2>>, Main, r), Drawn(12, <<2, 3>>, Main, ~r),
           Way(13, <<2, 4>>, Main)>>, <<>>) : r \in BOOLEAN}

\* Ends that touch, of two-way streets and of a one-way street into the gap
Gaps ==
    {Doc(<<Nd(1, 0, 0, Stop("A")), Nd(2, 4, 0, Plain), Nd(3, 4, 0, mid),
           Nd(4, 8, 0, Stop("B"))>>,
         <<Drawn(11, <<1, 2>>, Main, r), Way(12, <<4, 3>>, Main @@ dir)>>, <<>>) :
        r \in BOOLEAN, mid \in {Plain, Stop("C")},
        dir \in {Plain, Tag("twoway", "yes") @@ Tag("oneway", "yes")}}
    \cup
    {Doc(<<Nd(1, 0, 0, Stop("A")), Nd(2, 4, 0, Plain), Nd(3, 4, 0, Plain),
           Nd(4, 8, 0, Stop("B")), Nd(5, 4, 0, Plain), Nd(6, 4, 4, Stop("C"))>>,
         <<Drawn(11, <<1, 2>>, Main, r), Way(12, <<4, 3>>, Main @@ Tag("oneway", "yes")),
           Drawn(13, <<5, 6>>, Main, r)>>, <<>>) : r \in BOOLEAN}

\* The same, but the one-way street leads out of the gap
MCOneWayOut ==
    {Doc(<<Nd(1, 0, 0, Stop("A")), Nd(2, 4, 0, Plain), Nd(3, 4, 0, Plain),
           Nd(4, 8, 0, Stop("B"))>>,
         <<Way(11, <<1, 2>>, Main), Way(12, <<3, 4>>, Main @@ Tag("oneway", "yes"))>>, <<>>)}

\* Ways that cross without a junction, a loop that must not be contracted
\* into a second edge, two parts of different levels
Shapes ==
    {Doc(<<Nd(1, 0, 4, Stop("A")), Nd(2, 4, 4, Tag("cross", "yes")), Nd(3, 8, 4, Stop("B")),
           Nd(4, 4, 0, Stop("C")), Nd(5, 4, 8, Stop("D"))>>,
         <<Way(11, <<1, 2, 3>>, Main), Drawn(12, <<4, 2, 5>>, Side, r)>>, <<>>) : r \in BOOLEAN}
    \cup
    {Doc(<<Nd(1, 0, 0, Stop("A")), Nd(2, 4, 0, Tag("barrier", "yes")), Nd(3, 4, 4, Plain),
           Nd(4, 0, 4, Plain), Nd(5, 0, 8, Stop("B"))>>,
         <<Drawn(11, <<1, 2, 3, 4, 1>>, Main, r), Way(12, <<4, 5>>, Side)>>, <<>>) : r \in BOOLEAN}
    \cup
    {Doc(<<Nd(1, 0, 0, Stop("A")), Nd(2, 4, 0, Stop("B")), Nd(3, 4, 4, Stop("C")),
           Nd(4, 8, 4, Stop("D")), Nd(5, 12, 4, Tag("stop", "yes"))>>,
         <<Way(11, <<1, 2>>, Side), Way(12, <<3, 4, 5>>, Main)>>, <<>>)}

\* Lines, tracks, ways of relations only, a relation no rule takes, a way to
\* drop, stations no way touches, a node with the id of a way, and a node
\* outside of the area
Relations ==
    {Doc(<<Nd(1, 0, 0, Stop("A")), Nd(2, 40, 0, Plain), Nd(3, 8, 0, Stop("B") @@ Tag("ref", "7")),
           Nd(4, 8, 4, Tag("stop", "yes") @@ Tag("alt", "C")), Nd(11, 0, 8, Stop("D"))>>,
         <<Way(11, <<1, 2, 3>>, Main @@ Tag("track", "2")), Way(12, <<3, 4>>, Plain),
           Way(13, <<1, 4>>, Main @@ more)>>,
         <<Rel(21, top @@ Tag("line", "1"),
               <<Mem("way", 12, ""), Mem("way", 11, ""), Mem("node", 4, "stop")>>)>>) :
        more \in {Tag("abandoned", "yes"), "maxspeed" :> <<"mp", 50>>},
        top \in {Tag("route", "rail"), Tag("site", "yes")}}
    \cup
    {Doc(<<Nd(1, 0, 0, Stop("A")), Nd(2, 4, 0, Stop("B"))>>,
         <<Way(11, <<1, 2>>, Main @@ ("maxspeed" :> <<"word", 0>>))>>, <<>>)}

\* No ways, but points to look up in the tree of boxes
Area ==
    Doc([k \in 1..16 |-> Nd(k, 3 * ((k - 1) \div 4), 3 * ((k - 1) % 4), Plain)], <<>>, <<>>)

\* Street networks of five ways and more on two by three nodes, the ways along the
\* grid all two-way or all one-way
Grids ==
    LET all == <<<<1, 2>>, <<3, 2>>, <<4, 5>>, <<6, 5>>, <<1, 4>>, <<2, 5>>, <<6, 3>>>>
    IN {Doc([k \in 1..6 |-> Nd(k, 4 * ((k - 1) % 3), 4 * ((k - 1) \div 3),
                                IF k \in {1, 6} THEN Stop("A") ELSE Plain)],
            SetToSeq({Way(10 + k, all[k], Main @@ dir) : k \in ks}), <<>>) :
          ks \in {x \in SUBSET (1..7) : Cardinality(x) >= 5},
          dir \in {Plain, Tag("oneway", "yes")}}

MCDocs == Grids \cup Junctions \cup Bends \cup FullTurns \cup Gaps \cup Shapes \cup Relations \cup {Area}

Corners == {Box(0, 0, 1, 1), Box(3, 0, 4, 4), Box(2, 3, 6, 4), Box(7, 0, 8, 8), Box(5, 5, 9, 9)}

MCBoxes(d) ==
    IF d = Area THEN UNION {[1..n -> Corners] : n \in 0..3}
    ELSE {<<Box(-2, -6, 14, 14)>>}
=============================================================================
