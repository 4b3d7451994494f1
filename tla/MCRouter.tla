------------------------------ MODULE MCRouter ------------------------------
(* A street with three stations, a side street against its direction, and  *)
(* a part of the graph that is not connected.                              *)
EXTENDS Router, TLC

CONSTANTS n1, n2, n3, n4, n5, n6, g1, g2, g3

Line(n) == [name |-> n, from |-> "", to |-> ""]
At(p, k, g) == [pos |-> p, comp |-> k, group |-> g]

MCNodeInfo ==
    n1 :> At(0, 1, g1) @@ n2 :> At(2, 1, g2) @@ n3 :> At(4, 1, g3) @@ n4 :> At(6, 1, g2)
    @@ n5 :> At(3, 2, None) @@ n6 :> At(5, 2, g1)

Road(m, n, len, way, lines) ==
    [from |-> m, to |-> n, len |-> len, level |-> 0, oneWay |-> way, lines |-> lines]

\* An edge is named by its ends
MCEdgeInfo ==
    <<n1, n2>> :> Road(n1, n2, 2, 0, {Line("1")}) @@ <<n2, n1>> :> Road(n2, n1, 2, 0, {Line("1")})
    @@ <<n2, n3>> :> Road(n2, n3, 2, 0, {}) @@ <<n3, n2>> :> Road(n3, n2, 2, 2, {})
    @@ <<n3, n4>> :> [Road(n3, n4, 2, 0, {Line("2")}) EXCEPT !.level = 1]
    @@ <<n4, n3>> :> Road(n4, n3, 2, 0, {})
    @@ <<n2, n4>> :> Road(n2, n4, 5, 1, {Line("1"), Line("2")}) @@ <<n4, n2>> :> Road(n4, n2, 5, 2, {})
    @@ <<n5, n6>> :> Road(n5, n6, 2, 0, {}) @@ <<n6, n5>> :> Road(n6, n5, 2, 0, {})

MCEdges == DOMAIN MCEdgeInfo
MCSharp == {<<<<n1, n2>>, <<n2, n4>>>>}
MCForbidden == {<<<<n2, n3>>, <<n3, n4>>>>}

MCOpts ==
    [levelPunish |-> <<1, 2, 3, 3, 3, 3, 3, 3>>, fullTurnPunishFac |-> 9, passThruStationsPunish |-> 4,
     oneWayPunishFac |-> 1, oneWayEdgePunish |-> 1, lineUnmatchedPunishThird |-> 1,
     noLinesPunishFact |-> 1, platformUnmatchedPen |-> 0, popReachEdge |-> TRUE,
     noSelfHops |-> TRUE, infinity |-> 10000]

Trip(how, name, groups) ==
    [how |-> how, attrs |-> [name |-> name, from |-> "", to |-> ""], route |-> groups,
     first |-> [k \in DOMAIN groups |-> CHOOSE n \in DOMAIN groups[k] : TRUE]]

\* A stop has all nodes of its group as candidates
AtG1 == n1 :> 0 @@ n6 :> 0
AtG2 == n2 :> 1 @@ n4 :> 0
AtG3 == n3 :> 0
Stops == {AtG1, AtG2, AtG3}
Routes == {<<p, q>> : p \in Stops, q \in Stops} \cup {<<AtG1, AtG3, AtG2>>, <<AtG3, AtG2, AtG1>>}
Before == {<<AtG1>>, <<AtG2, AtG1>>, <<AtG1, AtG3>>, <<AtG1, AtG2>>}

MCCalls ==
    {<<Trip("route", "1", r), Trip("route", n, s)>> : r \in Before, s \in Routes, n \in {"", "1"}}
    \cup {<<Trip(h, "", r)>> : h \in {"greedy", "greedy2"}, r \in Routes}
=============================================================================
