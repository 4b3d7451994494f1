--------------------------- MODULE MCShortestPath ---------------------------
(* All graphs of three nodes that are part of one with every kind of edge. *)
EXTENDS ShortestPath, TLC

CONSTANTS n1, n2, n3

\* Straight and longer edges, both directions, a loop
AllEdges == {<<n1, n2, 6>>, <<n2, n1, 6>>, <<n2, n3, 12>>, <<n3, n2, 15>>, <<n1, n3, 20>>,
             <<n2, n2, 1>>}

Graphs == {g \in SUBSET AllEdges : Cardinality(g) >= 3}
Few(S) == {s \in SUBSET S : Cardinality(s) \in 1..2}

\* With three targets the heuristic values of targets differ
Some(S) == {s \in SUBSET S : Cardinality(s) \in 1..3}

EdgeCall(g, mode, from, to, heur, enter, turn, inf) ==
    [algo |-> "edges", mode |-> mode, graph |-> g, from |-> from, to |-> to, pair |-> FALSE,
     args |-> <<"edge", "edge">>, heur |-> heur, enter |-> enter, turn |-> turn, inf |-> inf]

NodeCall(g, mode, from, to, heur, inf) ==
    [algo |-> "nodes", mode |-> mode, graph |-> g, from |-> from, to |-> to, pair |-> FALSE,
     args |-> <<"node", "node">>, heur |-> heur, enter |-> FALSE, turn |-> 0, inf |-> inf]

MCPos == n1 :> 0 @@ n2 :> 6 @@ n3 :> 18

Singles(S) == {{x} : x \in S}

MCCalls ==
    {
      {EdgeCall(g, "first", f, t, TRUE, FALSE, 20, inf) :
          f \in Few(g), t \in Some(g), inf \in {12, 90}}
      \cup {EdgeCall(g, "each", f, t, h, FALSE, 20, inf) :
          f \in Singles(g), t \in Some(g), h \in BOOLEAN, inf \in {12, 90}}
      \cup {EdgeCall(g, m, f, {}, FALSE, n, 7, 30) :
          m \in {"all", "rev"}, f \in Singles(g), n \in BOOLEAN}
      \cup {[EdgeCall(g, m, f, {}, FALSE, n, 7, 30) EXCEPT !.args = <<"node", "edge">>] :
          m \in {"all", "rev"}, f \in Singles(Nodes), n \in BOOLEAN}
      \cup {[EdgeCall(g, "first", f, t, FALSE, TRUE, 0, 90)
               EXCEPT !.pair = p, !.args = <<"node", "node">>] :
          f \in Singles(Nodes), t \in Singles(Nodes), p \in BOOLEAN}
      \cup {[EdgeCall(g, "first", f, t, TRUE, FALSE, 7, 90) EXCEPT !.args = <<"edge", "node">>] :
          f \in Singles(g), t \in Singles(Nodes)}
      \cup {NodeCall(g, "first", f, t, h, inf) :
          f \in Few(Nodes), t \in Some(Nodes), h \in BOOLEAN, inf \in {12, 90}}
      \cup {NodeCall(g, "each", f, t, h, 90) :
          f \in Singles(Nodes), t \in Some(Nodes), h \in BOOLEAN}
      : g \in Graphs}
=============================================================================
