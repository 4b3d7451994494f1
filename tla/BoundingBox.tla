---------------------------- MODULE BoundingBox ----------------------------
(***************************************************************************)
(* bounding_box, the "poor man's R-tree" of the area around the feed.  A   *)
(* node of the tree is [box, childs]; every box that is added goes down to *)
(* level MAX_LVL, growing the boxes on its way.                            *)
(***************************************************************************)
EXTENDS Geometry, SequencesExt

CONSTANT MaxLvl   \* MAX_LVL

ASSUME MaxLvlAssumption == MaxLvl \in Nat

\* minbox: no point is in it, and it vanishes in extendBox
minbox == Box(1000, 1000, -1000, -1000)

NoBoxes == [box |-> minbox, childs |-> <<>>]

\* add_to_tree: into the child with the largest common area, the first of
\* these; without one, into a new child
RECURSIVE add_to_tree(_, _, _)
add_to_tree(box, nd, lvl) ==
    LET grown == extendBox(box, nd.box)
        areas == [k \in DOMAIN nd.childs |-> commonArea(box, nd.childs[k].box)]
        most  == Max({0} \cup Range(areas))
        best  == Min({k \in DOMAIN areas : areas[k] = most})
    IN IF lvl = MaxLvl THEN [nd EXCEPT !.box = grown]
       ELSE IF most = 0
       THEN [box |-> grown,
             childs |-> Append(nd.childs,
                           add_to_tree(box, [box |-> box, childs |-> <<>>], lvl + 1))]
       ELSE [box |-> grown,
             childs |-> [nd.childs EXCEPT ![best] = add_to_tree(box, @, lvl + 1)]]

\* tree_has: looks only into the first child with the point in its box
RECURSIVE tree_has(_, _)
tree_has(p, nd) ==
    LET with == {k \in DOMAIN nd.childs : contains(p, nd.childs[k].box)}
    IN IF nd.childs = <<>> THEN contains(p, nd.box)
       ELSE with # {} /\ tree_has(p, nd.childs[Min(with)])

RECURSIVE get_leafs_rec(_)
get_leafs_rec(nd) ==
    IF nd.childs = <<>> THEN {nd.box}
    ELSE UNION {get_leafs_rec(nd.childs[k]) : k \in DOMAIN nd.childs}

=============================================================================
