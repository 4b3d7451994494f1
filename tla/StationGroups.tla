---------------------------- MODULE StationGroups ----------------------------
(***************************************************************************)
(* The station groups of the transport graph: osm_builder reads stations   *)
(* from OSM nodes, snaps orphan stations and the stops of the feed to the  *)
(* graph and merges the groups of whatever a stop was snapped to.  A group *)
(* is owned by the station_infos (SIs) that point to it, counted in        *)
(* station_info::_groups; the last one that leaves deletes it.  Later      *)
(* every stop has to find itself in the group of the node it was given.    *)
(*                                                                         *)
(* Geometry, names and penalties are abstracted to choices: which nodes a  *)
(* station is snapped to, which group an OSM station matches, which node   *)
(* is the first of a set ordered by address.  A node with a blocker in     *)
(* place of an SI has none (get_si() is null).                             *)
(***************************************************************************)
EXTENDS Integers, FiniteSets

CONSTANTS
    WayNodes,    \* nodes of the graph that lie on ways
    NewNodes,    \* addresses for further nodes, naturals
    Groups,      \* addresses for station groups, naturals
    Stops,       \* keys of feed_stops
    NumDist,     \* the number of maxSnapDistances
    MaxPlaced,   \* bound: the last new node that OSM or a split edge may use
    Inputs,      \* import_osm_stations, and the way nodes that were read
    NoSI, NoGroup, NoNode, NoStop

Nodes == WayNodes \cup NewNodes

ASSUME PoolAssumption ==
    /\ NewNodes \subseteq Nat /\ Groups \subseteq Nat
    /\ WayNodes \cap NewNodes = {} /\ NoNode \notin Nodes
    /\ IsFiniteSet(Nodes)
    /\ NoSI \notin Groups /\ NoGroup \notin Groups /\ NoSI # NoGroup
    /\ NoStop \notin Stops
    /\ NumDist \in Nat \ {0}
    /\ MaxPlaced \in Nat
    /\ Inputs \subseteq BOOLEAN \X SUBSET WayNodes

VARIABLES
    import,    \* import_osm_stations
    si,        \* the group the SI of a node points to; NoGroup, or NoSI
    refs,      \* station_info::_groups
    nodesOf,   \* station_group::_nodes
    stopsOf,   \* station_group::_stops
    linked,    \* nodes with edges
    sng,       \* nodes in the grid of stations
    orphans,   \* orphan_stations
    fs,        \* feed_stops: the node of each stop
    phase,     \* the loop that runs
    todo,      \* what the loop has not visited
    notSnapped, \* not_snapped
    step,      \* where snap_station and group_stats are
    item,      \* the stop or orphan station being snapped
    dist,      \* the index of the snap distance
    pl,        \* the group of the SI of the payload pl
    hasBest,   \* import found a station near pl
    snapped,   \* snapped
    r,         \* the nodes snap_station returned
    grp,       \* ret of group_stats
    leaked,    \* SIs that nothing points to any more, by their group
    pens       \* station_group::_stopNodePens: the stops with penalties

heap == <<si, refs, nodesOf, stopsOf, leaked>>
loop == <<phase, todo, notSnapped, item, dist, snapped>>
vars == <<import, heap, linked, sng, orphans, fs, loop, step, pl, hasBest, r,
          grp, pens>>

-----------------------------------------------------------------------------
(* SIs and groups.                                                         *)

\* Mutant: a second SI does not count
RetainOnce(rf, g) == IF g = NoGroup THEN rf ELSE [rf EXCEPT ![g] = 1]

\* One SI more, one SI fewer that points to g
Retain(rf, g) == IF g = NoGroup THEN rf ELSE [rf EXCEPT ![g] = @ + 1]

Release(rf, g) == IF g = NoGroup THEN rf ELSE [rf EXCEPT ![g] = @ - 1]

\* Mutant: no delete
NeverDeleted(contents, rf, new) == contents

\* The contents of the groups once those without references are deleted; a
\* group that has not been referenced yet is kept
Surviving(contents, rf, new) ==
    [g \in Groups |-> IF rf[g] = 0 /\ g # new THEN {} ELSE contents[g]]

\* operator new returns the first free address: one that was freed comes
\* back at once
IsFresh(g) ==
    /\ refs[g] = 0
    /\ \A h \in Groups : h < g => refs[h] # 0

HasSI(n) == si[n] # NoSI

\* g.addNd: the next node
IsNewNode(n) == n \in NewNodes /\ ~HasSI(n) /\ \A m \in NewNodes : m < n => HasSI(m)

Stations == {n \in Nodes : HasSI(n)}

AddNode(g, n) == [nodesOf EXCEPT ![g] = @ \cup {n}]

-----------------------------------------------------------------------------
Init ==
    /\ \E input \in Inputs : import = input[1] /\ linked = input[2]
    /\ si = [n \in Nodes |-> NoSI]
    /\ refs = [g \in Groups |-> 0]
    /\ nodesOf = [g \in Groups |-> {}] /\ stopsOf = [g \in Groups |-> {}]
    /\ sng = {} /\ orphans = {}
    /\ fs = [s \in Stops |-> NoNode]
    /\ phase = "read" /\ todo = {} /\ notSnapped = {}
    /\ step = "pick" /\ item = NoStop /\ dist = 0
    /\ pl = NoGroup /\ hasBest = FALSE /\ snapped = FALSE
    /\ r = {} /\ grp = NoGroup
    /\ leaked = [g \in Groups |-> 0]
    /\ pens = [g \in Groups |-> {}]

(***************************************************************************)
(* read_nodes: a station gets an SI without a group, with the group of a   *)
(* station near it, or with a new group.  Nodes that are not visited are   *)
(* no stations or have no name.                                            *)
(***************************************************************************)
ReadStation(n, g) ==
    /\ phase = "read"
    /\ n \in linked \/ (IsNewNode(n) /\ n <= MaxPlaced)
    /\ ~HasSI(n)
    /\ si' = [si EXCEPT ![n] = g]
    /\ refs' = Retain(refs, g)
    /\ nodesOf' = IF g = NoGroup THEN nodesOf ELSE AddNode(g, n)
    /\ orphans' = IF n \in NewNodes THEN orphans \cup {n} ELSE orphans
    /\ UNCHANGED <<import, stopsOf, leaked, linked, sng, fs, loop, step, pl,
                   hasBest, r, grp, pens>>

ReadUngrouped(n) == ReadStation(n, NoGroup)

ReadIntoGroup(n) == \E g \in Groups : nodesOf[g] # {} /\ ReadStation(n, g)

ReadIntoNewGroup(n) == \E g \in Groups : IsFresh(g) /\ ReadStation(n, g)

\* The grid of stations is built and the loop over the orphans begins
StartSnapping ==
    /\ phase = "read"
    /\ phase' = "orphans" /\ dist' = 1
    /\ todo' = orphans
    /\ sng' = Stations
    /\ UNCHANGED <<import, heap, linked, orphans, fs, notSnapped, item, snapped,
                   step, pl, hasBest, r, grp, pens>>

-----------------------------------------------------------------------------
(* The loops of snap_stations.                                             *)

\* One orphan station at one distance: pl is a copy of its payload
SnapOrphan(n) ==
    /\ phase = "orphans" /\ step = "pick" /\ n \in todo
    /\ todo' = todo \ {n}
    /\ pl' = si[n]
    /\ refs' = Retain(refs, si[n])
    /\ item' = NoStop /\ hasBest' = FALSE
    /\ step' = "import"
    /\ UNCHANGED <<import, si, nodesOf, stopsOf, leaked, linked, sng, orphans,
                   fs, phase, notSnapped, dist, snapped, r, grp, pens>>

NextDistance ==
    /\ phase = "orphans" /\ step = "pick" /\ todo = {} /\ dist < NumDist
    /\ dist' = dist + 1
    /\ todo' = orphans
    /\ UNCHANGED <<import, heap, linked, sng, orphans, fs, phase, notSnapped,
                   item, snapped, step, pl, hasBest, r, grp, pens>>

StartStops ==
    /\ phase = "orphans" /\ step = "pick" /\ todo = {} /\ dist = NumDist
    /\ phase' = "stops"
    /\ todo' = Stops
    /\ UNCHANGED <<import, heap, linked, sng, orphans, fs, notSnapped, item,
                   dist, snapped, step, pl, hasBest, r, grp, pens>>

\* payload_from_gtfs: an SI without a group
SnapStop(s) ==
    /\ phase \in {"stops", "retry"} /\ step = "pick" /\ s \in todo
    /\ todo' = todo \ {s}
    /\ item' = s /\ dist' = 1 /\ snapped' = FALSE
    /\ pl' = NoGroup /\ hasBest' = FALSE
    /\ step' = "import"
    /\ UNCHANGED <<import, heap, linked, sng, orphans, fs, phase, notSnapped,
                   r, grp, pens>>

StartRetry ==
    /\ phase = "stops" /\ step = "pick" /\ todo = {}
    /\ phase' = "retry"
    /\ todo' = notSnapped
    /\ UNCHANGED <<import, heap, linked, sng, orphans, fs, notSnapped, item,
                   dist, snapped, step, pl, hasBest, r, grp, pens>>

-----------------------------------------------------------------------------
(* snap_station.                                                           *)

\* Nothing to import: the mode is off, or no station is near.  After a hit
\* the station of the first hit, or the node placed at pl, is near.
NoImport ==
    /\ step = "import"
    /\ ~import \/ ~hasBest
    /\ step' = "snap"
    /\ r' = {}
    /\ UNCHANGED <<import, heap, linked, sng, orphans, fs, loop, pl, hasBest,
                   grp, pens>>

\* pl takes a copy of the SI of a station nearby.  set_si does not delete
\* the old SI: its reference to a group is never released.
ImportStation(n) ==
    /\ step = "import" /\ import
    /\ n \in sng
    /\ pl' = si[n]
    /\ leaked' = Retain(leaked, pl)
    /\ refs' = Retain(refs, si[n])
    /\ hasBest' = TRUE
    /\ step' = "snap"
    /\ r' = {}
    /\ UNCHANGED <<import, si, nodesOf, stopsOf, linked, sng, orphans, fs, loop,
                   grp, pens>>

\* Node n becomes a station with a copy of the SI of pl and joins its group
Placed(n) ==
    /\ si' = [si EXCEPT ![n] = pl]
    /\ refs' = Retain(refs, pl)
    /\ nodesOf' = IF pl = NoGroup THEN nodesOf ELSE AddNode(pl, n)
    /\ r' = r \cup {n}
    /\ UNCHANGED <<import, stopsOf, leaked, orphans, fs, loop, step, pl,
                   hasBest, grp, pens>>

\* At the end of a way
SnapToEnd(n) ==
    /\ step = "snap"
    /\ n \in linked /\ ~HasSI(n)
    /\ Placed(n)
    /\ UNCHANGED <<linked, sng>>

\* Between the ends: the edge is split
SnapToEdge(n) ==
    /\ step = "snap"
    /\ IsNewNode(n) /\ n <= MaxPlaced
    /\ Placed(n)
    /\ linked' = linked \cup {n}
    /\ sng' = sng \cup {n}

\* To a station that is there already
SnapToStation(n) ==
    /\ step = "snap"
    /\ n \in (linked \cap Stations) \ r
    /\ r' = r \cup {n}
    /\ UNCHANGED <<import, heap, linked, sng, orphans, fs, loop, step, pl,
                   hasBest, grp, pens>>

-----------------------------------------------------------------------------
(* group_stats, which empties r here.                                      *)

\* No edge candidate is left; without any node there is no group
NothingFound ==
    /\ step = "snap" /\ r = {}
    /\ grp' = NoGroup
    /\ step' = "assign"
    /\ UNCHANGED <<import, heap, linked, sng, orphans, fs, loop, pl, hasBest, r,
                   pens>>

NewGroup ==
    /\ step = "snap" /\ r # {}
    /\ \E g \in Groups : IsFresh(g) /\ grp' = g
    /\ step' = "group"
    /\ UNCHANGED <<import, heap, linked, sng, orphans, fs, loop, pl, hasBest, r,
                   pens>>

\* set_group(grp) for the SIs of the nodes ns: their references change hands
MovedRefs(ns) ==
    [g \in Groups |->
        IF g = grp THEN refs[g] + Cardinality({n \in ns : si[n] # grp})
                   ELSE refs[g] - Cardinality({n \in ns : si[n] = g})]

\* Mutant: only the node that was snapped to changes its group
OnlyTheNode(n) == {n}

\* The nodes that change their group together with n
MergedNodes(n) == nodesOf[si[n]]

\* Mutant: the stops stay behind
StopsLeftBehind(other) == stopsOf

\* The stops of a group go with its nodes
MergedStops(other) == [stopsOf EXCEPT ![grp] = @ \cup stopsOf[other]]

MoveNodes(ns, stops) ==
    /\ si' = [n \in Nodes |-> IF n \in ns THEN grp ELSE si[n]]
    /\ refs' = MovedRefs(ns)
    /\ nodesOf' = Surviving([nodesOf EXCEPT ![grp] = @ \cup ns], refs', grp)
    /\ stopsOf' = Surviving(stops, refs', grp)

\* A node without a group joins the new one; a node with a group brings it
\* along: merge() copies the sets of the other group before that is deleted
GroupNode(n) ==
    /\ step = "group" /\ n \in r
    /\ \/ si[n] = NoGroup /\ MoveNodes({n}, stopsOf)
       \/ si[n] \in Groups \ {grp} /\ MoveNodes(MergedNodes(n), MergedStops(si[n]))
       \/ si[n] = grp /\ UNCHANGED <<si, refs, nodesOf, stopsOf>>
    /\ r' = r \ {n}
    /\ UNCHANGED <<import, leaked, linked, sng, orphans, fs, loop, step, pl,
                   hasBest, grp, pens>>

Grouped ==
    /\ step = "group" /\ r = {}
    /\ step' = "assign"
    /\ UNCHANGED <<import, heap, linked, sng, orphans, fs, loop, pl, hasBest, r,
                   grp, pens>>

-----------------------------------------------------------------------------
(* Back in the loops: what is done with the group.                         *)

\* An orphan's group needs no stop; pl is destroyed
OrphanSnapped ==
    /\ phase = "orphans" /\ step = "assign"
    /\ refs' = Release(refs, pl)
    /\ nodesOf' = Surviving(nodesOf, refs', NoGroup)
    /\ stopsOf' = Surviving(stopsOf, refs', NoGroup)
    /\ pl' = NoGroup /\ hasBest' = FALSE /\ grp' = NoGroup
    /\ step' = "pick"
    /\ UNCHANGED <<import, si, leaked, linked, sng, orphans, fs, loop, r, pens>>

\* The stop joins the group and gets the first of its nodes
StopGrouped ==
    /\ phase \in {"stops", "retry"} /\ step = "assign" /\ grp # NoGroup
    /\ stopsOf' = [stopsOf EXCEPT ![grp] = @ \cup {item}]
    /\ \E n \in nodesOf[grp] : fs' = [fs EXCEPT ![item] = n]
    /\ snapped' = TRUE
    /\ grp' = NoGroup
    /\ step' = "next"
    /\ UNCHANGED <<import, si, refs, nodesOf, leaked, linked, sng, orphans,
                   phase, todo, notSnapped, item, dist, pl, hasBest, r, pens>>

StopNotGrouped ==
    /\ phase \in {"stops", "retry"} /\ step = "assign" /\ grp = NoGroup
    /\ step' = "next"
    /\ UNCHANGED <<import, heap, linked, sng, orphans, fs, loop, pl, hasBest, r,
                   grp, pens>>

\* The same payload is snapped again at the next distance
StopAtNextDistance ==
    /\ step = "next" /\ dist < NumDist
    /\ dist' = dist + 1
    /\ step' = "import"
    /\ UNCHANGED <<import, heap, linked, sng, orphans, fs, phase, todo,
                   notSnapped, item, snapped, pl, hasBest, r, grp, pens>>

\* The end of a stop's turn: pl and the other local variables are destroyed
TurnEnds ==
    /\ pl' = NoGroup /\ hasBest' = FALSE
    /\ item' = NoStop /\ snapped' = FALSE
    /\ step' = "pick"
    /\ UNCHANGED <<import, leaked, linked, sng, orphans, phase, todo, dist, r,
                   grp, pens>>

\* Mutant: a stop that was not snapped is forgotten
Forgotten == notSnapped

\* not_snapped.push_back
ToRetry == IF snapped THEN notSnapped ELSE notSnapped \cup {item}

StopDone ==
    /\ step = "next" /\ dist = NumDist /\ (snapped \/ phase = "stops")
    /\ notSnapped' = ToRetry
    /\ refs' = Release(refs, pl)
    /\ nodesOf' = Surviving(nodesOf, refs', NoGroup)
    /\ stopsOf' = Surviving(stopsOf, refs', NoGroup)
    /\ TurnEnds
    /\ UNCHANGED <<si, fs>>

\* "finally give up": a node of its own and a group of its own
GiveUp ==
    /\ step = "next" /\ dist = NumDist /\ ~snapped /\ phase = "retry"
    /\ \E n \in NewNodes, g \in Groups :
        /\ IsNewNode(n) /\ IsFresh(g)
        /\ si' = [si EXCEPT ![n] = g]
        /\ refs' = Release(Retain(refs, g), pl)
        /\ nodesOf' = Surviving(AddNode(g, n), refs', NoGroup)
        /\ stopsOf' = Surviving([stopsOf EXCEPT ![g] = @ \cup {item}], refs', NoGroup)
        /\ fs' = [fs EXCEPT ![item] = n]
    /\ TurnEnds
    /\ UNCHANGED notSnapped

-----------------------------------------------------------------------------
(* app::run writes the penalties of the stops' groups.                     *)

StartPenalties ==
    /\ phase = "retry" /\ step = "pick" /\ todo = {}
    /\ phase' = "penalties"
    /\ todo' = Stops
    /\ UNCHANGED <<import, heap, linked, sng, orphans, fs, notSnapped, item,
                   dist, snapped, step, pl, hasBest, r, grp, pens>>

\* write_penalties of a group returns at once if it was called before
WritePenalties(s) ==
    /\ phase = "penalties" /\ s \in todo
    /\ todo' = todo \ {s}
    /\ LET g == si[fs[s]]
       IN  pens' = IF pens[g] = {} THEN [pens EXCEPT ![g] = stopsOf[g]] ELSE pens
    /\ UNCHANGED <<import, heap, linked, sng, orphans, fs, phase, notSnapped,
                   item, dist, snapped, step, pl, hasBest, r, grp>>

Finished == phase = "penalties" /\ todo = {} /\ UNCHANGED vars

Reading ==
    \/ \E n \in Nodes : ReadUngrouped(n) \/ ReadIntoGroup(n) \/ ReadIntoNewGroup(n)
    \/ StartSnapping

Snapping ==
    \/ NoImport
    \/ \E n \in Nodes : \/ ImportStation(n)
                        \/ SnapToEnd(n) \/ SnapToEdge(n) \/ SnapToStation(n)
    \/ NothingFound \/ NewGroup
    \/ \E n \in Nodes : GroupNode(n)
    \/ Grouped

Looping ==
    \/ \E n \in Nodes : SnapOrphan(n)
    \/ NextDistance \/ StartStops
    \/ \E s \in Stops : SnapStop(s)
    \/ StartRetry
    \/ OrphanSnapped \/ StopGrouped \/ StopNotGrouped \/ StopAtNextDistance
    \/ StopDone \/ GiveUp

Next ==
    \/ Reading \/ Snapping \/ Looping
    \/ StartPenalties
    \/ \E s \in Stops : WritePenalties(s)
    \/ Finished

Spec == Init /\ [][Next]_vars

-----------------------------------------------------------------------------
(* Properties.                                                             *)

TypeOK ==
    /\ import \in BOOLEAN
    /\ si \in [Nodes -> Groups \cup {NoGroup, NoSI}]
    /\ refs \in [Groups -> Nat] /\ leaked \in [Groups -> Nat]
    /\ nodesOf \in [Groups -> SUBSET Nodes] /\ stopsOf \in [Groups -> SUBSET Stops]
    /\ linked \subseteq Nodes /\ sng \subseteq Stations /\ orphans \subseteq Stations
    /\ fs \in [Stops -> Nodes \cup {NoNode}]
    /\ phase \in {"read", "orphans", "stops", "retry", "penalties"}
    /\ todo \subseteq Nodes \cup Stops /\ notSnapped \subseteq Stops
    /\ step \in {"pick", "import", "snap", "group", "assign", "next"}
    /\ item \in Stops \cup {NoStop} /\ dist \in 0..NumDist
    /\ pl \in Groups \cup {NoGroup} /\ grp \in Groups \cup {NoGroup}
    /\ hasBest \in BOOLEAN /\ snapped \in BOOLEAN
    /\ r \subseteq Stations
    /\ pens \in [Groups -> SUBSET Stops]

\* Every count in _groups is the number of SIs that point to the group: the
\* nodes', that of pl and those lost in set_si.  So no SI points to a deleted
\* group, and only a lost SI can keep one alive for ever.
RefsExact ==
    \A g \in Groups :
        refs[g] = Cardinality({n \in Nodes : si[n] = g}) + leaked[g]
                  + (IF pl = g THEN 1 ELSE 0)

\* The nodes of a group that some node is in all point back to it, and every
\* node with a group is listed there: merge() may rely on the SIs of a
\* group's nodes.  (A group held by pl or a lost SI only may be out of date.)
GroupsConsistent ==
    \A n \in Nodes : si[n] \in Groups =>
        n \in nodesOf[si[n]] /\ \A m \in nodesOf[si[n]] : si[m] = si[n]

\* station_group.h: "All nodes in other will be in this group, their SI's
\* updated, and the "other" group deleted": between two stations no group is
\* left that lists nodes of which none is in it.  (With import_osm_stations a
\* lost SI keeps its group alive, so this is about runs without.)
MergedGroupsDeleted ==
    ~import /\ step = "pick" =>
        \A g \in Groups : nodesOf[g] # {} => \E n \in Nodes : si[n] = g

\* A stop that was given a node is a stop of that node's group, however
\* often the groups have been merged since: the key of
\* station_group::get_node_candidates.
StopsResolve ==
    \A s \in Stops : fs[s] # NoNode =>
        si[fs[s]] \in Groups /\ s \in stopsOf[si[fs[s]]]

\* When the penalties are written every stop has candidates: a group that is
\* written once, for all its stops
CandidatesFound ==
    phase = "penalties" =>
        \A s \in Stops :
            /\ fs[s] # NoNode
            /\ s \notin todo => s \in pens[si[fs[s]]]
=============================================================================
