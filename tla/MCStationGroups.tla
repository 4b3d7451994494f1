-------------------------- MODULE MCStationGroups --------------------------
(* Ways with few nodes, room for orphan stations and for snapped nodes.    *)
EXTENDS StationGroups, TLC

\* Without import_osm_stations two way nodes, with it one of them
MCInputs == {<<FALSE, WayNodes>>} \cup {<<TRUE, {w}>> : w \in WayNodes}

Symmetry == Permutations(WayNodes) \cup Permutations(Stops)
=============================================================================
