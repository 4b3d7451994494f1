------------------------------ MODULE MCConfig ------------------------------
(* All lines of up to three requests over one configuration file, and a    *)
(* few lines over files whose blocks refine each other.                    *)
EXTENDS Config, TLC

Requested ==
    {Ask(None, "word", "feed1"), Ask("i", "long", "feed2"), Ask("D", "short", None),
     Ask("D", "long", None), Ask("inplace", "long", None), Ask("m", "short", "bus, 2"),
     Ask("m", "long", "9999"), Ask("x", "short", "osm"), Ask("x", "long", "osm2"),
     Ask("c", "short", "cwd"), Ask("c", "long", "nowhere"), Ask("v", "long", None),
     Ask("a", "short", None), Ask("a", "long", None)}

MCNamesIn == "bus, 2" :> <<"bus", "2">> @@ "9999" :> <<"9999">>
MCCodeOf == "2" :> 2 @@ "3" :> 3 @@ "9999" :> 9999

Block(names, kvs) == [names |-> names, kvs |-> kvs]

Rule(v, flags) == [k |-> "way", v |-> v, flags |-> flags]

Base == Block({"", "tram", "bus", "rail"},
              "routing_lvl1_fac" :> 100 @@ "osm_filter_keep" :> <<Rule("a", {})>>)

\* Values that differ, that say the default or name a rule twice, that are
\* nearly the same, that are not compared, unknown, or malformed
Values ==
    {"routing_lvl1_fac" :> 200, "routing_full_turn_angle" :> 500,
     "osm_filter_keep" :> <<Rule("a", {"unheard_of"})>>,
     "osm_filter_keep" :> <<Rule("a", {}), Rule("a", {"rel_flat"})>>,
     "osm_filter_keep" :> <<Rule("a", {"rel_flat"}), Rule("a", {})>>,
     "osm_max_snap_distance" :> <<5000, Malformed>>,
     "osm_max_snap_distance" :> <<5008>>,
     "osm_max_snap_distance" :> <<5000>> @@ "osm_max_snap_level" :> 263,
     "osm_max_snap_distance" :> <<5016>> @@ "osm_max_snap_fallback_distance" :> 10008
        @@ "osm_max_node_block_distance" :> 625,
     "osm_line_relation_tags" :> <<[name |-> "from_name", tags |-> <<"from">>],
                                   [name |-> "via", tags |-> <<"via">>]>>,
     "station_normalize_chain" :> <<[arrow |-> TRUE, broken |-> FALSE, text |-> "x"]>>,
     "track_normalize_chain" :> <<[arrow |-> FALSE, broken |-> FALSE, text |-> "x"]>>,
     "line_normalize_chain" :> <<[arrow |-> TRUE, broken |-> TRUE, text |-> "x"]>>,
     "osm_edge_track_number_tags" :> <<"ref">>, "color" :> "red", "color" :> "blue",
     "routing_no_self_hops" :> 0, "routing_no_self_hops" :> Malformed, "routing_one_way_edge_punish" :> Malformed}

Groups == {{"bus"}, {"bus", "rail"}, {"3"}}

MCDisks ==
    {"prefix" :> <<Base>> @@ "home" :> <<Block(g, v), Block({"rail"}, w)>> :
        g \in Groups \cup {{"9999"}}, v \in Values, w \in Values}

Simple == "cwd" :> <<Block({"bus"}, "routing_lvl1_fac" :> 100)>>

MCInputs ==
    (BoundedSeq(Requested, 3) \X {Simple}) \cup ({<<>>} \X (MCDisks \cup {<<>>}))
=============================================================================
