------------------------------- MODULE Config -------------------------------
(***************************************************************************)
(* What app::app reads before run(): the command line (config_reader) and  *)
(* the MOT configurations (mot_config_reader) with one entry for all route *)
(* types whose sections say the same.  getopt_long and the parser of the   *)
(* configuration files are external: getopt_long moves the words that are  *)
(* no option to the end, and the parser fills one table of sections from   *)
(* all files, later values over earlier ones, in no particular order.      *)
(*                                                                         *)
(* Texts are given as what they are split into: a rule as a record, a list *)
(* as a sequence, a number in hundredths.                                  *)
(***************************************************************************)
EXTENDS Integers, FiniteSets, Sequences, SequencesExt

CONSTANTS
    Inputs,     \* pairs of the requests a user makes (see asked) and the
                \* configuration files that exist: [path -> blocks]
    NamesIn,    \* the comma separated names in a word: [word -> sequence of names]
    CodeOf,     \* the GTFS code a name spells, if it spells a number
    None

VARIABLES
    asked,      \* requests: [opt, form, arg], opt = None for a feed without -i
    disk,       \* the configuration files
    argv,       \* tokens getopt_long has not seen
    words,      \* tokens it moved to the end
    cfg,        \* config: [val, flags, feeds, paths, mots]
    secs,       \* sections of the parser not yet visited: [name -> [key -> value]]
    configs,    \* configs_: sequence of [types, opts, unproced]
    pc          \* "args", "mots", "paths", "sections", "done", "exit", "died"

vars == <<asked, disk, argv, words, cfg, secs, configs, pc>>

-----------------------------------------------------------------------------
(* Route types.                                                            *)

RouteTypes == {"Tram", "Subway", "Rail", "Bus", "CoachService", "Ferry", "CableTram",
               "AerialLift", "Funicular", "Trolleybus"}

\* The codes get_route_type knows
Codes ==
    [Rail |-> {2, 117, 300, 400, 403, 404, 405, 1503} \cup 100..115,
     Bus |-> {3, 800, 1500, 1501, 1505, 1506, 1507} \cup 700..717,
     CoachService |-> 200..209,
     Subway |-> {1, 401, 402, 500, 600},
     Tram |-> {0} \cup 900..906,
     Ferry |-> {4, 1000, 1200, 1502},
     AerialLift |-> {6, 1300, 1301, 1304, 1306, 1307},
     Funicular |-> {7, 116, 1303, 1302, 1400},
     CableTram |-> {5},
     Trolleybus |-> {11}]

\* get_route_type; {} where it throws
get_route_type(n) == {t \in RouteTypes : n \in Codes[t]}

Synonyms ==
    [Bus |-> {"bus"}, Trolleybus |-> {"trolley", "trolleybus", "trolley-bus"},
     Tram |-> {"tram", "streetcar", "light_rail", "lightrail", "light-rail"},
     Rail |-> {"train", "rail"}, Ferry |-> {"ferry", "boat", "ship"},
     Subway |-> {"subway", "metro"}, CableTram |-> {"cablecar", "cable_car", "cable-car"},
     AerialLift |-> {"gondola"}, Funicular |-> {"funicular"}, CoachService |-> {"coach"}]

\* get_route_types_from_string; a name stands for all its spellings
get_route_types_from_string(name) ==
    IF name \in DOMAIN CodeOf THEN get_route_type(CodeOf[name])
    ELSE {t \in RouteTypes : name = "all" \/ name \in Synonyms[t]}

InvalidType(name) == name \in DOMAIN CodeOf /\ get_route_type(CodeOf[name]) = {}

-----------------------------------------------------------------------------
(* The command line.  An option is named by the value getopt_long returns. *)

Short == {"o", "h", "v", "i", "c", "x", "D", "m", "g", "X", "T", "d", "p"}
Long  == (Short \ {"p"}) \cup {"a", "write-graph", "write-cgraph", "eval", "write-trgraph",
            "method", "eval-path", "eval-df-bins", "use-route-cache", "inplace",
            "interpolate-times", "import-osm-stops"}

ShortWithArg == {"o", "i", "c", "x", "m", "g", "X", "T", "d"}

\* Mutant: no_argument mistaken once more
LongWithArgMore == ShortWithArg \cup {"D", "method", "eval-path", "eval-df-bins", "inplace"}

LongWithArg == ShortWithArg \cup {"D", "method", "eval-path", "eval-df-bins"}

\* help(): the options shown with "arg"
Documented == ShortWithArg \cup {"method", "eval-path", "eval-df-bins"}

Known(tok) == tok.opt \in (IF tok.form = "short" THEN Short ELSE Long)
TakesArg(tok) == tok.opt \in (IF tok.form = "short" THEN ShortWithArg ELSE LongWithArg)

\* A request, and what a user who has read help() types for it
Ask(o, form, arg) == [opt |-> o, form |-> form, arg |-> arg]

Tokens(r) ==
    IF r.opt = None THEN <<[form |-> "word", opt |-> r.arg]>>
    ELSE <<[form |-> r.form, opt |-> r.opt]>> \o
         (IF r.opt \in Documented THEN <<[form |-> "word", opt |-> r.arg]>> ELSE <<>>)

\* config: defaults are the ones of the struct; a value is a token
Defaults ==
    [val |-> [o \in (Documented \ {"i", "c"}) |-> None], flags |-> {}, feeds |-> <<>>,
     paths |-> <<>>, mots |-> {}]

\* The switch over the option c with the argument arg
Set(c, o, arg) ==
    CASE o = "i" -> [c EXCEPT !.feeds = Append(@, arg)]
      [] o = "c" -> [c EXCEPT !.paths = Append(@, arg)]
      [] o \in DOMAIN c.val -> [c EXCEPT !.val[o] = arg]
      [] OTHER -> [c EXCEPT !.flags = @ \cup {o}]

\* The parser: the blocks of all files in order.  A block is headed by several
\* section names; a value replaces an earlier one of the same section and key.
Sections(blocks) ==
    LET Add(s, b) == [n \in DOMAIN s \cup b.names |->
                        IF n \notin b.names THEN s[n]
                        ELSE [k \in DOMAIN b.kvs \cup (IF n \in DOMAIN s THEN DOMAIN s[n] ELSE {}) |->
                                IF k \in DOMAIN b.kvs THEN b.kvs[k] ELSE s[n][k]]]
    IN FoldLeft(Add, [n \in {} |-> None], blocks)
-----------------------------------------------------------------------------
(* The options of a section.                                               *)

LevelFilter == <<"osm_filter_lvl0", "osm_filter_lvl1", "osm_filter_lvl2", "osm_filter_lvl3",
                 "osm_filter_lvl4", "osm_filter_lvl5", "osm_filter_lvl6", "osm_filter_lvl7">>
LevelFac == <<"routing_lvl0_fac", "routing_lvl1_fac", "routing_lvl2_fac", "routing_lvl3_fac",
              "routing_lvl4_fac", "routing_lvl5_fac", "routing_lvl6_fac", "routing_lvl7_fac">>

FilterKeys ==
    ToSet(LevelFilter) \cup
    {"osm_filter_keep", "osm_filter_drop", "osm_filter_nohup", "osm_filter_oneway",
     "osm_filter_oneway_reverse", "osm_filter_undirected", "osm_filter_station",
     "osm_filter_station_blocker", "osm_node_positive_restriction",
     "osm_node_negative_restriction", "osm_filter_no_restriction"}

ListKeys == {"osm_station_name_attrs", "osm_track_number_tags", "osm_station_id_attrs",
             "osm_edge_track_number_tags", "osm_station_group_attrs"}

ChainKeys == {"station_normalize_chain", "track_normalize_chain", "line_normalize_chain",
              "station_id_normalize_chain"}

NumberKeys ==
    ToSet(LevelFac) \cup
    {"osm_max_snap_level", "osm_max_snap_fallback_distance", "osm_max_osm_station_distance",
     "osm_max_node_block_distance", "routing_full_turn_punish", "routing_full_turn_angle",
     "routing_snap_full_turn_angle", "routing_pass_thru_station_punish",
     "routing_one_way_meter_punish_fac", "routing_one_way_edge_punish",
     "routing_line_unmatched_punish_fac", "routing_no_lines_punish_fac",
     "routing_platform_unmatched_punish", "routing_non_osm_station_punish",
     "routing_station_distance_punish_fac"}

Keys == FilterKeys \cup ListKeys \cup ChainKeys \cup NumberKeys \cup
        {"osm_line_relation_tags", "osm_max_snap_distance", "routing_no_self_hops"}

Malformed == -1    \* a text that is no number, or no bool (which is given as 0 or 1)

getFlags(flags) ==
    flags \cap {"rel_flat", "no_match_nds", "no_match_rels", "no_match_ways", "mult_val_match"}

\* getFRule, inserted into a map of maps (multi_attribute_map): of several
\* rules for one key and value the flags of the first one stay
Rules(list) ==
    [kv \in {<<r.k, r.v>> : r \in ToSet(list)} |->
        getFlags(list[Min({i \in DOMAIN list : <<list[i].k, list[i].v>> = kv})].flags)]

\* getNormRules: texts without an arrow are passed over
getNormRules(list) == SelectSeq(list, LAMBDA r : r.arrow)

\* The tags of the last rule for each of the three names of a line
LineTags(list) ==
    [n \in {"from_name", "to_name", "line_name"} |->
        LET is == {i \in DOMAIN list : list[i].name = n}
        IN IF is = {} THEN <<>> ELSE list[Max(is)].tags]

Distances(sec) ==
    IF "osm_max_snap_distance" \in DOMAIN sec THEN sec["osm_max_snap_distance"] ELSE <<5000>>

\* The value of a number that a section does not give
Default(sec, key) ==
    CASE key = "osm_max_snap_level" -> 7
      [] key = "osm_max_snap_fallback_distance" -> 2 * Max(ToSet(Distances(sec)))
      [] key = "osm_max_node_block_distance" -> Max(ToSet(Distances(sec))) \div 8
      [] key \in {"osm_max_osm_station_distance", "routing_full_turn_angle"} -> 500
      [] key = "routing_snap_full_turn_angle" ->
            IF "routing_full_turn_angle" \in DOMAIN sec THEN sec["routing_full_turn_angle"] ELSE 500
      [] key = "routing_full_turn_punish" -> 200000
      [] key = "routing_pass_thru_station_punish" -> 10000
      [] key = "routing_line_unmatched_punish_fac" -> 50
      [] key \in ToSet(LevelFac) \cup {"routing_one_way_meter_punish_fac",
                                       "routing_station_distance_punish_fac"} -> 100
      [] OTHER -> 0

\* What the reader makes of a key; osm_max_snap_level is an uint8_t
Option(sec, key) ==
    LET given == key \in DOMAIN sec
    IN CASE key \in FilterKeys -> Rules(IF given THEN sec[key] ELSE <<>>)
         [] key \in ListKeys -> IF given THEN sec[key] ELSE <<>>
         [] key \in ChainKeys -> IF given THEN getNormRules(sec[key]) ELSE <<>>
         [] key = "osm_line_relation_tags" -> LineTags(IF given THEN sec[key] ELSE <<>>)
         [] key = "osm_max_snap_distance" -> Distances(sec)
         [] key = "routing_no_self_hops" -> IF given THEN sec[key] = 1 ELSE TRUE
         [] key = "osm_max_snap_level" -> IF given THEN sec[key] % 256 ELSE Default(sec, key)
         [] OTHER -> IF given THEN sec[key] ELSE Default(sec, key)

Options(sec) == [key \in Keys |-> Option(sec, key)]

Unproced(sec) == [key \in DOMAIN sec \ Keys |-> sec[key]]

\* A number, a list of numbers or a bool that cannot be read (getInt, getDouble,
\* getDoubleArr, getBool), or a regular expression that cannot be compiled
Throws(sec) ==
    \E key \in DOMAIN sec :
        \/ key \in NumberKeys \cup {"routing_no_self_hops"} /\ sec[key] = Malformed
        \/ key = "osm_max_snap_distance" /\ Malformed \in ToSet(sec[key])
        \/ key \in ChainKeys /\ \E r \in ToSet(getNormRules(sec[key])) : r.broken

\* Numbers of osm_read_options are compared up to 0.1, the others up to 0.01
Tolerance(key) ==
    IF key \in {"osm_max_snap_fallback_distance", "osm_max_osm_station_distance",
                "osm_max_node_block_distance", "routing_snap_full_turn_angle"} THEN 10 ELSE 1

Close(key, a, b) ==
    LET Near(x, y, d) == x - y < d /\ y - x < d
    IN CASE key \in NumberKeys -> Near(a, b, Tolerance(key))
         [] key = "osm_max_snap_distance" ->
                Len(a) = Len(b) /\ \A i \in DOMAIN a : Near(a[i], b[i], 10)
         [] OTHER -> a = b

\* The options the comparison of osm_read_options leaves out
NotCompared == {"osm_filter_lvl7", "osm_station_id_attrs", "osm_edge_track_number_tags",
                "station_id_normalize_chain"}

\* Mutant: routing_options left out as well
sameForOsm(a, b) ==
    /\ a.unproced = b.unproced
    /\ \A key \in Keys \ (NotCompared \cup ToSet(LevelFac)) :
            Close(key, a.opts[key], b.opts[key])

\* operator== of mot_config
same(a, b) ==
    /\ a.unproced = b.unproced
    /\ \A key \in Keys \ NotCompared : Close(key, a.opts[key], b.opts[key])
-----------------------------------------------------------------------------
Init ==
    /\ \E in \in Inputs : asked = in[1] /\ disk = in[2]
    /\ argv = FlattenSeq([i \in DOMAIN asked |-> Tokens(asked[i])])
    /\ words = <<>> /\ cfg = Defaults
    /\ secs = [n \in {} |-> None] /\ configs = <<>>
    /\ pc = "args"

MoveWord ==
    /\ pc = "args" /\ argv # <<>> /\ Head(argv).form = "word"
    /\ argv' = Tail(argv) /\ words' = Append(words, Head(argv).opt)
    /\ UNCHANGED <<asked, disk, cfg, secs, configs, pc>>

Option1 == Head(argv)
IsOption == pc = "args" /\ argv # <<>> /\ Option1.form # "word"

\* An option without an argument
ReadFlag ==
    /\ IsOption /\ Known(Option1) /\ ~TakesArg(Option1) /\ Option1.opt \notin {"v", "h"}
    /\ cfg' = Set(cfg, Option1.opt, None) /\ argv' = Tail(argv)
    /\ UNCHANGED <<asked, disk, words, secs, configs, pc>>

\* The argument is the next token, whatever it is
ReadValue ==
    /\ IsOption /\ Known(Option1) /\ TakesArg(Option1) /\ Len(argv) > 1
    /\ cfg' = Set(cfg, Option1.opt, argv[2].opt) /\ argv' = Tail(Tail(argv))
    /\ UNCHANGED <<asked, disk, words, secs, configs, pc>>

\* Version and help, an unknown option, a missing argument
Exit ==
    /\ IsOption
    /\ \/ ~Known(Option1)
       \/ Option1.opt \in {"v", "h"}
       \/ TakesArg(Option1) /\ Len(argv) = 1
    /\ pc' = "exit"
    /\ UNCHANGED <<asked, disk, argv, words, cfg, secs, configs>>

\* The words that are left are feeds; then the route types of -m
MotNames == IF cfg.val["m"] = None THEN <<"all">> ELSE NamesIn[cfg.val["m"]]

EndOfLine ==
    /\ pc = "args" /\ argv = <<>>
    /\ cfg' = [cfg EXCEPT !.feeds = @ \o words,
                          !.mots = UNION {get_route_types_from_string(n) : n \in ToSet(MotNames)}]
    /\ pc' = IF \E n \in ToSet(MotNames) : InvalidType(n) THEN "died" ELSE "paths"
    /\ UNCHANGED <<asked, disk, argv, words, secs, configs>>

\* get_cfg_paths
CfgPaths ==
    IF cfg.paths # <<>> THEN cfg.paths
    ELSE SelectSeq(<<"prefix", "home", "cwd">>, LAMBDA f : f \in DOMAIN disk)

Blocks == FlattenSeq([i \in DOMAIN CfgPaths |-> disk[CfgPaths[i]]])

\* The parser reads the files; one that does not exist ends the program
ParseFiles ==
    /\ pc = "paths"
    /\ IF ToSet(CfgPaths) \subseteq DOMAIN disk
       THEN secs' = Sections(Blocks) /\ pc' = "sections"
       ELSE secs' = secs /\ pc' = "died"
    /\ UNCHANGED <<asked, disk, argv, words, cfg, configs>>

\* The section n joins the first configuration that is the same
Merge(n, sec) ==
    LET new == [types |-> get_route_types_from_string(n), opts |-> Options(sec),
                unproced |-> Unproced(sec)]
        equal == {i \in DOMAIN configs : same(configs[i], new)}
    IN IF equal = {} THEN Append(configs, new)
       ELSE [configs EXCEPT ![Min(equal)].types = @ \cup new.types]

ReadSection(n) ==
    /\ pc = "sections"
    /\ secs' = [m \in DOMAIN secs \ {n} |-> secs[m]]
    /\ IF n # "" /\ (Throws(secs[n]) \/ InvalidType(n))
       THEN pc' = "died" /\ UNCHANGED configs
       ELSE pc' = pc /\ configs' = IF n = "" THEN configs ELSE Merge(n, secs[n])
    /\ UNCHANGED <<asked, disk, argv, words, cfg>>

AllRead ==
    /\ pc = "sections" /\ DOMAIN secs = {} /\ pc' = "done"
    /\ UNCHANGED <<asked, disk, argv, words, cfg, secs, configs>>

Over == pc \in {"done", "exit", "died"} /\ UNCHANGED vars

Next ==
    \/ MoveWord \/ ReadFlag \/ ReadValue \/ Exit \/ EndOfLine \/ ParseFiles
    \/ \E n \in DOMAIN secs : ReadSection(n)
    \/ AllRead \/ Over

Spec == Init /\ [][Next]_vars

-----------------------------------------------------------------------------
(* Properties.                                                             *)

Requests(opts) == SelectSeq(asked, LAMBDA r : r.opt \in opts)
Args(rs) == [i \in DOMAIN rs |-> rs[i].arg]

\* help() and README: an option means the same in its short and its long form
\* and wherever it stands; the last value counts, flags are independent, feeds
\* given with -i come before the others; only -v, -h and an option help() does
\* not show end the program.  (Not for --drop-shapes: help() shows it without
\* argument, but read() takes the word after it.)
LineAsAsked ==
    Ask("D", "long", None) \notin ToSet(asked) =>
        /\ pc \in {"paths", "sections", "done"} =>
             /\ \A o \in DOMAIN cfg.val :
                    cfg.val[o] = (LET as == Args(Requests({o}))
                                  IN IF as = <<>> THEN None ELSE as[Len(as)])
             /\ cfg.flags = {r.opt : r \in ToSet(asked)} \ (Documented \cup {None})
             /\ cfg.feeds = Args(Requests({"i"})) \o Args(Requests({None}))
             /\ cfg.paths = Args(Requests({"c"}))
             /\ Requests({"m"}) = <<>> => \A t \in RouteTypes : Codes[t] # {} => t \in cfg.mots
        /\ pc = "exit" => \E r \in ToSet(asked) : \/ r.opt \in {"v", "h"}
                                                  \/ r.form = "short" /\ r.opt \notin Short

\* What the files say about the section n, the last block first
Said(n) ==
    LET of == {i \in DOMAIN Blocks : n \in Blocks[i].names}
    IN [key \in UNION {DOMAIN Blocks[i].kvs : i \in of} |->
            Blocks[Max({i \in of : key \in DOMAIN Blocks[i].kvs})].kvs[key]]

AsSaid(c, n) ==
    /\ c.unproced = Unproced(Said(n))
    /\ \A key \in Keys \ NotCompared : Close(key, c.opts[key], Option(Said(n), key))

\* README: "Values given in later files will overwrite earlier defined values":
\* in whichever order the sections are visited, the route types of a section
\* are in a configuration with the options the files give it, no type is in a
\* configuration that none of its sections asks for, and no two configurations
\* say the same, so that no graph is built twice.  (Up to the tolerances, and
\* without the four options that are not compared: sections that differ only
\* in these share the values of whichever is visited first.)
ConfigsAsWritten ==
    LET names == UNION {b.names : b \in ToSet(Blocks)} \ {""}
    IN pc = "done" =>
        /\ \A n \in names : \E c \in ToSet(configs) :
              get_route_types_from_string(n) \subseteq c.types /\ AsSaid(c, n)
        /\ \A c \in ToSet(configs) : \A t \in c.types :
              \E n \in names : t \in get_route_types_from_string(n) /\ AsSaid(c, n)
        /\ \A i, j \in DOMAIN configs :
              configs[i].opts = configs[j].opts /\ configs[i].unproced = configs[j].unproced => i = j
=============================================================================
