# Specifications of pfaedle

pfaedle reads a GTFS feed and OSM data, map-matches the trips of the feed and
writes the feed back with shapes, stop distances and (optionally) interpolated
times. This directory holds TLA+ models of its core, TLC configurations that
check them on small instances, and TLAPS proofs. Paths below are relative to
the repository.

## 1. The system

The program is sequential: the OpenMP pragmas of `shape_builder::get_shape`
are commented out, and mutexes are taken but never contended. What is hard is
not concurrency but long sequences of legal steps over shared mutable state:
ids that are generated, erased and generated again; counts taken early and used
late; groups that own themselves by reference count and are merged while others
remember one of their nodes; a disk structure that is filled, closed and sorted
lazily; failures in the middle of a run.

| component | state | operations | interacts with |
|---|---|---|---|
| `app::run` | configuration, feeds, return code | check arguments, read feeds, filter / Overpass / single trip / matching, write feed, possibly in place | everything, by calls |
| GTFS reader and writer | the files of a directory | read and write table by table, split and join rows | `app::run`, feed |
| `shape_builder` | attribute cache, shape counter, usage counts | cluster trips, match, free id, set shape | feed (shared), router, station groups |
| GTFS feed | trips, routes, stops, stop_times, shapes | lookups, emplace, erase | all |
| GTFS time | h/m/s, total seconds | construct, add seconds, parse, format | stop_times |
| `osm_id_set` | output buffer, file, block ends, Bloom filter, cached block | add, has (closes and sorts) | OSM reading passes |
| `osm_builder` | maps of nodes, ways, relations | passes over the OSM file, snapping of stations, graph clean-up | id sets, graph, groups, restrictor |
| station groups | nodes, stops, penalties, reference count | add, merge, delete, write penalties | node payloads, feed stops |
| transport graph | nodes, edges, components | split, collapse, delete orphans, reverse edges | restrictor, grids |
| restrictor | rules by via-node, dangling rules | add, relax, replace, duplicate, may | graph, router |
| router | candidate graph, route cache | hops, shortest path, cache | graph, restrictor |
| bounding_box | tree of boxes | add, contains | reading passes |
| normalizer | rules, cache | norm | names everywhere |
| config readers | options, files, list of MOT configurations | read arguments, find and merge files, compare and merge sections | `app::run`, all passes through their options |
| collector, netgraph, logging | - | formatting, statistics | - |

What makes each one correct:

- feed and `shape_builder`: every selected trip ends with the shape of a
  routing-equal trip (or, in one case of the default mode, with the one its
  unresolved shape_id was given to); nobody's shape is erased or replaced behind its back; no
  shape is left without a trip; a loaded shape is kept unless `-D` is given;
- `app::run`: nothing is written before everything was accepted; an input is
  changed only in place; after a failed in-place run the next one still finds a
  feed it can work with;
- reader and writer: a written record is read back field by field;
- shapes and times: distances increase, stops lie on the shape, times are in
  order;
- `osm_id_set`: it is a set;
- station groups: counts are exact, nothing points to a deleted group, every
  stop finds its candidates through the node it was given;
- `osm_builder` and the graph: what the passes move, split, delete, contract or
  double leaves the stations as far apart as the document has them, one-way
  streets and turn restrictions included; a filtered file is read like the
  original;
- search and router: a cheapest path is found and returned; hops join; what the
  cache holds is as cheap as a search would find it;
- bounding box: every point of an added box is contained;
- configuration readers: the options are the requested ones, and every route
  type gets the options written for it.

The hazards are listed one by one, with their lines, in `PROJECT.json`.

## 2. Modules

| module | models | proofs |
|---|---|---|
| `ShapeBuilder` | `app::run`'s loop, `shape_builder.cpp` (clusters, ids, usage, assignment), `router/misc.cpp`, `trip.cpp` | `ShapeBuilderProofs` |
| `GtfsShape` | `get_gtfs_shape`, `set_shape`, `time.cpp` | `GtfsShapeProofs`, `Induction` |
| `IdSet` | what `osm_id_set` promises (abstract specification) | |
| `OsmIdSet` | `osm_id_set.cpp` | `OsmIdSetProofs` |
| `StationGroups` | `station_info`, `station_group`, `node_payload`, the snapping part of `osm_builder.cpp`, the penalties loop of `app::run` | `StationGroupsProofs` |
| `GtfsCsv` | `csv_parser.cpp`, the quoting part of `gtfs/misc.cpp`, headers and rows of `feed_writter.cpp` | |
| `AppRun` | `app::run` from arguments to files, `feed_reader.cpp`, `feed_writter::write` | `AppRunProofs` |
| `ShortestPath` | `EDijkstra.h`, `Dijkstra.h`, the overloads of `ShortestPath.h`, the heuristics and turns of `router.cpp` | `ShortestPathProofs`, `Induction` |
| `Router` | `router.cpp`: hop bands, hops, costs, cache, candidate graph, greedy routes | `RouterProofs`, `Induction` |
| `Geometry`, `BoundingBox` | the operators of `Geo.h` on a grid that the next two use; `bounding_box.cpp` | |
| `TrGraph` | `trgraph/graph.cpp`, `trgraph/edge_payload.cpp`, `restrictor.cpp`, the split of an edge in `snap_station` | |
| `OsmRead` | `osm_filter.cpp`, `read` and `filter_write` of `osm_builder.cpp` with all their passes; extends `TrGraph` and `BoundingBox` | |
| `Config` | `config_reader.cpp`, `mot_config_reader.cpp`, `get_cfg_paths`, the comparison of options | |
| `MC*` | values of the constants for TLC | |

`OsmRead` composes reading with the passes of `TrGraph`. `IdSet` is what it
takes its id sets for, `ShortestPath` what `Router` takes its searches for:
each is shown apart, so that neither is repeated inside the other's states.

The operators whose comment begins with "Mutant" are deliberately wrong
versions of the definition that follows them. No action uses them: they
document which fault each property would find.

### ShapeBuilder

`shapes` and `shapeId` are `feed.shapes` and `trip.shape_id`; `usage` is
`shpUsage`, `shpCnt` is `_curShpCnt`, `rAttrs` the keys of `_rAttrs`. The
content of a shape is the trip it was computed for, or `Input`. A generated id
is the pair (route, counter), which the string determines. One action is one
iteration of a loop: `SkipConfig`/`StartConfig` for the configurations
(the latter with `write_mot_stops` and `get_gtfs_box`, which throw for a trip
without stop_times), `SkipTrip`/`JoinCluster`/`NewCluster` for `cluster_trips`,
`CountUsage`, `Match`/`MatchFails` for a cluster, `Assign` for one trip of it
(release of the old shape, emplace, new id), `ClusterDone`, `ConfigDone`,
`WriteFeed`. Trips are visited in any order, since their ids are arbitrary, and
clusters in any order, since the code shuffles them. Normalised names are
constants: rewriting the stop names between configurations is assumed not to
change what they normalise to. Stop ids in stop_times resolve. The table of
stop_times is part of the input, among them trips with one stop, with none, and
one that starts at an entrance.

`FeedShaped` says what a trip may have in the end in every mode. In the default
mode `shapes.txt` is not read, so trips come with ids that resolve to nothing
(`Dangling`). A trip without a shape is clustered and gets a new one. But a
configuration before the first that handles the trip may have given the very
id to a shape it generated; then, without `-D`, the trip is passed over as one
that has a shape, which is another trip's. The property states exactly when.

### GtfsShape

`dist`, `lastDist`, `hopDists`, `costs`, `previous` are the code's variables,
`points` the distances of the emitted points. Distances are integers in units
of 0.01 m and the arithmetic is exact where the code uses doubles; the distance
between two points and the cost of a hop are choices. A hop has at least two
points (both branches of the code visit both ends). A NaN converted to
`size_t` is any of `NaNValues`, and `size_t` wraps at `Wrap`.

### OsmIdSet

The variables are the fields of the class, sizes counted in ids. `Add`
includes `diskAdd` with its flush; `CloseAndAsk` is `has()` on an open set
(`close()` is part of it); `Split` and `MergeNext` are the two loops of
`sort()`, with buffers that keep old contents when a read is short and qsort
taken by its contract (`Sorted`); `FilterOut`,
`IsBlockEnd`, `OpenBlock`, `Probe`, `SearchFails` are the steps of `has()` and
`diskHas()`. The hash is a parameter; the file system neither fails nor writes
short.

### StationGroups

`si[n]` is the group the station_info of node `n` points to, `refs` is the
static map `station_info::_groups`, `pl` the group of the payload being
snapped, `leaked` counts the station_infos lost in `set_si`. Which nodes a
station is snapped to, and which group an OSM station matches, is a choice: the
code decides by distance, angle and name. The allocator returns the first free
address, so an address that was freed comes back at once, which is what makes a
stale reference visible. In import mode, once a station was found near a
payload one is found again at the next distance, because the payload does not
move.

### GtfsCsv

One record of one table is written and read. A text is a sequence of
characters; `split_record` takes one action per character. The six headers and
rows are transcribed, each column with the way it is written: `wrap(text)`, the
raw string, or digits. `unquote_text`'s two flags are stated as the parity of a
run of quotation marks. `RecordReadBack` compares with `Storable`, which says
what the file format loses by the code's own rules: tabs everywhere, blanks at
the ends of a field that is not enclosed.

### AppRun

`files` holds, by directory and table, whether the rows of a table are
acceptable; a defect names the field and how it is wrong, and `Reader` lists
for every table which fields the row handler requires, converts, or converts
outside of its try block. `names` and `stored` hold what the properties need of
`trips.txt` and `shapes.txt`: the shape that the trips of a route type name, and
the shapes that exist. One action reads or writes one table. The matching of a
configuration is one action here (its result is what `ShapeBuilder` computes:
trips of the used types get a new shape unless they have one that was read and
`-D` is not given, and an old shape without trips is erased); it may also die.
Writing may fail to open a file, and the disk may become full at any table.
The seven writers without a body return an undefined result: the model lets
them be passed over, fail, or kill the program. `RunAgain` starts the program
on whatever the last run left. All trips of a route type share one shape, and
at most one field of the input is defective.

### ShortestPath

One behaviour is one call. The queue is a set of entries: the code has no
decrease-key, so an item may wait several times, and which of two entries with
the same key comes first is a choice. A call ends at its first target, when all
targets are settled, or never early; it runs forwards or backwards; the cost of
a move is the length of the edge that is left (with the penalty of a full turn)
or of the edge that is entered. `inf` cuts paths off. Nodes lie on a line and
distances are exact; the heuristics are those of `DistHeur` and `NDistHeur`
(distance to the `centre` of the targets minus their `radius`, both set once).
The heuristic of a target inside the circle is below zero, so a search that
ends at its first target ends at the one whose cost and heuristic value
together are the least, which need not be the cheapest one. Several start nodes get the key 0, so for them exactness needs that
none lies within the circle of the targets (`SourcesOutside`).

### Router

A trip is a sequence of groups of candidates with penalties. `Begin` takes a
call, `Pilot` bounds a hop by a first search (`getHopBand` is `Bound`), `Hop`
searches from one candidate to the next group (`Search`, without the pairs that
are `Trivial`) and extends the candidate graph and
the cache (`nestedCache` files every tail of the found path), `Solve` picks a
cheapest chain, `Greedy` takes one hop after another between nodes
(`GreedyHops`). Searches are taken by their contract:
a cheapest path to every target, or (`Preferred`) to the one that the heuristic
makes the first. The number of edges at a node, from which on a sharp angle is
punished, is that of its outgoing edges (`getDeg`). All candidates of a stop
are nodes of one station group, each with an outgoing edge (`CallsAssumption`):
`get_node_candidates` returns the nodes of the group of the stop, and
`writeSelfEdgs` gives an edge to those without. Line similarity is counted in
thirds, so that the three comparisons of `transitLineCmp` stay integers. Several
calls share the cache of one instance. As in the code, a single-group trip and a greedy hop
without any path use the first candidate. A path the pilot run found may be in
the cache although a search from its candidate, bounded by the hop band, or the
tests for trivial pairs would have given it up: what `CacheSound` says is that
an entry is exact, not that a hop without the cache would have had it.

### TrGraph and OsmRead

A document is a sequence of nodes, ways and relations with tags; a tag has the
set of values between its semicolons. The passes of `read` are actions in the
code's order (`Passes`), each one the whole loop: what matters between them is
the order in which nodes are met, since `getNds()` is a set of pointers; the
model meets them in ascending or in descending order. Positions are on an
integer grid, so that distances, products and boxes are exact. Stations from
outside are put on a node or into an edge (`SnapToNode`, `SnapToEdge`), at most
`MaxSnaps` of them. The field `keepFlags` of a relation is not initialised when
no rule takes it: its value is a choice. `filter_write` writes a second
document, and `FilteredFileSame` reads both.

### Config

A user asks for options (`asked`); `Tokens` writes what `help()` shows for them,
and the actions read it as `getopt_long` with the tables of the code does.
Files consist of blocks, each headed by several section names; the parser
(not part of the repository) fills one table from all of them. Sections are
visited in any order. Numbers are in hundredths, so that the tolerances of the
comparisons are exact; a rule, a list and a line of a chain are what the code
splits them into. Of two rules for the same key and value the flags of the
first one stay, as in the map they are inserted into.

## 3. Runs

| run | states | shows |
|---|---|---|
| `ShapeBuilder.cfg` | 281 k | all properties of the bookkeeping, that the run ends, and which inputs end it with an exception |
| `OsmIdSet.cfg` | 68 k | the disk set implements `IdSet`, liveness included |
| `StationGroups.cfg` | 426 k | groups, with and without `import_osm_stations` |
| `GtfsShape.cfg` | 3.4 M | shape points, stops and interpolated times |
| `GtfsCsv.cfg` | 345 k | rows are read back as written |
| `AppRun.cfg` | 3.9 M | every mode over every defect, and two in-place runs of which the first fails anywhere: what is written where, nothing before all was accepted, no shape that was read is lost |
| `AppRunDefault.cfg` | violated | without `--eval` the shapes of unselected types disappear |
| `ShortestPath.cfg` | 151 k | costs are the lowest, paths cost what is returned |
| `Router.cfg` | 4.6 k | hops join, the cache is true and exact |
| `OsmRead.cfg` | 184 k | boxes, filtered files, distances of stations, turn restrictions, geometries, components |
| `OsmGap.cfg` | violated | a one-way street that leads out of a gap is turned round |
| `Config.cfg` | 69 k | options as asked, configurations as written |

Bounds, and why they are enough for the cases at stake:

- ShapeBuilder: four trips on two routes of different type (one trip without a
  route), two of them routing-equal over different stops (one cluster of two
  trips on two routes), one trip too short; three configurations, the first for
  one type, the second for both, the last for none; every assignment of two input ids
  that collide with generated ones, every choice of loaded shapes, all four
  combinations of flags; three tables of stop_times. `MaxShpCnt` is never
  reached (a deadlock would show it).
- OsmIdSet: up to six ids out of four values, blocks of two, parts of three,
  an output buffer of four: flushes at and off the boundary, up to three parts,
  refills, duplicates, partial, full and missing last blocks. Bloom bits
  overlap, so false positives reach the disk.
- StationGroups: two stops, two distances, two way nodes (one in import mode),
  symmetric in both, and one node that OSM or a split may add, two more for
  stops that are given up; enough addresses for groups that the model never
  stops for want of one.
- GtfsShape: three hops of two points, with gaps at and above the threshold that
  add up; costs 0, 1 and 3; departures on both sides of a full minute and a full
  hour. All of its invariants are proved for any number of hops and points.
- GtfsCsv: every text of up to three characters (quotation mark, comma, blank,
  tab, letter) next to every text of up to one, in every pair of neighbouring
  columns: runs of quotation marks at the start, in the middle and at the end,
  and a field that could swallow its neighbour. Raw columns hold plain texts
  (`TextAssumption`).
- AppRun: two route types, and configurations for one or both of them; each
  mode option on its own and the combinations that the checks tell apart; for
  every table every defect of every field that is converted, one of those only
  required to be there, a missing and an empty file. For two runs, four in-place
  command lines in both positions (some types or all, with and without reading
  shapes, with and without `-D`).
- ShortestPath: all graphs of three edges and more out of six on three nodes
  (both directions, a longer way round, a loop), one or two sources and up to
  three targets, all variants, limits that cut and limits that do not. Three nodes are enough
  for an item to be queued at two costs, settled late and skipped, and for full
  turns to be cheaper or dearer than the way round.
- Router: a street with three stations, a detour, a restricted and a sharp turn,
  a part that is not connected; a stop has all nodes of its station group, one
  or two, as candidates; trips of two and three groups after another trip that
  filled the cache.
- OsmRead: junctions, bends, full turns, gaps, crossings, loops, relations and
  networks on two by three nodes, each way drawn in both directions or
  read in both orders where it matters; every sequence of up to three of five
  overlapping boxes.
- Config: every line of up to three out of fourteen requests; two files in which
  every two out of nineteen values refine a common block, among them one rule
  given twice with different flags, in both orders, and numbers, lists and bools
  that cannot be read.

Fairness: `ShapeBuilder` assumes `WF_vars(Next)`, since the program is one
thread that is always running until it ends. `OsmIdSet` assumes it only for a
call that has started; nobody is obliged to make calls. The other modules state
safety only.

Deadlock is checked in every run; final states stutter explicitly.

## 4. What the code does and its documents do not say

With a run of their own:

1. By default the shapes of the input are not read: all trips are matched and
   renumbered, and the shapes of trips of unselected route types, which still
   name them, are missing from the written `shapes.txt` (`app.cpp:162` against
   `README.md:72`).
2. `fix_gaps` moves the end of a street to the other side of a gap with
   `addEdg(otherN, n)` whichever end it is (`graph.cpp:246`). A one-way street
   that leads out of the gap then has its direction reversed, if its node is the
   one that is moved.

Met while modelling, stated in the models as the code has it:

- By default, without `-D`, a trip of a later configuration may silently have
  the generated shape of a trip of an earlier one, because it came with the same
  id (`app.cpp:162`, `shape_builder.cpp:532`): `FeedShaped` excepts it and says
  when it happens.
- A trip that stops at a station entrance ends the whole run with an exception
  (`shape_builder.cpp:74` against the comment at `router/misc.cpp:38`):
  `DiesOnlyAtEntrances`.
- With `import_osm_stations` a merged group is not always deleted, since
  `set_si` loses a reference (`node_payload.cpp:158` against
  `station_group.h:45`): `MergedGroupsDeleted` excepts these.
- `calendar.txt` and six other tables of the input are never written
  (`feed_writter.cpp:338` against `README.md:70`), and what the calls of their
  empty writers return is undefined.
- `-T` with a trip that no configuration handles writes no `path.json` but the
  whole feed (`app.cpp:294` against `README.md:119`): `SingleTripOutputsPath`.
- URLs, colours and time zones are written without quotation marks, so a comma
  in one shifts the columns after it (`feed_writter.cpp:307` against
  `gtfs/misc.h:40`); `GtfsCsv` assumes that they hold none.
- `--drop-shapes` takes the next word (`config_reader.cpp:141`), which `help()`
  does not show: `LineAsAsked` excepts it.
- The comparison of configurations leaves out the level 7 filter, the id rules
  and id normaliser of stations and the track tags of edges
  (`osm_read_options.h:110` and `331`): sections that differ only in these share
  the values of whichever the hash table yields first (against `README.md:129`).
  `ConfigsAsWritten` excepts the four.
- A `no_u_turn` restriction whose two ways are the same is never enforced
  (`osm_builder.cpp:790`). A restriction with two from-ways is passed over, but
  in a filtered file that lost one of them it is read.
- `are_edges_similar` takes two streets drawn one after the other for similar
  when the first is one-way along and the second one-way against its drawing; a merged edge keeps the maximum speed of one of its parts; a gap at a
  restricted edge loses its rule.
- `merge()` of filters leaves out the rules to drop and keeps the flags of the
  first of two equal rules, so that one file filtered for several
  configurations holds more than they read; `read_write_ways` writes any element
  with the id of a kept way. `FilteredFileSame` is about one configuration.
- What `getHopBand` logs as the minimal distance between two groups
  (`router.cpp:298`) is that of the first target its search settles
  (`router.cpp:269`), the one that `SearchExact` describes. From three targets on
  another one may be cheaper; the band of the hop is computed from the first.
- `string_to_kmh` uses `stoi`, whose exception nobody catches: a `maxspeed`
  without a number ends the run (`ReadDies`).

## 5. Proofs

Each theorem holds for every value of the constants that the named assumptions
allow: any feed, any sizes, any number of configurations, nodes, stops or runs.
The invariants below were checked by TLC on the runs' instances before they
were proved.

`ShapeBuilderProofs` (from `FeedAssumption`, `RunAssumption`):

- `BookkeepingInvariant`: `Spec => []Bookkeeping`. `Bookkeeping` is inductive.
  Its core is `UsageExact`: a positive count is the exact number of trips of a
  shape that is in the feed, and a shape with trips but without a count is held
  by a trip that is not pending any more. The second half is needed because
  regenerated ids are not counted: without it a shape could lose its last trip
  unnoticed. `ClustersDisjoint` makes every trip pending once only; `CurIdFresh`
  says that the emplace of the first trip of a cluster does not meet a counted
  shape and that the later ones meet their own.
- `OnlyAssignedTripChangesThm`, `LastUserErasesShapeThm`: the two action
  properties follow from `Bookkeeping` step by step; only `Assign` needs work.

From these follow `AttrsCachedThm`, `LoadedShapesKeptThm`,
`FeedShapedThm`, `DiesOnlyAtEntrancesThm`. The invariant `FeedInv` adds to
`Bookkeeping` who is in a cluster (`ClustersEqual`: trips routing-equal to the
first; `LoadedUntouched`: no trip with a loaded shape that is to be kept), that
every shape id resolves to the geometry of a routing-equal trip unless it did
not resolve at first and was never changed (`Resolved`), which configurations
the generated shapes come from (`Computed`), and `Coverage`: each trip that one
of the configurations up to now selects is `Shaped` (has a shape of its own, or
`Inherits` one in the way `FeedShaped` excepts) or is still waiting in the
builder that runs. The last one ties the loop over the configurations to the
loops inside of it; `FeedShaped` only speaks of the end of the run. `Computed`
is what shows that a trip passed over with a foreign shape got it from a
configuration that came before all those that handle the trip.

`GtfsShapeProofs` (from `ShapeAssumption`):

- `ShapeWellFormed`, `StopsOnShapeThm`: `Progress` ties `dist`, `lastDist` and
  the number of visited points together: before the first point nothing is
  emitted, and a hop ends only after a point was emitted.
- `TimesInOrderThm`, `DwellKeptThm`: `TimesInv` says that `previous_time` never
  overtakes the share of the span that the costs so far stand for
  (`WithinShare`), and that the departures of the ends never change. The shares
  are in order because the partial sums of the costs are (`CostSums`, an
  induction over the hops); the round trip through hours, minutes and seconds
  (`SecondsRoundTrip`) loses nothing because departures fit the 16 bits of the
  hours, which `ShapeAssumption` states.

`OsmIdSetProofs` (from `SizeAssumption`):

- `FilterSound`: `Spec => []NoFalseNegative`, for every hash, from the
  invariant that bounds are naturals up to `Top`.
- `NothingLostThm`, `BlockIndexExactThm`, `CachedBlockCurrentThm`, and
  `AnswersTruthfully`: `Spec => Abstract!SafetySpec`, the safety half of the
  refinement of `IdSet`. They share the invariant `SetInv`, one conjunct for each
  stage of the file. While the set is filled (`FillInv`), flushes end with a block and
  `sorted` tells whether the ids are in order. During the merge, `PartsInv` says
  that every part of the file is sorted and how far it is consumed, `BuffersInv`
  that a part buffer agrees with the file from the position of its part to the
  next refill, whatever older contents it still holds, and `OutInv` that the
  output consists of the consumed positions, each once, and is not above
  anything that is left. Counting positions, not ids, is what makes the end of
  the merge provable: with duplicates, equal sets of ids would not show that the
  lengths agree. For a lookup (`LookupInv`, `SearchInv`) the file is sorted, the
  block ends belong to it, and the binary search has not passed over its
  argument; `BlockOf` shows that the block that upper_bound names is the only
  one the id can be in. qsort is taken by its contract (`Sorted`).

`StationGroupsProofs` (from `PoolAssumption`): `RefsExactThm`,
`GroupsConsistentThm`, `MergedGroupsDeletedThm`, `StopsResolveThm`,
`CandidatesFoundThm`. The invariant `IInv` adds to these the places of the loops
(`ControlInv`), that a group without references is empty and one that pl uses
is alive when a node is placed (`PayloadLive`, `HeapInv`), where references were
lost (`LeaksImported`), that a stop without a node still waits in one of the two
passes (`StopsPending`) and that penalties are written for whole groups
(`PenaltiesWhole`). Without `PayloadLive` a merge could delete the group a
payload is about to be added to.

`AppRunProofs` (from `AppAssumption`):

- `AcceptedBeforeWritingThm`, `InputKeptThm`: the invariant behind the
  first says how far reading has come (`Progress`: the tables before `at` of the
  feed being read were accepted, with the contents they had when the run began,
  and beyond reading all of them were) and that files differ from the start of
  the run only while or after writing. It is needed because the check of a table
  and the writing of the first file are dozens of steps apart.
- `ReadShapesKeptThm`: any number of runs, any list of configurations. The
  strengthening has two parts: `Loading` (while tables are read, what is in
  memory is what the directory held at the start) and `Storing` (from matching
  on, every type that had a shape there has one in memory, `FeedKept`; trips and
  shapes, once their table was passed in writing, are in the directory as they
  are in memory, unless the disk is full). `trips.txt` and `shapes.txt` are written
  apart, so neither part follows from the other.
- `SuccessMeansWrittenThm`, `SingleTripOutputsPathThm`: `Output` says that the
  tables before the one being written are in the output directory, and whether
  a configuration that handles the single trip was met yet.

`ShortestPathProofs` (from `PosAssumption`, `NodesAssumption`, `NullAssumption`,
`CallsAssumption`; any finite graph, cost, bound, any number of targets):

- `SearchesAreExact`: `Spec => []SearchExact`. The reference is Bellman's
  equations (`Cheapest`), to which the search is related by four conjuncts of
  `Inv`: every entry of the queue has the cost of some walk and a key of cost plus
  heuristic (`QueueOK`), what is settled has the reference cost (`SettledOK`),
  and every item one step from a settled one is settled or waits at no more than
  the cost over it, unless `inf` cuts it off (`CoverOK`); `CostsOK` says which
  targets were answered. The heuristic is consistent along the moves
  (`StepFacts`), so the top of the queue is a lower bound for every walk that
  leaves the settled items (`LowerBound`, an induction over walks, `TopLeast`);
  start items, which have the key 0 whatever their heuristic, are the exception
  for which `SourcesOutside` is needed.
- `PathsAreReal`: `Spec => []PathsMatchCosts`. In `PathInv` the parent of an
  entry is settled or the entry is a start (`LinkOK`, `TreeOK`), so that following the
  parents ends at a start and yields a chain of settled entries (`BacksOK`) whose
  legs add up to the cost of its end (`PathCost`).

`RouterProofs` (from `EdgesAssumption`, `CostsAssumption`, `CallsAssumption`; any
finite street graph, any costs that are not negative, any sequence of calls):

- `CacheSoundThm`: `Spec => []CacheSound`. `CacheOK` says of every entry that its
  edges are a path with more than one edge from the first to the last edge of its
  key, that its cost is the one `Along` gives, and that no path between the two
  costs less (`LowestBetween`). The argument is that of potentials. `Lowest`
  computes the greatest assignment of costs that no link undercuts and that is 0
  at the start (`LowestFacts`; that the relaxation ends there is an induction over
  the pairs of an item and a lower cost, `LowestSolved`). Along a path that a
  search returns this assignment is exact (`Tight`), so the cost of a part is the
  difference of its ends (`AlongTight`). Shifted to the start of the part and cut
  off at its cost, the assignment is still one that no link undercuts, and so a
  lower bound for a search from there (`StillCheapest`). Hence neither the
  targets, nor the start, nor the bound of the search that found a path matter
  for its parts. Filing keeps this because the part is a path (`PartPath`,
  `AlongPart`), paths filed together have different targets (`CacheFiled`), and
  all targets of a search have the group it was made towards (`CallFacts`).
  `BandOK` is needed because the bound of a search is computed by another one.
- `RouteContiguousThm`: `Spec => []RouteContiguous`. `CombOK` says of the
  candidate graph that every pair of candidates searched so far has an edge, and
  that its hop, if it has one, leads from the first to the second (`HopEdges`);
  for hops that come from the cache this needs `CacheOK`, so the two are one
  invariant. `GreedyOK` is its counterpart for the greedy routes. Of the searches
  only the shape of a path is used here (`PathsEnd`): a chain of links from a
  source to the target, by induction over its length.

`Induction` holds induction over the naturals for sets, and least and greatest
elements of sets of numbers. The induction theorems
of the library take an operator as a parameter, which the provers cannot
instantiate; a set of naturals they can.

Model-checked only: liveness under fairness, which the provers do not treat
(`RunEnds`, and that every call returns, the other half of `ImplementsIdSet`);
`TrGraph` and `OsmRead`, whose passes
compute with RECURSIVE operators, for which tlapm has no SMT backend;
`GtfsCsv`, whose property compares two runs over all texts; and `Config`.

## 6. Not modelled

- Debug files of `app::run`, netgraph, logging and stack traces, the JSON and
  XML writers: output that nothing reads back.
- The evaluation collector: floating point statistics without effect on the
  feed.
- The normaliser: regular expressions. Names are normalised by a parameter.
- The grids: what they return is computed from positions where a property
  needs it, and a choice in `StationGroups`.
- XML syntax, the Overpass query, the syntax of configuration files and
  `getopt_long`: external, or text only.
- What the numbers in the tables mean once they are converted, calendars, fares
  and transfers: they pass through.
- Floating point: distances, costs and angles are integers. A rounding error
  that reorders two nearly equal costs is not seen.

## 7. Plan

1. Proofs: the line-reading half of `Config`; which parts of `GtfsCsv` can be
   stated without recursion over the text.
2. Models: the choice of snapping candidates by distance and angle, composed
   with `StationGroups`; two normalisations of a name in a row.
