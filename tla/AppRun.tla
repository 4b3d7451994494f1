------------------------------- MODULE AppRun -------------------------------
(***************************************************************************)
(* app::run from the arguments to the written files: argument checks,      *)
(* reading the tables of the feeds, the modes (filter, Overpass, single    *)
(* trip, matching) and writing the tables, table by table, into the output *)
(* or, in place, the input directory; and running it again on what an      *)
(* earlier run left behind.                                                *)
(*                                                                         *)
(* Of the rows of a table the model keeps whether feed_reader accepts them *)
(* (a row has at most one defective field), of trips.txt the shape that    *)
(* the trips of each route type name, of shapes.txt the shapes in it.  The *)
(* matching itself is module ShapeBuilder, a row as text module GtfsCsv.   *)
(***************************************************************************)
EXTENDS Integers, Sequences, Functions

CONSTANTS
    Types,      \* route types; the feed has trips of each
    Options,    \* the command lines, see OptionRecord
    InputDisks, \* for each: contents of the input directory, see Content
    Repeated,   \* bound: the command lines with which it is run repeatedly
    MaxRuns     \* bound on the runs of the program

None    == "none"
Unknown == "unknown"   \* a trip id that is not in the feed

Plain(state) == [is |-> state, field |-> None, kind |-> None]

Absent  == Plain("absent")    \* no file, or one that cannot be opened
Empty   == Plain("empty")     \* no header line
Good    == Plain("good")      \* rows of the input, all of them acceptable
Written == Plain("written")   \* written by feed_writter
Cut     == Plain("cut")       \* written until the disk was full

\* A row of the input with a defective field
Defects ==
    [is : {"defect"}, field : STRING, kind : {"missing", "blank", "malformed"}]

Content == {Absent, Empty, Good, Written, Cut} \cup Defects

\* The tables in the order in which they are read and written
Tables ==
    <<"agency", "stops", "routes", "trips", "stop_times", "calendar",
      "calendar_dates", "shapes", "transfers", "frequencies",
      "fare_attributes", "fare_rules", "feed_info">>

Dirs == {"in1", "in2", "out"}

\* osm: -x given; osmOut: -X given; trip: the type of the trip given with -T;
\* cfgs: the route types of the MOT configurations
OptionRecord ==
    [cfgs : Seq(SUBSET Types), osm : BOOLEAN, overpass : BOOLEAN, osmOut : BOOLEAN, feeds : 0..2,
     inPlace : BOOLEAN, evaluate : BOOLEAN, drop : BOOLEAN,
     mots : SUBSET Types, trip : Types \cup {None, Unknown}]

ASSUME AppAssumption ==
    /\ Options \subseteq OptionRecord
    /\ InputDisks \in [Options -> SUBSET [Range(Tables) -> Content]]
    /\ Repeated \subseteq Options
    /\ MaxRuns \in Nat

VARIABLES
    opt,      \* cfg_
    files,    \* by directory and table: Content
    names,    \* by directory: the shapes that trips.txt names, by route type
    stored,   \* by directory: the shapes in shapes.txt
    feed,     \* feeds_.front() in memory: its trips' shapes, its shapes
    feedAt,   \* the feed that is read
    at,       \* the loop index: a table, a configuration, a table again
    full,     \* the disk is full, for the rest of this run
    path,     \* path.json was written in this run
    ret,      \* the return code of run()
    runs,     \* runs so far
    start,    \* history: files when this run began
    pc

vars == <<opt, files, names, stored, feed, feedAt, at, full, path, ret, runs, start, pc>>

-----------------------------------------------------------------------------
(* feed_reader: which fields a row needs.                                  *)
(*   at       row.at: the column must be there                             *)
(*   required std::stoi / std::stod of it, blank or not                    *)
(*   checked  converted when it is not blank                               *)
(*   outside  converted outside of the try block                           *)

read_agencies ==
    [at |-> {"agency_name", "agency_url", "agency_timezone"},
     required |-> {}, checked |-> {}, outside |-> {}]

read_stops ==
    [at |-> {"stop_id"}, required |-> {}, checked |-> {"stop_lon", "stop_lat"},
     outside |-> {"location_type"}]

\* One of the two names must not be empty: "route_name" stands for both, and
\* is never malformed
read_routes ==
    [at |-> {"route_id"}, required |-> {"route_type", "route_name"},
     checked |-> {"route_sort_order"}, outside |-> {}]

read_trips ==
    [at |-> {"route_id", "service_id", "trip_id"}, required |-> {},
     checked |-> {"direction_id", "wheelchair_accessible", "bikes_allowed"},
     outside |-> {}]

read_stop_times ==
    [at |-> {"trip_id", "stop_id", "departure_time", "arrival_time"},
     required |-> {"stop_sequence"},
     checked |-> {"departure_time", "arrival_time", "pickup_type",
                  "drop_off_type", "shape_dist_traveled", "timepoint"},
     outside |-> {}]

read_calendar ==
    [at |-> {"service_id", "start_date", "end_date"},
     required |-> {"monday", "tuesday", "wednesday", "thursday", "friday",
                   "saturday", "sunday"},
     checked |-> {"start_date", "end_date"}, outside |-> {}]

read_calendar_dates ==
    [at |-> {"service_id", "date"}, required |-> {"exception_type"},
     checked |-> {"date"}, outside |-> {}]

read_fare_rules ==
    [at |-> {"fare_id"}, required |-> {}, checked |-> {}, outside |-> {}]

read_fare_attributes ==
    [at |-> {"fare_id", "currency_type"},
     required |-> {"price", "payment_method", "transfers"},
     checked |-> {"transfer_duration"}, outside |-> {}]

read_shapes ==
    [at |-> {"shape_id"},
     required |-> {"shape_pt_sequence", "shape_pt_lon", "shape_pt_lat"},
     checked |-> {"shape_dist_traveled"}, outside |-> {}]

read_frequencies ==
    [at |-> {"trip_id", "start_time", "end_time"}, required |-> {"headway_secs"},
     checked |-> {"start_time", "end_time", "exact_times"}, outside |-> {}]

read_transfers ==
    [at |-> {"from_stop_id", "to_stop_id"}, required |-> {"transfer_type"},
     checked |-> {"min_transfer_time"}, outside |-> {}]

read_feed_info ==
    [at |-> {"feed_publisher_name", "feed_publisher_url", "feed_lang"},
     required |-> {}, checked |-> {"feed_start_date", "feed_end_date"},
     outside |-> {}]

Reader ==
    [agency |-> read_agencies, stops |-> read_stops, routes |-> read_routes,
     trips |-> read_trips, stop_times |-> read_stop_times,
     calendar |-> read_calendar, calendar_dates |-> read_calendar_dates,
     shapes |-> read_shapes, transfers |-> read_transfers,
     frequencies |-> read_frequencies,
     fare_attributes |-> read_fare_attributes, fare_rules |-> read_fare_rules,
     feed_info |-> read_feed_info]

Required == Range(SubSeq(Tables, 1, 5))

\* What the handler of a row does with its defective field
RowResult(t, d) ==
    LET r == Reader[t]
    IN CASE d.kind = "malformed" /\ d.field \in r.outside -> "terminate"
         [] d.kind = "malformed" /\ d.field \in r.required \cup r.checked -> "error"
         [] d.kind = "blank" /\ d.field \in r.required -> "error"
         [] d.kind = "missing" /\ d.field \in r.required \cup r.at -> "error"
         [] OTHER -> "ok"

\* Mutant: a missing file is never an error
read_lenient(t, c) ==
    CASE c = Absent -> {"ok"}
      [] c = Empty -> {"error"}
      [] c \in {Good, Written} -> {"ok"}
      [] c = Cut -> {"ok", "error"}
      [] OTHER -> {RowResult(t, c)}

\* read and parse_csv: the possible results for a table with content c.  Of a
\* file that was cut the last row may or may not be acceptable.
read(t, c) ==
    CASE c = Absent -> {IF t \in Required THEN "error" ELSE "ok"}
      [] c = Empty -> {"error"}
      [] c \in {Good, Written} -> {"ok"}
      [] c = Cut -> {"ok", "error"}
      [] OTHER -> {RowResult(t, c)}

-----------------------------------------------------------------------------
(* app::run up to the feeds in memory.                                     *)

NoFeed == [names |-> [t \in Types |-> None], shapes |-> {}]

\* The shape that the trips of type t name
Named(nms, t) == <<t, nms[t]>>

Snapshot == [files |-> files, names |-> names, stored |-> stored]

Init ==
    /\ opt \in Options
    /\ \E disk \in InputDisks[opt], nms \in [Types -> {None, "old"}] :
         /\ files = [d \in Dirs |->
                CASE d = "in1" -> disk
                  [] d = "in2" -> [t \in Range(Tables) |-> Good]
                  [] d = "out" -> [t \in Range(Tables) |-> Absent]]
         /\ names = [d \in Dirs |-> IF d = "out" THEN NoFeed.names ELSE nms]
         /\ stored = [d \in Dirs |->
                IF d = "in1" /\ disk["shapes"] # Absent
                THEN {Named(nms, t) : t \in {u \in Types : nms[u] # None}}
                ELSE {}]
    /\ feed = NoFeed /\ feedAt = 1 /\ at = 1
    /\ full = FALSE /\ path = FALSE /\ ret = None /\ runs = 1
    /\ start = Snapshot
    /\ pc = "args"

diskVars == <<files, names, stored>>

Return(code) ==
    /\ ret' = code /\ pc' = "end"
    /\ UNCHANGED <<opt, feed, feedAt, at, full, runs, start>>

Refuse(code) == Return(code) /\ UNCHANGED <<diskVars, path>>

Filter == opt.osmOut \/ opt.overpass

NoOsmInput == ~opt.osm /\ ~opt.overpass

CheckOsm == pc = "args" /\ NoOsmInput /\ Refuse("NO_OSM_INPUT")

CheckMotCfgs ==
    pc = "args" /\ ~NoOsmInput /\ opt.cfgs = <<>> /\ Refuse("NO_MOT_CFG")

Accepted == pc = "args" /\ ~NoOsmInput /\ opt.cfgs # <<>>

CheckFeeds ==
    Accepted /\ opt.feeds > 1 /\ ~Filter /\ Refuse("MULT_FEEDS_NOT_ALWD")

StartReading ==
    /\ Accepted /\ (opt.feeds = 1 \/ Filter)
    /\ pc' = IF opt.feeds = 0 THEN "mode" ELSE "read"
    /\ UNCHANGED <<opt, diskVars, feed, feedAt, at, full, path, ret, runs, start>>

NothingToRead ==
    /\ Accepted /\ opt.feeds = 0 /\ ~Filter
    /\ pc' = "mode"
    /\ UNCHANGED <<opt, diskVars, feed, feedAt, at, full, path, ret, runs, start>>

InDir == IF feedAt = 1 THEN "in1" ELSE "in2"

\* read_config.shapes = cfg_.evaluate
Results ==
    IF Tables[at] = "shapes" /\ ~opt.evaluate
    THEN {"skip"} ELSE read(Tables[at], files[InDir][Tables[at]])

\* The next table, feed, or step of run()
NextTable ==
    IF at < Len(Tables)
    THEN at' = at + 1 /\ UNCHANGED <<feedAt, pc>>
    ELSE /\ at' = 1 /\ feedAt' = feedAt + 1
         /\ pc' = IF feedAt < opt.feeds THEN "read" ELSE "mode"

ReadTable ==
    /\ pc = "read" /\ Results \cap {"ok", "skip"} # {}
    /\ feed' =
         CASE feedAt = 1 /\ Tables[at] = "trips" ->
                [feed EXCEPT !.names = names["in1"]]
           [] feedAt = 1 /\ Tables[at] = "shapes" /\ opt.evaluate ->
                [feed EXCEPT !.shapes = stored["in1"]]
           [] OTHER -> feed
    /\ NextTable
    /\ UNCHANGED <<opt, diskVars, full, path, ret, runs, start>>

RefuseTable == pc = "read" /\ "error" \in Results /\ Refuse("GTFS_PARSE_ERR")

\* An exception leaves the handler of a row through the noexcept parse_csv
KilledByTable == pc = "read" /\ "terminate" \in Results /\ Refuse("died")

-----------------------------------------------------------------------------
(* The modes.                                                              *)

HasInput == opt.feeds > 0

CheckTrip ==
    /\ pc = "mode" /\ opt.trip # None
    /\ \/ ~HasInput /\ Refuse("NO_INPUT_FEED")
       \/ HasInput /\ opt.trip = Unknown /\ Refuse("TRIP_NOT_FOUND")

TripChecked ==
    pc = "mode" /\ (opt.trip # None => HasInput /\ opt.trip # Unknown)

\* -X writes an OSM file and nothing else.  get_gtfs_box throws for a trip
\* without stop_times, filter_write for an unreadable OSM input
WriteOsm ==
    TripChecked /\ opt.osmOut /\ \E r \in {"SUCCESS", "died"} : Refuse(r)

WriteOverpass ==
    TripChecked /\ ~opt.osmOut /\ opt.overpass /\ \E r \in {"SUCCESS", "died"} : Refuse(r)

CheckInput == TripChecked /\ ~Filter /\ ~HasInput /\ Refuse("NO_INPUT_FEED")

StartMatching ==
    /\ TripChecked /\ ~Filter /\ HasInput
    /\ pc' = "match" /\ at' = 1
    /\ UNCHANGED <<opt, diskVars, feed, feedAt, full, path, ret, runs, start>>

InMatching == pc = "match" /\ at <= Len(opt.cfgs)

UsedMots == opt.cfgs[at] \cap opt.mots

NotForConfig == UsedMots = {} \/ (opt.trip # None /\ opt.trip \notin UsedMots)

SkipConfig ==
    /\ InMatching /\ NotForConfig
    /\ at' = at + 1
    /\ UNCHANGED <<opt, diskVars, feed, feedAt, full, path, ret, runs, start, pc>>

\* Reading the OSM file or routing throws (see ShapeBuilder)
MatchDies == InMatching /\ ~NotForConfig /\ Refuse("died")

\* Mutant: the loop goes on after the path was written
WritePathGoesOn ==
    /\ InMatching /\ ~NotForConfig /\ opt.trip # None
    /\ path' = TRUE /\ at' = at + 1
    /\ UNCHANGED <<opt, diskVars, feed, feedAt, full, ret, runs, start, pc>>

WritePath ==
    /\ InMatching /\ ~NotForConfig /\ opt.trip # None
    /\ path' = TRUE /\ Return("SUCCESS") /\ UNCHANGED diskVars

\* The types whose trips get a new shape from cluster_trips and get_shape
Reshaped ==
    {t \in UsedMots : opt.drop \/ Named(feed.names, t) \notin feed.shapes}

\* Mutant: all shapes of the feed are cleared for the new ones
ShapesCleared == Reshaped \X {"new"}

\* An old shape that loses its last trip is erased
ShapesAfter ==
    (feed.shapes \ {Named(feed.names, t) : t \in Reshaped})
    \cup (Reshaped \X {"new"})

MatchConfig ==
    /\ InMatching /\ ~NotForConfig /\ opt.trip = None
    /\ feed' = [names |-> [t \in Types |->
                             IF t \in Reshaped THEN "new" ELSE feed.names[t]],
                shapes |-> ShapesAfter]
    /\ at' = at + 1
    /\ UNCHANGED <<opt, diskVars, feedAt, full, path, ret, runs, start, pc>>

\* Mutant: the first table is left out
StartWritingLate ==
    /\ pc = "match" /\ at = Len(opt.cfgs) + 1
    /\ pc' = "write" /\ at' = 2
    /\ UNCHANGED <<opt, diskVars, feed, feedAt, full, path, ret, runs, start>>

StartWriting ==
    /\ pc = "match" /\ at = Len(opt.cfgs) + 1
    /\ pc' = "write" /\ at' = 1
    /\ UNCHANGED <<opt, diskVars, feed, feedAt, full, path, ret, runs, start>>

-----------------------------------------------------------------------------
(* feed_writter::write.                                                    *)

\* Mutant: the output goes where the input came from
OutDirIsInput == "in1"

OutDir == IF opt.inPlace THEN "in1" ELSE "out"

\* The writers of the other tables have no body: flowing off their end is
\* undefined, and the result that write() tests is whatever is found
Implemented == {"agency", "stops", "routes", "trips", "stop_times", "shapes"}

Writing == pc = "write" /\ at <= Len(Tables)

\* write_csv tests only whether the file could be opened: when the disk is
\* full, some of the rows are lost
WriteTable ==
    /\ Writing /\ Tables[at] \in Implemented
    /\ full' \in {full, TRUE}
    /\ files' = [files EXCEPT ![OutDir][Tables[at]] = IF full' THEN Cut ELSE Written]
    /\ \E kept \in IF full' THEN SUBSET Types ELSE {Types} :
         /\ names' = IF Tables[at] # "trips" THEN names
                     ELSE [names EXCEPT ![OutDir] =
                              [t \in Types |-> IF t \in kept THEN feed.names[t] ELSE None]]
         /\ stored' = IF Tables[at] # "shapes" THEN stored
                      ELSE [stored EXCEPT ![OutDir] = {s \in feed.shapes : s[1] \in kept}]
    /\ at' = at + 1
    /\ UNCHANGED <<opt, feed, feedAt, path, ret, runs, start, pc>>

CannotOpen ==
    Writing /\ Tables[at] \in Implemented /\ Refuse("GTFS_WRITE_ERR")

SkipTable ==
    /\ Writing /\ Tables[at] \notin Implemented
    /\ at' = at + 1
    /\ UNCHANGED <<opt, diskVars, feed, feedAt, full, path, ret, runs, start, pc>>

FailAtTable ==
    /\ Writing /\ Tables[at] \notin Implemented
    /\ \E r \in {"GTFS_WRITE_ERR", "died"} : Refuse(r)

FeedWritten ==
    pc = "write" /\ at = Len(Tables) + 1 /\ Refuse("SUCCESS")

-----------------------------------------------------------------------------
\* The program is run once more, on what is there now
RunAgain ==
    /\ pc = "end" /\ runs < MaxRuns
    /\ opt \in Repeated /\ opt' \in Repeated
    /\ feed' = NoFeed /\ feedAt' = 1 /\ at' = 1
    /\ full' = FALSE /\ path' = FALSE /\ ret' = None /\ runs' = runs + 1
    /\ start' = Snapshot
    /\ pc' = "args"
    /\ UNCHANGED diskVars

Ended ==
    /\ pc = "end" /\ (runs < MaxRuns => opt \notin Repeated)
    /\ UNCHANGED vars

Next ==
    \/ CheckOsm \/ CheckMotCfgs \/ CheckFeeds \/ StartReading \/ NothingToRead
    \/ ReadTable \/ RefuseTable \/ KilledByTable
    \/ CheckTrip \/ WriteOsm \/ WriteOverpass \/ CheckInput \/ StartMatching
    \/ SkipConfig \/ MatchDies \/ WritePath \/ MatchConfig \/ StartWriting
    \/ WriteTable \/ CannotOpen \/ SkipTable \/ FailAtTable \/ FeedWritten
    \/ RunAgain \/ Ended

Spec == Init /\ [][Next]_vars

-----------------------------------------------------------------------------
(* Properties.                                                             *)

\* Files change only in a run that has read and accepted every table of its
\* feed, whatever an earlier run left there: no mode but the matching one,
\* no refused argument and no refused feed touches a file (the order of
\* checks, readers and modes in app::run).
AcceptedBeforeWriting ==
    files # start.files =>
        /\ opt.feeds = 1 /\ ~Filter /\ opt.trip # Unknown
        /\ \A t \in Range(Tables) \ (IF opt.evaluate THEN {} ELSE {"shapes"}) :
              LET c == start.files["in1"][t]
              IN /\ c = Absent => t \notin Required
                 /\ c # Empty
                 /\ c.is = "defect" => RowResult(t, c) = "ok"

\* A feed given as input is the same after a run that is not in place, so
\* that a failed run can be repeated; a second feed is never written to.
InputKept ==
    [][ /\ files'["in1"] # files["in1"] => opt.inPlace
        /\ files'["in2"] = files["in2"] ]_vars

WroteFeed == ret = "SUCCESS" /\ ~Filter /\ ~path

\* SUCCESS of a matching run: each table that has a writer was written by it
\* (write() stops at the first error).
SuccessMeansWritten ==
    WroteFeed =>
        \A t \in Implemented : files[OutDir][t] \in {Written, Cut}

Resolves(nms, shps, t) == nms[t] # None /\ Named(nms, t) \in shps

\* What became of the shapes of type t in a run that wrote the feed
ShapeKept(t) ==
    Resolves(start.names["in1"], start.stored["in1"], t)
        => Resolves(names[OutDir], stored[OutDir], t)

\* When shapes.txt is read (--eval), a trip that has a shape in the input has
\* one in the output, for every selection of route types and configurations,
\* with and without -D and after any earlier run, unless the disk is full
\* (trips and shapes are written to different files, at different times).
ReadShapesKept ==
    WroteFeed /\ ~full /\ opt.evaluate => \A t \in Types : ShapeKept(t)

\* README.md: "To drop all existing shapes, use the `-D` flag": without -D a
\* trip that has a shape in the input has one in the output.
ShapesDroppedOnlyOnDemand ==
    WroteFeed /\ ~full /\ ~opt.drop => \A t \in Types : ShapeKept(t)

\* A run for a single trip (-T) that returns SUCCESS has written path.json and
\* no table, unless every configuration was skipped: then it has gone on as
\* if no trip had been given.  The loop over the configurations, its two
\* early continues and the return inside of it decide which.
SingleTripOutputsPath ==
    ret = "SUCCESS" /\ ~Filter /\ opt.trip # None =>
        IF \E k \in DOMAIN opt.cfgs : opt.trip \in opt.cfgs[k] \cap opt.mots
        THEN path /\ files = start.files
        ELSE ~path /\ SuccessMeansWritten

\* Types, and the exit of run(): a return code is set exactly when the run is
\* over, so no refusal is forgotten on the way.
TypeOK ==
    /\ opt \in Options
    /\ \A d \in Dirs : \A t \in Range(Tables) :
         files[d][t] \in Content
    /\ names \in [Dirs -> [Types -> {None, "old", "new"}]]
    /\ stored \in [Dirs -> SUBSET (Types \X {"old", "new"})]
    /\ feed.names \in [Types -> {None, "old", "new"}]
    /\ feed.shapes \subseteq Types \X {"old", "new"}
    /\ full \in BOOLEAN
    /\ feedAt \in 1..3 /\ at \in 1..(Len(Tables) + 1)
    /\ runs \in 0..MaxRuns
    /\ pc \in {"args", "read", "mode", "match", "write", "end"}
    /\ pc = "end" <=> ret # None
=============================================================================
