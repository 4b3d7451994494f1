------------------------------- MODULE GtfsCsv -------------------------------
(***************************************************************************)
(* One row of a written GTFS table on its way through the file: the        *)
(* feed_writter joins the fields of a record, enclosing some of them in    *)
(* quotation marks, and the csv_parser splits the row again and puts the   *)
(* fields under the names of the header.                                   *)
(*                                                                         *)
(* A text is a sequence of characters.  A field is written as "text" (by   *)
(* wrap(std::string)), "raw" (the string itself) or "number" (wrap of a    *)
(* double, an integer or an enum: digits only).  Header names have no      *)
(* special characters, so field_sequence is the header as written.         *)
(***************************************************************************)
EXTENDS Integers, Sequences, SequencesExt

CONSTANTS
    Tables,     \* the tables whose rows are written
    Texts,      \* what one text field of the record holds
    NearTexts,  \* what the text field next to it holds
    RawTexts    \* what a raw field holds: nothing that needs enclosing

Quote == "\""
csv_separator == ","
Blank == " "
Tab == "\t"

ASSUME TextAssumption ==
    /\ Tables \subseteq {"agency", "stops", "routes", "trips", "stop_times", "shapes"}
    /\ <<>> \in NearTexts \cap RawTexts
    /\ \A text \in RawTexts : Range(text) \cap {Quote, csv_separator, Blank, Tab} = {}

VARIABLES
    table, rec,          \* the record in memory, by column name
    line,                \* the row as written
    i,                   \* characters of it that split_record has seen
    token, is_inside_quotes, quotes_in_token, fields, \* split_record
    pc

vars == <<table, rec, line, i, token, is_inside_quotes, quotes_in_token, fields, pc>>

-----------------------------------------------------------------------------
(* The columns of the tables: the header, and what is written for each.    *)

write_agency_header ==
    <<"agency_id", "agency_name", "agency_url", "agency_timezone", "agency_lang",
      "agency_phone", "agency_fare_url", "agency_email">>

write_agencies ==
    <<<<"agency_id", "text">>, <<"agency_name", "text">>, <<"agency_url", "text">>,
      <<"agency_timezone", "raw">>, <<"agency_lang", "raw">>,
      <<"agency_phone", "text">>, <<"agency_fare_url", "raw">>,
      <<"agency_email", "raw">>>>

write_routes_header ==
    <<"route_id", "agency_id", "route_short_name", "route_long_name", "route_desc",
      "route_type", "route_url", "route_color", "route_text_color",
      "route_sort_order", "continuous_pickup", "continuous_drop_off">>

write_routes ==
    <<<<"route_id", "text">>, <<"agency_id", "text">>, <<"route_short_name", "text">>,
      <<"route_long_name", "text">>, <<"route_desc", "text">>,
      <<"route_type", "number">>, <<"route_url", "raw">>, <<"route_color", "raw">>,
      <<"route_text_color", "raw">>, <<"route_sort_order", "number">>,
      <<"continuous_pickup", "none">>, <<"continuous_drop_off", "none">>>>

write_shapes_header ==
    <<"shape_id", "shape_pt_lat", "shape_pt_lon", "shape_pt_sequence",
      "shape_dist_traveled">>

write_shapes ==
    <<<<"shape_id", "text">>, <<"shape_pt_lat", "number">>,
      <<"shape_pt_lon", "number">>, <<"shape_pt_sequence", "number">>,
      <<"shape_dist_traveled", "number">>>>

write_trips_header ==
    <<"route_id", "service_id", "trip_id", "trip_headsign", "trip_short_name",
      "direction_id", "block_id", "shape_id", "wheelchair_accessible",
      "bikes_allowed">>

write_trips ==
    <<<<"route_id", "text">>, <<"service_id", "text">>, <<"trip_id", "text">>,
      <<"trip_headsign", "text">>, <<"trip_short_name", "text">>,
      <<"direction_id", "number">>, <<"block_id", "text">>, <<"shape_id", "text">>,
      <<"wheelchair_accessible", "number">>, <<"bikes_allowed", "number">>>>

write_stops_header ==
    <<"stop_id", "stop_code", "stop_name", "stop_desc", "stop_lat", "stop_lon",
      "zone_id", "stop_url", "location_type", "parent_station", "stop_timezone",
      "wheelchair_boarding", "level_id", "platform_code">>

write_stops ==
    <<<<"stop_id", "text">>, <<"stop_code", "text">>, <<"stop_name", "text">>,
      <<"stop_desc", "text">>, <<"stop_lat", "number">>, <<"stop_lon", "number">>,
      <<"zone_id", "text">>, <<"stop_url", "raw">>, <<"location_type", "number">>,
      <<"parent_station", "text">>, <<"stop_timezone", "raw">>,
      <<"wheelchair_boarding", "text">>, <<"level_id", "text">>,
      <<"platform_code", "text">>>>

write_stop_times_header ==
    <<"trip_id", "arrival_time", "departure_time", "stop_id", "stop_sequence",
      "stop_headsign", "pickup_type", "drop_off_type", "continuous_pickup",
      "continuous_drop_off", "shape_dist_traveled", "timepoint">>

\* get_raw_time is a checked [H]H:MM:SS, or empty
write_stop_times ==
    <<<<"trip_id", "text">>, <<"arrival_time", "number">>,
      <<"departure_time", "number">>, <<"stop_id", "text">>,
      <<"stop_sequence", "number">>, <<"stop_headsign", "text">>,
      <<"pickup_type", "number">>, <<"drop_off_type", "number">>,
      <<"continuous_pickup", "none">>, <<"continuous_drop_off", "none">>,
      <<"shape_dist_traveled", "number">>, <<"timepoint", "number">>>>

Header ==
    [agency |-> write_agency_header, stops |-> write_stops_header,
     routes |-> write_routes_header, trips |-> write_trips_header,
     stop_times |-> write_stop_times_header, shapes |-> write_shapes_header]

Columns ==
    [agency |-> write_agencies, stops |-> write_stops, routes |-> write_routes,
     trips |-> write_trips, stop_times |-> write_stop_times,
     shapes |-> write_shapes]

-----------------------------------------------------------------------------
(* misc.cpp: enclosing a field, and taking it out again.                   *)

Special(text) == Quote \in Range(text) \/ csv_separator \in Range(text)

\* std::quoted with the quotation mark as its own escape character
quote_text(text) ==
    <<Quote>>
    \o FlattenSeq([k \in DOMAIN text |->
           IF text[k] = Quote THEN <<Quote, Quote>> ELSE <<text[k]>>])
    \o <<Quote>>

\* Mutant: only fields with a separator are enclosed
wrap_separators(text) ==
    IF csv_separator \in Range(text) THEN quote_text(text) ELSE text

wrap(text) == IF Special(text) THEN quote_text(text) ELSE text

\* The quotation marks from the one at k back to the start of its run
RunUpTo(text, k) ==
    CHOOSE n \in 1..k :
        /\ \A m \in (k - n + 1)..k : text[m] = Quote
        /\ n = k \/ text[k - n] # Quote

\* Of a run of quotation marks every second one is dropped
Unescape(text) ==
    LET Kept(k) == text[k] # Quote \/ RunUpTo(text, k) % 2 = 1
    IN FlattenSeq([k \in DOMAIN text |-> IF Kept(k) THEN <<text[k]>> ELSE <<>>])

unquote_text(text) ==
    IF Len(text) > 1 /\ Head(text) = Quote /\ Last(text) = Quote
    THEN Unescape(SubSeq(text, 2, Len(text) - 1))
    ELSE Unescape(text)

trim_spaces(text) ==
    LET solid == {k \in DOMAIN text : text[k] \notin {Blank, Tab}}
    IN IF solid = {} THEN <<>> ELSE SubSeq(text, Min(solid), Max(solid))

normalize(text, has_quotes) ==
    IF has_quotes THEN unquote_text(trim_spaces(text)) ELSE trim_spaces(text)

-----------------------------------------------------------------------------
(* Writing a row.                                                          *)

Values(kind, near) ==
    CASE kind = "text"   -> IF near THEN NearTexts ELSE Texts
      [] kind = "raw"    -> RawTexts
      [] kind = "number" -> {<<"0">>}
      [] kind = "none"   -> {<<>>}

\* Two neighbouring columns c, c + 1 hold something, the others are empty
Record(t, c, value, near) ==
    [name \in Range(Header[t]) |->
        CASE name = Columns[t][c][1]     -> value
          [] name = Columns[t][c + 1][1] -> near
          [] OTHER -> <<>>]

Init ==
    /\ table \in Tables
    /\ \E c \in 1..(Len(Columns[table]) - 1) :
         \E value \in Values(Columns[table][c][2], FALSE),
            near \in Values(Columns[table][c + 1][2], TRUE) :
              rec = Record(table, c, value, near)
    /\ line = <<>> /\ i = 0
    /\ token = <<>> /\ fields = <<>>
    /\ is_inside_quotes = FALSE /\ quotes_in_token = FALSE
    /\ pc = "write"

\* What a column of the row holds
Written(column) ==
    IF column[2] = "text" THEN wrap(rec[column[1]]) ELSE rec[column[1]]

write_joined(elements) ==
    FoldLeft(LAMBDA row, f : row \o <<csv_separator>> \o f,
             Head(elements), Tail(elements))

WriteRow ==
    /\ pc = "write"
    /\ line' = write_joined([k \in DOMAIN Columns[table] |-> Written(Columns[table][k])])
    /\ pc' = "split"
    /\ UNCHANGED <<table, rec, i, token, is_inside_quotes, quotes_in_token, fields>>

-----------------------------------------------------------------------------
(* csv_parser::split_record, one character after the other.                *)

Char == line[i + 1]

Reading == pc = "split" /\ i < Len(line)

ReadQuote ==
    /\ Reading /\ Char = Quote
    /\ is_inside_quotes' = ~is_inside_quotes
    /\ quotes_in_token' = TRUE
    /\ token' = Append(token, Char)
    /\ i' = i + 1
    /\ UNCHANGED <<table, rec, line, fields, pc>>

\* A separator outside of quotation marks ends the field
EndField ==
    /\ Reading /\ Char = csv_separator /\ ~is_inside_quotes
    /\ fields' = Append(fields, normalize(token, quotes_in_token))
    /\ token' = <<>> /\ quotes_in_token' = FALSE
    /\ i' = i + 1
    /\ UNCHANGED <<table, rec, line, is_inside_quotes, pc>>

ReadChar ==
    /\ Reading /\ Char # Quote
    /\ Char = csv_separator => is_inside_quotes
    /\ token' = IF Char = Tab THEN token ELSE Append(token, Char)
    /\ i' = i + 1
    /\ UNCHANGED <<table, rec, line, is_inside_quotes, quotes_in_token, fields, pc>>

EndRow ==
    /\ pc = "split" /\ i = Len(line)
    /\ fields' = Append(fields, normalize(token, quotes_in_token))
    /\ pc' = "done"
    /\ UNCHANGED <<table, rec, line, i, token, is_inside_quotes, quotes_in_token>>

Done == pc = "done" /\ UNCHANGED vars

Next == WriteRow \/ ReadQuote \/ EndField \/ ReadChar \/ EndRow \/ Done

Spec == Init /\ [][Next]_vars

-----------------------------------------------------------------------------
(* Properties.                                                             *)

\* read_row: the fields under the names of the header, as far as both go
RowRead ==
    [name \in {Header[table][k] : k \in 1..Min({Len(fields), Len(Header[table])})} |->
        fields[CHOOSE k \in DOMAIN fields : Header[table][k] = name]]

\* What a file can hold of a text: no tab, and no blank at either end unless
\* the field is enclosed
Storable(text) ==
    LET clean == SelectSeq(text, LAMBDA ch : ch # Tab)
    IN IF Special(text) THEN clean ELSE trim_spaces(clean)

\* A record written by feed_writter is read back by feed_reader field by
\* field under its own column names, whatever quotation marks, separators
\* and blanks its wrapped texts hold: wrap, write_joined, split_record,
\* normalize and the order of header and row agree.
RecordReadBack ==
    pc = "done" => RowRead = [name \in DOMAIN rec |-> Storable(rec[name])]
=============================================================================
