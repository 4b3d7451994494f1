------------------------------ MODULE MCAppRun ------------------------------
(* A feed with bus and rail trips; a configuration for buses, one for both. *)
EXTENDS AppRun, TLC

CONSTANTS bus, rail

AllGood == [t \in Range(Tables) |-> Good]
Defect(f, k) == [is |-> "defect", field |-> f, kind |-> k]

\* One table is missing, has no header, or has a row with a bad field; some
\* of these the reader accepts
Broken(t) ==
    LET r == Reader[t]
        one == CHOOSE f \in r.at : TRUE
    IN {Absent, Empty, Defect(one, "missing"), Defect(one, "blank")}
       \cup {Defect(f, k) : f \in r.required \cup r.checked \cup r.outside,
                            k \in {"missing", "blank", "malformed"}}

MCDisks ==
    {AllGood} \cup UNION {{[AllGood EXCEPT ![t] = c] : c \in Broken(t)} :
                             t \in Range(Tables)}

Base ==
    [cfgs |-> <<{bus}, {bus, rail}>>, osm |-> TRUE, overpass |-> FALSE,
     osmOut |-> FALSE, feeds |-> 1, inPlace |-> FALSE, evaluate |-> FALSE,
     drop |-> FALSE, mots |-> Types, trip |-> None]

\* The modes: missing arguments, feeds and single trips, filters, in place
MCModes ==
    LET Bus == [Base EXCEPT !.cfgs = <<{bus}>>, !.evaluate = TRUE]
    IN {[Base EXCEPT !.osm = FALSE], [Base EXCEPT !.cfgs = <<>>]}
       \cup {[Bus EXCEPT !.feeds = n, !.trip = t] :
                n \in 0..2, t \in Types \cup {None, Unknown}}
       \cup {[Bus EXCEPT !.feeds = n, !.osm = x, !.overpass = a, !.osmOut = ~a \/ x] :
                n \in 0..2, a \in BOOLEAN, x \in BOOLEAN}
       \cup {[Base EXCEPT !.inPlace = TRUE, !.cfgs = <<{bus}>>, !.trip = t] :
                t \in {None, rail}}

MCDefault == {Base, [Base EXCEPT !.mots = {bus}]}

\* Two runs in a row, in place
MCTwice ==
    {[Base EXCEPT !.inPlace = TRUE, !.mots = m] : m \in {{bus}, Types}}
    \cup {[Base EXCEPT !.inPlace = TRUE, !.evaluate = TRUE, !.drop = d,
                       !.mots = {bus}] : d \in BOOLEAN}

MCAll == MCModes \cup MCTwice

\* Every broken table in each mode; a good feed where the runs are repeated
MCInput == [o \in MCAll |-> IF o \in MCTwice THEN {AllGood} ELSE MCDisks]
MCGood  == [o \in MCDefault |-> {AllGood}]
=============================================================================
