----------------------------- MODULE MCGtfsShape -----------------------------
(* Three hops.  Gaps below, at and above the emission threshold; departures *)
(* around a full minute and a full hour, so that the dwell time carries.    *)
EXTENDS GtfsShape
=============================================================================
