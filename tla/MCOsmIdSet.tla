----------------------------- MODULE MCOsmIdSet -----------------------------
(* Tiny buffers, so that five ids already need several blocks, several     *)
(* flushes and several parts with refilled buffers.  Ids 1 and 2 share a   *)
(* Bloom bit with each other; 0 shares both its bits with 1 and 3.         *)
EXTENDS OsmIdSet

MCBloomOf == (0 :> {1, 3}) @@ (1 :> {1, 2}) @@ (2 :> {2, 4}) @@ (3 :> {3, 4})
=============================================================================
