--------------------------- MODULE MCShapeBuilder ---------------------------
(* A feed of four trips on two routes.  t1 and t2 run one pattern, on      *)
(* routes of different type with the same line name, over two stops b, b2  *)
(* that are routing-equal; t3 runs back; t4 has no route.  The shape ids   *)
(* of the input collide with generated ones.                               *)
EXTENDS ShapeBuilder, TLC

CONSTANTS t1, t2, t3, t4, r1, r2, bus, tram, a, b, b2, c, e, p

MCRouteOf  == t1 :> r1 @@ t2 :> r2 @@ t3 :> r1 @@ t4 :> NoRoute
MCTypeOf   == r1 :> bus @@ r2 :> tram
MCLineOf   == r1 :> "1" @@ r2 :> "1"
MCNameOf   == [s \in Stops |-> IF s = b2 THEN b ELSE s]
MCNear     == {<<b, b2>>, <<b2, b>>}
MCParentOf == [s \in Stops |-> IF s = e THEN p ELSE NoStop]

\* In one table every stop can be routed; in one t3 starts at the entrance e
\* of station p; in one t3 stops only once and t4 has no stop_times
MCStopTimes ==
    LET good == t1 :> <<a, b, c>> @@ t2 :> <<a, b2, c>> @@ t3 :> <<c, a>> @@ t4 :> <<b, a>>
    IN {good, [good EXCEPT ![t3] = <<e, a>>], [good EXCEPT ![t3] = <<a>>, ![t4] = <<>>]}

\* Trams are handled after buses, which are handled twice; the last
\* configuration handles nothing
MCMotCfgs == <<{bus}, {tram, bus}, {}>>

MCOptions  == [drop : BOOLEAN, evaluate : BOOLEAN]
MCInputIds == {<<r1, 1>>, <<r1, 2>>}
=============================================================================
