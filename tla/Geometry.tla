------------------------------ MODULE Geometry ------------------------------
(***************************************************************************)
(* util::geo, as far as the OSM builder and the transport graph use it, on *)
(* a grid of integers.  Streets follow the lines of the grid, so lengths   *)
(* add up exactly and an angle at a crossing is sharp only if two streets  *)
(* leave it the same way.                                                  *)
(***************************************************************************)
EXTENDS Integers, Sequences, FiniteSetsExt, TLC

LOCAL Abs(v) == IF v < 0 THEN -v ELSE v

\* webMercMeterDist
Dist(p, q) == Abs(p[1] - q[1]) + Abs(p[2] - q[2])

Minus(p, q) == <<p[1] - q[1], p[2] - q[2]>>
Dot(u, v)   == u[1] * v[1] + u[2] * v[2]
Cross(u, v) == u[1] * v[2] - u[2] * v[1]

\* angSmaller: seen from m the directions to f and t make a full turn
angSmaller(f, m, t) ==
    LET u == Minus(f, m)  v == Minus(t, m) IN Cross(u, v) = 0 /\ Dot(u, v) > 0

\* distToSegment, squared and scaled by the square of the segment's length
LOCAL Scaled(la, lb, p) ==
    LET s == Minus(lb, la)  u == Minus(p, la)  v == Minus(p, lb)
    IN CASE s = <<0, 0>>            -> Dot(u, u)
         [] Dot(u, s) < 0           -> Dot(u, u) * Dot(s, s)
         [] Dot(u, s) > Dot(s, s)   -> Dot(v, v) * Dot(s, s)
         [] OTHER                   -> Cross(u, s) * Cross(u, s)

\* simplify, with the distance 0.5 that simplify_geometries passes: the
\* point farthest from the line between the ends stays if it is farther
\* than that, and the two parts are simplified in turn (Douglas-Peucker)
RECURSIVE simplify(_)
simplify(l) ==
    LET a == Head(l)  b == l[Len(l)]
        inner == 2..(Len(l) - 1)
        far == Max({0} \cup {Scaled(a, b, l[k]) : k \in inner})
        unit == IF a = b THEN 1 ELSE Dot(Minus(b, a), Minus(b, a))
        at == Min({k \in inner : Scaled(a, b, l[k]) = far})
    IN IF 4 * far > unit
       THEN simplify(SubSeq(l, 1, at)) \o Tail(simplify(SubSeq(l, at, Len(l))))
       ELSE <<a, b>>

-----------------------------------------------------------------------------
(* Boxes: [ll, ur], the lower left and the upper right corner.             *)

Box(x1, y1, x2, y2) == [ll |-> <<x1, y1>>, ur |-> <<x2, y2>>]

pad(b, d) == Box(b.ll[1] - d, b.ll[2] - d, b.ur[1] + d, b.ur[2] + d)

\* Mutant: the upper side is not moved
extendBoxLow(a, b) ==
    Box(Min({a.ll[1], b.ll[1]}), Min({a.ll[2], b.ll[2]}), Max({a.ur[1], b.ur[1]}), b.ur[2])

extendBox(a, b) ==
    Box(Min({a.ll[1], b.ll[1]}), Min({a.ll[2], b.ll[2]}),
        Max({a.ur[1], b.ur[1]}), Max({a.ur[2], b.ur[2]}))

contains(p, b) == \A k \in 1..2 : b.ll[k] <= p[k] /\ p[k] <= b.ur[k]

\* Zero unless the boxes overlap
commonArea(a, b) ==
    LET side(k) == Min({a.ur[k], b.ur[k]}) - Max({a.ll[k], b.ll[k]})
    IN IF side(1) < 0 \/ side(2) < 0 THEN 0 ELSE side(1) * side(2)
=============================================================================
