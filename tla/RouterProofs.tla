----------------------------- MODULE RouterProofs -----------------------------
(***************************************************************************)
(* The route cache is sound and routes are contiguous, for every street    *)
(* graph, cost function and sequence of calls.  The searches are used by   *)
(* their contract: Lowest gives the greatest costs that no link undercuts, *)
(* and a path it returns has steps that are exact under them.              *)
(***************************************************************************)
EXTENDS Router, Induction, FiniteSetTheorems

-----------------------------------------------------------------------------
(* Costs.                                                                  *)

\* Costs are not negative
LEMMA TimesNat ==
  \A x, y \in Nat : x * y \in Nat
  OBVIOUS

LEMMA UnlikeNat ==
  ASSUME NEW attrs, NEW line
  PROVE  Unlike(attrs, line) \in Nat
  <1> DEFINE K == {"name", "from", "to"}
             T == {k \in K : attrs[k] = "" \/ (k # "name" /\ line[k] = "") \/ line[k] = attrs[k]}
  <1>1. IsFiniteSet({"name"}) /\ Cardinality({"name"}) = 1
    BY FS_Singleton
  <1>2. IsFiniteSet({"name"} \cup {"from"}) /\ Cardinality({"name"} \cup {"from"}) \in {1, 2}
    BY <1>1, FS_AddElement
  <1>3. IsFiniteSet(({"name"} \cup {"from"}) \cup {"to"})
        /\ Cardinality(({"name"} \cup {"from"}) \cup {"to"}) \in {1, 2, 3}
    BY <1>2, FS_AddElement
  <1>4. K = ({"name"} \cup {"from"}) \cup {"to"}
    OBVIOUS
  <1>5. IsFiniteSet(K) /\ Cardinality(K) \in {1, 2, 3}
    BY <1>3, <1>4
  <1>6. T \in SUBSET K
    OBVIOUS
  <1>7. Cardinality(T) \in Nat /\ Cardinality(T) <= Cardinality(K)
    BY <1>5, <1>6, FS_Subset, FS_CardinalityType
  <1>8. Unlike(attrs, line) = 3 - Cardinality(T)
    BY DEF Unlike
  <1> HIDE DEF T, K
  <1> QED
    BY <1>5, <1>7, <1>8

\* The least of an inhabited set of naturals
LEMMA MinExists ==
  ASSUME NEW U \in SUBSET Nat, U # {}
  PROVE  Min(U) \in U /\ \A y \in U : Min(U) <= y
  <1>1. PICK x \in U : \A y \in U : ~(y < x)
    BY LeastElement
  <1>2. \A y \in U : x <= y
    BY <1>1
  <1> QED
    BY <1>2 DEF Min

LEMMA CostNat ==
  ASSUME NEW attrs, NEW grp, NEW e \in Edges, NEW f
  PROVE  Cost(attrs, grp, e, f) \in Nat
  <1> DEFINE len == EdgeInfo[e].len
             lev == Opts.levelPunish[EdgeInfo[e].level + 1]
             cmp == transitLineCmp(attrs, e)
  <1>1. len \in Nat /\ lev \in Nat
    BY CostsAssumption
  <1>2. cmp \in Nat
    <2> DEFINE U == {3} \cup {Unlike(attrs, l) : l \in EdgeInfo[e].lines}
    <2>1. U \in SUBSET Nat /\ U # {}
      BY UnlikeNat
    <2>2. Min(U) \in Nat
      BY <2>1, MinExists
    <2> QED
      BY <2>2 DEF transitLineCmp
  <1>3. \A b : Bit(b) \in Nat
    BY DEF Bit
  <1> HIDE DEF len, lev, cmp
  <1> DEFINE
        turn == \/ From(e) = To(f) /\ To(e) = From(f)
                \/ getDeg(To(e)) > 2 /\ <<e, f>> \in Sharp
        bad == Bit(EdgeInfo[e].oneWay = 2 \/ <<e, f>> \in Forbidden)
        skips == Bit(grp # None /\ NodeInfo[To(e)].group \notin {None, grp})
        noLines == Bit(NoAttrs(attrs) /\ EdgeInfo[e].lines = {})
        full == Bit(turn)
  <1>4. Cost(attrs, grp, e, f) =
          len * lev + full * Opts.fullTurnPunishFac + skips * Opts.passThruStationsPunish
          + len * bad * Opts.oneWayPunishFac + bad * Opts.oneWayEdgePunish
          + len * cmp * Opts.lineUnmatchedPunishThird
          + noLines * len * Opts.noLinesPunishFact
    BY DEF Cost, len, lev, cmp
  <1>5. full \in Nat /\ bad \in Nat /\ skips \in Nat /\ noLines \in Nat
    BY <1>3
  <1> HIDE DEF full, bad, skips, noLines
  <1>6. /\ len * lev \in Nat /\ full * Opts.fullTurnPunishFac \in Nat
        /\ skips * Opts.passThruStationsPunish \in Nat
        /\ len * bad \in Nat /\ bad * Opts.oneWayEdgePunish \in Nat
        /\ len * cmp \in Nat /\ noLines * len \in Nat
    BY <1>1, <1>2, <1>5, TimesNat, CostsAssumption
  <1>7. /\ len * bad * Opts.oneWayPunishFac \in Nat
        /\ len * cmp * Opts.lineUnmatchedPunishThird \in Nat
        /\ noLines * len * Opts.noLinesPunishFact \in Nat
    BY <1>6, TimesNat, CostsAssumption
  <1> QED
    BY <1>4, <1>6, <1>7

LEMMA EdgeLinksFacts ==
  ASSUME NEW attrs, NEW grp, NEW l \in EdgeLinks(attrs, grp)
  PROVE  /\ l[1] \in Edges /\ l[2] \in Edges /\ l[3] \in Nat
         /\ To(l[1]) = From(l[2]) /\ l[3] = Cost(attrs, grp, l[1], l[2])
  <1>1. PICK t \in Turns : l = <<t[1], t[2], Cost(attrs, grp, t[1], t[2])>>
    BY DEF EdgeLinks
  <1>2. t[1] \in Edges /\ t[2] \in Edges /\ To(t[1]) = From(t[2])
    BY DEF Turns
  <1>3. l[1] = t[1] /\ l[2] = t[2] /\ l[3] = Cost(attrs, grp, t[1], t[2])
    BY <1>1
  <1>4. Cost(attrs, grp, t[1], t[2]) \in Nat
    BY <1>2, CostNat
  <1> QED
    BY <1>2, <1>3, <1>4

-----------------------------------------------------------------------------
(* What Lowest computes: the greatest assignment of costs that no link     *)
(* undercuts.                                                              *)

LinksOK(items, links) == \A l \in links : l[1] \in items /\ l[2] \in items /\ l[3] \in Nat

\* No link leads to an item for less than the item's cost
Feasible(d, links) == \A l \in links : d[l[2]] <= d[l[1]] + l[3]

Below(items, d, e) == \A y \in items : d[y] <= e[y]

LEMMA RelaxedFacts ==
  ASSUME NEW items, NEW links, LinksOK(items, links), NEW inf \in Nat,
         NEW d \in [items -> 0..inf]
  PROVE  LET r == Relaxed(items, links, d)
         IN /\ r \in [items -> 0..inf] /\ Below(items, r, d)
            /\ r = d => Feasible(d, links)
            /\ \A e \in [items -> 0..inf] :
                 Feasible(e, links) /\ Below(items, e, d) => Below(items, e, r)
  <1> DEFINE r == Relaxed(items, links, d)
             U(y) == {d[y]} \cup {d[l[1]] + l[3] : l \in {m \in links : m[2] = y}}
  <1>1. ASSUME NEW y \in items PROVE U(y) \in SUBSET Nat /\ U(y) # {}
    <2>1. ASSUME NEW l \in links PROVE d[l[1]] + l[3] \in Nat
      <3>1. l[1] \in items /\ l[3] \in Nat
        BY DEF LinksOK
      <3>2. d[l[1]] \in 0..inf
        BY <3>1
      <3> QED
        BY <3>1, <3>2
    <2>2. d[y] \in Nat
      OBVIOUS
    <2> QED
      BY <2>1, <2>2
  <1>2. \A y \in items : r[y] = Min(U(y))
    BY DEF Relaxed
  <1>3. \A y \in items : r[y] \in U(y) /\ \A c \in U(y) : r[y] <= c
    <2> HIDE DEF U, r
    <2> QED
      BY <1>1, <1>2, MinExists
  <1>4. DOMAIN r = items /\ r = [y \in items |-> r[y]]
    BY DEF Relaxed
  <1> HIDE DEF r
  <1>5. \A y \in items : r[y] \in Nat /\ r[y] <= d[y]
    BY <1>1, <1>3
  <1>6. r \in [items -> 0..inf]
    <2>1. \A y \in items : r[y] \in 0..inf
      BY <1>5
    <2> QED
      BY <1>4, <2>1
  <1>7. Below(items, r, d)
    BY <1>5 DEF Below
  <1>8. ASSUME r = d PROVE Feasible(d, links)
    <2> SUFFICES ASSUME NEW l \in links PROVE d[l[2]] <= d[l[1]] + l[3]
      BY DEF Feasible
    <2>1. l[2] \in items
      BY DEF LinksOK
    <2>2. d[l[1]] + l[3] \in U(l[2])
      OBVIOUS
    <2> HIDE DEF U
    <2> QED
      BY <1>3, <1>8, <2>1, <2>2
  <1>9. ASSUME NEW e \in [items -> 0..inf], Feasible(e, links), Below(items, e, d)
        PROVE  Below(items, e, r)
    <2> SUFFICES ASSUME NEW y \in items PROVE e[y] <= r[y]
      BY DEF Below
    <2>1. r[y] = d[y] \/ \E l \in links : l[2] = y /\ r[y] = d[l[1]] + l[3]
      BY <1>3
    <2>2. CASE r[y] = d[y]
      BY <1>9, <2>2 DEF Below
    <2>3. ASSUME NEW l \in links, l[2] = y, r[y] = d[l[1]] + l[3] PROVE e[y] <= r[y]
      <3>1. l[1] \in items /\ l[3] \in Nat
        BY DEF LinksOK
      <3>2. e[l[1]] \in Nat /\ d[l[1]] \in Nat /\ e[y] \in Nat
        BY <3>1
      <3>3. e[y] <= e[l[1]] + l[3]
        BY <1>9, <2>3 DEF Feasible
      <3>4. e[l[1]] <= d[l[1]]
        BY <1>9, <3>1 DEF Below
      <3> QED
        BY <2>3, <3>1, <3>2, <3>3, <3>4
    <2> QED
      BY <2>1, <2>2, <2>3
  <1> QED
    BY <1>6, <1>7, <1>8, <1>9 DEF r

\* The equations of Lowest
LowestOf(f, items, links, inf) ==
    f = [d \in [items -> 0..inf] |->
           LET r == Relaxed(items, links, d) IN IF r = d THEN d ELSE f[r]]

LEMMA LowestExists ==
  ASSUME NEW items, NEW links, LinksOK(items, links), NEW inf \in Nat
  PROVE  \E f : LowestOf(f, items, links, inf)
  <1> DEFINE D == [items -> 0..inf]
             R(d) == Relaxed(items, links, d)
             F(d) == {e \in D : Feasible(e, links) /\ Below(items, e, d)}
             M(d) == CHOOSE m \in F(d) : \A e \in F(d) : Below(items, e, m)
             g == [d \in D |-> M(d)]
  <1>1. ASSUME NEW d \in D
        PROVE  R(d) \in D /\ M(d) = IF R(d) = d THEN d ELSE M(R(d))
    <2>1. /\ R(d) \in D /\ Below(items, R(d), d)
          /\ R(d) = d => Feasible(d, links)
          /\ \A e \in D : Feasible(e, links) /\ Below(items, e, d) => Below(items, e, R(d))
      BY RelaxedFacts
    <2>2. CASE R(d) = d
      <3>1. d \in F(d) /\ \A e \in F(d) : Below(items, e, d)
        BY <2>1, <2>2 DEF Below
      <3>2. M(d) \in F(d) /\ \A e \in F(d) : Below(items, e, M(d))
        BY <3>1
      <3> DEFINE m == M(d)
      <3>3. m \in D /\ Below(items, d, m) /\ Below(items, m, d)
        BY <3>1, <3>2
      <3> HIDE DEF m
      <3>4. \A y \in items : m[y] = d[y]
        <4> SUFFICES ASSUME NEW y \in items PROVE m[y] = d[y]
          OBVIOUS
        <4>1. m[y] \in Int /\ d[y] \in Int /\ m[y] <= d[y] /\ d[y] <= m[y]
          BY <3>3 DEF Below
        <4> QED
          BY <4>1
      <3>5. m = d
        BY <3>3, <3>4
      <3> QED
        BY <2>1, <2>2, <3>5 DEF m
    <2>3. CASE R(d) # d
      <3> DEFINE s == R(d)
      <3>1. s \in D /\ Below(items, s, d)
        BY <2>1
      <3>2. \A e \in D : Below(items, e, s) => Below(items, e, d)
        <4> HIDE DEF s
        <4> SUFFICES ASSUME NEW e \in D, Below(items, e, s), NEW y \in items PROVE e[y] <= d[y]
          BY DEF Below
        <4>1. e[y] \in Int /\ s[y] \in Int /\ d[y] \in Int /\ e[y] <= s[y] /\ s[y] <= d[y]
          BY <3>1 DEF Below
        <4> QED
          BY <4>1
      <3>3. F(d) = F(s)
        BY <2>1, <3>2
      <3>4. M(d) = M(s)
        BY <3>3
      <3> QED
        BY <2>1, <2>3, <3>4
    <2> QED
      BY <2>2, <2>3
  <1> HIDE DEF M, F
  <1>2. \A d \in D : g[d] = IF R(d) = d THEN d ELSE g[R(d)]
    BY <1>1
  <1> DEFINE h == [d \in D |-> LET r == R(d) IN IF r = d THEN d ELSE g[r]]
  <1>3. DOMAIN g = D /\ DOMAIN h = D /\ \A d \in D : g[d] = h[d]
    BY <1>2
  <1>5. g = [d \in D |-> g[d]] /\ h = [d \in D |-> h[d]]
    OBVIOUS
  <1>4. g = h
    <2> HIDE DEF g, h
    <2> QED
      BY <1>3, <1>5
  <1> QED
    BY <1>4 DEF LowestOf

\* m is the greatest feasible assignment below d
GreatestBelow(m, items, links, inf, d) ==
    /\ m \in [items -> 0..inf] /\ Feasible(m, links) /\ Below(items, m, d)
    /\ \A e \in [items -> 0..inf] : Feasible(e, links) /\ Below(items, e, d) => Below(items, e, m)

\* A relaxation that changes d leaves fewer pairs of an item and a lower cost
LEMMA LowestSolved ==
  ASSUME NEW items, IsFiniteSet(items), NEW links, LinksOK(items, links), NEW inf \in Nat,
         NEW f, LowestOf(f, items, links, inf), NEW start \in [items -> 0..inf]
  PROVE  GreatestBelow(f[start], items, links, inf, start)
  <1> DEFINE D == [items -> 0..inf]
             R(d) == Relaxed(items, links, d)
             all == items \X (0..inf)
             lower(d) == {p \in all : p[2] < d[p[1]]}
             Solved(d) == GreatestBelow(f[d], items, links, inf, d)
             Good == {n \in Nat : \A d \in D : Cardinality(lower(d)) < n => Solved(d)}
  <1>1. \A d \in D : IsFiniteSet(lower(d)) /\ Cardinality(lower(d)) \in Nat
    <2>0. IsFiniteSet(0..inf)
      BY FS_Interval
    <2>1. IsFiniteSet(all)
      BY <2>0, FS_Product
    <2>2. \A d : lower(d) \in SUBSET all
      OBVIOUS
    <2> QED
      BY <2>1, <2>2, FS_Subset, FS_CardinalityType
  <1>2. \A d \in D : f[d] = IF R(d) = d THEN d ELSE f[R(d)]
    BY DEF LowestOf
  <1>3. ASSUME NEW d \in D, R(d) # d
        PROVE  R(d) \in D /\ Cardinality(lower(R(d))) < Cardinality(lower(d))
    <2> DEFINE r == R(d)
    <2>1. r \in D /\ Below(items, r, d)
      BY RelaxedFacts
    <2>2. r # d
      BY <1>3
    <2> HIDE DEF r
    <2>3. PICK y \in items : r[y] # d[y]
      BY <2>1, <2>2
    <2>4. \A z \in items : r[z] \in 0..inf /\ d[z] \in 0..inf /\ r[z] <= d[z]
      BY <2>1 DEF Below
    <2>5. lower(r) \subseteq lower(d)
      <3> SUFFICES ASSUME NEW p \in all, p[2] < r[p[1]] PROVE p[2] < d[p[1]]
        OBVIOUS
      <3>1. p[1] \in items /\ p[2] \in Int
        OBVIOUS
      <3>2. r[p[1]] \in Int /\ d[p[1]] \in Int /\ r[p[1]] <= d[p[1]]
        BY <2>4, <3>1
      <3> QED
        BY <3>1, <3>2
    <2>6. <<y, r[y]>> \in lower(d) /\ <<y, r[y]>> \notin lower(r)
      BY <2>3, <2>4
    <2> HIDE DEF lower
    <2>7. IsFiniteSet(lower(d)) /\ Cardinality(lower(d)) \in Nat /\ Cardinality(lower(r)) \in Nat
      BY <1>1, <2>1
    <2>8. Cardinality(lower(r)) <= Cardinality(lower(d))
          /\ Cardinality(lower(r)) # Cardinality(lower(d))
      BY <2>5, <2>6, <2>7, FS_Subset
    <2>9. Cardinality(lower(r)) < Cardinality(lower(d))
      BY <2>7, <2>8
    <2> QED
      BY <2>1, <2>9 DEF r
  <1>4. 0 \in Good
    <2>1. \A d \in D : ~(Cardinality(lower(d)) < 0)
      <3> HIDE DEF lower, D
      <3> QED
        BY <1>1
    <2> QED
      BY <2>1
  <1>5. ASSUME NEW n \in Good PROVE n + 1 \in Good
    <2>1. n \in Nat /\ \A d \in D : Cardinality(lower(d)) < n => Solved(d)
      OBVIOUS
    <2> HIDE DEF lower
    <2> SUFFICES ASSUME NEW d \in D, Cardinality(lower(d)) < n + 1 PROVE Solved(d)
      BY <2>1
    <2> DEFINE r == R(d)
    <2>2. /\ r \in D /\ Below(items, r, d)
          /\ r = d => Feasible(d, links)
          /\ \A e \in D : Feasible(e, links) /\ Below(items, e, d) => Below(items, e, r)
      BY RelaxedFacts
    <2>3. CASE r = d
      <3>1. f[d] = d
        BY <1>2, <2>3
      <3>2. Below(items, d, d)
        BY <2>2, <2>3
      <3> QED
        BY <2>2, <2>3, <3>1, <3>2 DEF GreatestBelow
    <2>4. CASE r # d
      <3>1. Cardinality(lower(r)) < Cardinality(lower(d))
        BY <1>3, <2>4
      <3> HIDE DEF r
      <3>2. Cardinality(lower(r)) \in Nat /\ Cardinality(lower(d)) \in Nat
        BY <1>1, <2>2
      <3>3. Cardinality(lower(r)) < n
        BY <2>1, <3>1, <3>2
      <3>4. Solved(r)
        BY <2>1, <2>2, <3>3
      <3>5. f[d] = f[r]
        BY <1>2, <2>4 DEF r
      <3> DEFINE m == f[r]
      <3>6. m \in D /\ Feasible(m, links) /\ Below(items, m, r)
            /\ \A e \in D : Feasible(e, links) /\ Below(items, e, r) => Below(items, e, m)
        BY <3>4 DEF GreatestBelow
      <3> HIDE DEF m
      <3>7. Below(items, m, d)
        <4> SUFFICES ASSUME NEW y \in items PROVE m[y] <= d[y]
          BY DEF Below
        <4>1. m[y] \in Int /\ r[y] \in Int /\ d[y] \in Int /\ m[y] <= r[y] /\ r[y] <= d[y]
          BY <2>2, <3>6 DEF Below
        <4> QED
          BY <4>1
      <3>8. GreatestBelow(m, items, links, inf, d)
        BY <2>2, <3>6, <3>7 DEF GreatestBelow
      <3> QED
        BY <3>5, <3>8 DEF m
    <2> QED
      BY <2>3, <2>4
  <1>6. Good = Nat
    <2> HIDE DEF lower, D, Solved
    <2> QED
      BY <1>4, <1>5, SetInduction
  <1> DEFINE c == Cardinality(lower(start))
  <1>7. c \in Nat
    BY <1>1
  <1>8. c + 1 \in Nat /\ c < c + 1
    BY ONLY <1>7
  <1>9. c + 1 \in Good
    BY <1>6, <1>8
  <1> HIDE DEF c, lower
  <1> QED
    BY <1>8, <1>9 DEF c

\* Lowest is the greatest feasible assignment that is 0 on S
LEMMA LowestFacts ==
  ASSUME NEW items, IsFiniteSet(items), NEW S, NEW links, LinksOK(items, links), NEW inf \in Nat
  PROVE  LET d == Lowest(items, S, links, inf)
         IN /\ d \in [items -> 0..inf] /\ Feasible(d, links)
            /\ \A s \in S \cap items : d[s] = 0
            /\ \A e \in [items -> 0..inf] :
                 Feasible(e, links) /\ (\A s \in S \cap items : e[s] = 0) => Below(items, e, d)
  <1> DEFINE f == CHOOSE g : LowestOf(g, items, links, inf)
             start == [y \in items |-> IF y \in S THEN 0 ELSE inf]
             d == Lowest(items, S, links, inf)
             D == [items -> 0..inf]
  <1>1. LowestOf(f, items, links, inf)
    BY LowestExists
  <1>2. d = f[start]
    BY DEF Lowest, LowestOf
  <1>3. start \in D
    OBVIOUS
  <1> HIDE DEF f
  <1>4. GreatestBelow(d, items, links, inf, start)
    <2> HIDE DEF start, d
    <2> QED
      BY <1>1, <1>2, <1>3, LowestSolved
  <1> HIDE DEF d
  <1>5. /\ d \in D /\ Feasible(d, links) /\ Below(items, d, start)
        /\ \A e \in D : Feasible(e, links) /\ Below(items, e, start) => Below(items, e, d)
    BY <1>4 DEF GreatestBelow
  <1>6. \A s \in S \cap items : d[s] = 0
    BY <1>5 DEF Below
  <1>7. ASSUME NEW e \in D, \A s \in S \cap items : e[s] = 0 PROVE Below(items, e, start)
    BY <1>7 DEF Below
  <1> QED
    BY <1>5, <1>6, <1>7 DEF d

-----------------------------------------------------------------------------
(* Found paths.                                                            *)

\* The equations of Paths
TailsOf(f, n, x, d, links) ==
    f = [k \in 0..n |-> IF k = 0 THEN {<<x>>} ELSE Longer(f[k - 1], d, links)]

LEMMA TailsExist ==
  ASSUME NEW n \in Nat, NEW x, NEW d, NEW links
  PROVE  \E f : TailsOf(f, n, x, d, links)
  <1> DEFINE Good == {m \in Nat : \E f : TailsOf(f, m, x, d, links)}
  <1> DEFINE F(f, k) == IF k = 0 THEN {<<x>>} ELSE Longer(f[k - 1], d, links)
  <1>1. 0 \in Good
    <2> DEFINE z == [k \in 0..0 |-> {<<x>>}]
    <2>1. TailsOf(z, 0, x, d, links)
      BY DEF TailsOf
    <2> QED
      BY <2>1
  <1>2. ASSUME NEW m \in Good PROVE m + 1 \in Good
    <2>1. PICK f : TailsOf(f, m, x, d, links)
      OBVIOUS
    <2>2. m \in Nat
      OBVIOUS
    <2> HIDE DEF Good
    <2>3. DOMAIN f = 0..m /\ \A k \in 0..m : f[k] = F(f, k)
      BY <2>1 DEF TailsOf
    <2> DEFINE g == [k \in 0..(m + 1) |-> IF k = m + 1 THEN Longer(f[m], d, links) ELSE f[k]]
    <2>4. \A k \in 0..m : g[k] = f[k]
      BY <2>2
    <2>5. \A k \in 0..(m + 1) : g[k] = F(g, k)
      <3> SUFFICES ASSUME NEW k \in 0..(m + 1) PROVE g[k] = F(g, k)
        OBVIOUS
      <3>1. CASE k = m + 1
        <4>1. k # 0 /\ k - 1 = m /\ g[k] = Longer(f[m], d, links) /\ g[m] = f[m]
          BY <2>2, <2>4, <3>1
        <4> QED
          BY <4>1
      <3>2. CASE k # m + 1
        <4>1. k \in 0..m /\ (k # 0 => k - 1 \in 0..m)
          BY <2>2, <3>2
        <4>2. F(f, k) = F(g, k)
          BY <2>4, <4>1
        <4> QED
          BY <2>3, <2>4, <4>1, <4>2
      <3> QED
        BY <3>1, <3>2
    <2>6. g = [k \in 0..(m + 1) |-> F(g, k)]
      <3> DEFINE h == [k \in 0..(m + 1) |-> F(g, k)]
      <3>1. DOMAIN g = DOMAIN h /\ \A k \in 0..(m + 1) : g[k] = h[k]
        BY <2>5
      <3>2. DOMAIN g = 0..(m + 1)
        OBVIOUS
      <3> HIDE DEF F
      <3> QED
        BY <3>1, <3>2
    <2>7. TailsOf(g, m + 1, x, d, links)
      BY <2>6 DEF TailsOf
    <2> QED
      BY <2>2, <2>7 DEF Good
  <1> QED
    BY <1>1, <1>2, SetInduction

\* Every step of p, read backwards, is a link under which d is exact
Tight(p, d, links) ==
    \A k \in 1..(Len(p) - 1) :
        \E l \in links : l[1] = p[k + 1] /\ l[2] = p[k] /\ d[l[1]] + l[3] = d[l[2]]

\* p, read backwards, is such a path that ends at x
EndsAt(p, items, x, d, links) ==
    p \in Seq(items) /\ Len(p) >= 1 /\ p[1] = x /\ Tight(p, d, links)

LEMMA LongerEnds ==
  ASSUME NEW items, NEW x, NEW d, NEW links, \A l \in links : l[1] \in items,
         NEW P, \A p \in P : EndsAt(p, items, x, d, links),
         NEW q \in Longer(P, d, links)
  PROVE  EndsAt(q, items, x, d, links)
  <1>1. CASE q \in P
    BY <1>1
  <1>2. ASSUME NEW p \in P, NEW l \in links, l[2] = Last(p), d[l[1]] + l[3] = d[l[2]],
               q = Append(p, l[1])
        PROVE  EndsAt(q, items, x, d, links)
    <2>1. p \in Seq(items) /\ Len(p) \in Nat /\ Len(p) >= 1 /\ p[1] = x /\ l[1] \in items
      BY DEF EndsAt
    <2>2. q \in Seq(items) /\ Len(q) = Len(p) + 1 /\ q[Len(p) + 1] = l[1]
      BY <1>2, <2>1
    <2>3. \A k \in 1..Len(p) : q[k] = p[k]
      BY <1>2, <2>1
    <2>4. l[2] = p[Len(p)]
      BY <1>2, <2>1 DEF Last
    <2>5. ASSUME NEW k \in 1..(Len(q) - 1)
          PROVE  \E m \in links : m[1] = q[k + 1] /\ m[2] = q[k] /\ d[m[1]] + m[3] = d[m[2]]
      <3>1. CASE k = Len(p)
        BY <1>2, <2>1, <2>2, <2>3, <2>4, <3>1
      <3>2. CASE k # Len(p)
        <4>1. k \in 1..(Len(p) - 1) /\ k \in 1..Len(p) /\ k + 1 \in 1..Len(p)
          BY <2>1, <2>2, <3>2
        <4>2. \E m \in links : m[1] = p[k + 1] /\ m[2] = p[k] /\ d[m[1]] + m[3] = d[m[2]]
          BY <4>1 DEF EndsAt, Tight
        <4> QED
          BY <2>3, <4>1, <4>2
      <3> QED
        BY <3>1, <3>2
    <2> QED
      BY <2>1, <2>2, <2>3, <2>5 DEF EndsAt, Tight
  <1> QED
    BY <1>1, <1>2 DEF Longer

\* A path that a search returns ends at its target and starts at a source
LEMMA PathsEnd ==
  ASSUME NEW items, IsFiniteSet(items), NEW S, NEW x \in items, NEW d,
         NEW links, \A l \in links : l[1] \in items,
         NEW p \in Paths(items, S, x, d, links)
  PROVE  EndsAt(p, items, x, d, links) /\ p[Len(p)] \in S
  <1> DEFINE n == Cardinality(items)
             tails == CHOOSE f : TailsOf(f, n, x, d, links)
  <1>1. n \in Nat
    BY FS_CardinalityType
  <1>2. TailsOf(tails, n, x, d, links)
    BY <1>1, TailsExist
  <1>3. p \in tails[n] /\ Last(p) \in S
    BY DEF Paths, TailsOf
  <1> HIDE DEF n, tails
  <1>4. \A k \in 0..n : tails[k] = IF k = 0 THEN {<<x>>} ELSE Longer(tails[k - 1], d, links)
    BY <1>2 DEF TailsOf
  <1> DEFINE Good == {k \in Nat : k <= n => \A q \in tails[k] : EndsAt(q, items, x, d, links)}
  <1>5. 0 \in Good
    <2>1. tails[0] = {<<x>>}
      BY <1>1, <1>4
    <2>2. EndsAt(<<x>>, items, x, d, links)
      BY DEF EndsAt, Tight
    <2> QED
      BY <2>1, <2>2
  <1>6. ASSUME NEW k \in Good PROVE k + 1 \in Good
    <2> SUFFICES ASSUME k + 1 <= n PROVE \A q \in tails[k + 1] : EndsAt(q, items, x, d, links)
      OBVIOUS
    <2>1. k \in Nat /\ k + 1 \in 0..n /\ k + 1 # 0 /\ (k + 1) - 1 = k
      BY <1>1
    <2>2. \A q \in tails[k] : EndsAt(q, items, x, d, links)
      BY <1>1, <2>1
    <2>3. tails[k + 1] = Longer(tails[k], d, links)
      BY <1>4, <2>1
    <2> QED
      BY <2>2, <2>3, LongerEnds
  <1>7. Good = Nat
    BY <1>5, <1>6, SetInduction
  <1>8. EndsAt(p, items, x, d, links)
    BY <1>1, <1>3, <1>7
  <1> QED
    BY <1>3, <1>8 DEF Last, EndsAt

\* A path over edges, read backwards
RoutePath(el) ==
    /\ el \in Seq(Edges) /\ Len(el) >= 1
    /\ \A k \in 1..(Len(el) - 1) : To(el[k + 1]) = From(el[k])

\* A path that was cheapest under some feasible costs
FoundPath(el, attrs, grp) ==
    /\ RoutePath(el)
    /\ \E inf \in Nat : \E d \in [Edges -> 0..inf] :
         Feasible(d, EdgeLinks(attrs, grp)) /\ Tight(el, d, EdgeLinks(attrs, grp))

LEMMA EdgePaths ==
  ASSUME NEW attrs, NEW grp, NEW S, NEW t \in Edges, NEW inf \in Nat, NEW d,
         d = Lowest(Edges, S, EdgeLinks(attrs, grp), inf),
         NEW p \in Paths(Edges, S, t, d, EdgeLinks(attrs, grp))
  PROVE  FoundPath(p, attrs, grp) /\ p[1] = t /\ p[Len(p)] \in S
  <1> DEFINE w == EdgeLinks(attrs, grp)
  <1>1. \A l \in w : l[1] \in Edges /\ l[2] \in Edges /\ l[3] \in Nat /\ To(l[1]) = From(l[2])
    BY EdgeLinksFacts
  <1>2. EndsAt(p, Edges, t, d, w) /\ p[Len(p)] \in S
    BY <1>1, PathsEnd, EdgesAssumption
  <1>3. LinksOK(Edges, w) /\ IsFiniteSet(Edges)
    BY <1>1, EdgesAssumption DEF LinksOK
  <1> HIDE DEF w
  <1>4. d \in [Edges -> 0..inf] /\ Feasible(d, w)
    BY <1>3, LowestFacts DEF w
  <1>5. RoutePath(p)
    BY <1>1, <1>2 DEF EndsAt, Tight, RoutePath
  <1>6. Tight(p, d, w) /\ p[1] = t
    BY <1>2 DEF EndsAt
  <1> QED
    BY <1>2, <1>4, <1>5, <1>6 DEF FoundPath, w

\* No path from edge s to edge t costs less than c
LowestBetween(c, attrs, grp, s, t) ==
    c = Lowest(Edges, {s}, EdgeLinks(attrs, grp), c + 1)[t]

\* x cut off at 0 and just above c
Clip(c, x) == IF x < 0 THEN 0 ELSE IF x > c + 1 THEN c + 1 ELSE x

\* A clipped number lies between the two bounds
LEMMA ClipRange ==
  ASSUME NEW c \in Nat, NEW x \in Int
  PROVE  Clip(c, x) \in 0..(c + 1)
  BY DEF Clip

\* Clipping keeps a bound on the growth from one number to another
LEMMA ClipStep ==
  ASSUME NEW c \in Nat, NEW x \in Int, NEW y \in Int, NEW z \in Nat, x <= y + z
  PROVE  Clip(c, x) <= Clip(c, y) + z
  <1>1. CASE x < 0
    BY <1>1 DEF Clip
  <1>2. CASE x >= 0 /\ x <= c + 1
    BY <1>2 DEF Clip
  <1>3. CASE x > c + 1
    BY <1>3 DEF Clip
  <1> QED
    BY <1>1, <1>2, <1>3

\* A path that was cheapest under some feasible costs is cheapest: every part
\* of it costs no more than any path between the same edges
LEMMA StillCheapest ==
  ASSUME NEW attrs, NEW grp, NEW inf \in Nat, NEW d \in [Edges -> 0..inf],
         Feasible(d, EdgeLinks(attrs, grp)),
         NEW el \in Seq(Edges), Tight(el, d, EdgeLinks(attrs, grp)), NEW k \in 1..Len(el),
         NEW c, c = d[el[1]] - d[el[k]]
  PROVE  LowestBetween(c, attrs, grp, el[k], el[1])
  <1> DEFINE w == EdgeLinks(attrs, grp)
             s == el[k]
             t == el[1]
  <1>1. Len(el) \in Nat /\ k \in Nat /\ k >= 1 /\ \A j \in 1..Len(el) : el[j] \in Edges /\ d[el[j]] \in Nat
    <2>1. Len(el) \in Nat /\ \A j \in 1..Len(el) : el[j] \in Edges
      OBVIOUS
    <2>2. \A j \in 1..Len(el) : d[el[j]] \in Nat
      BY <2>1
    <2> QED
      BY <2>1, <2>2
  <1>2. LinksOK(Edges, w) /\ IsFiniteSet(Edges)
    BY EdgeLinksFacts, EdgesAssumption DEF LinksOK
  <1>3. s \in Edges /\ t \in Edges /\ d[s] \in Nat /\ d[t] \in Nat /\ c \in Int /\ c = d[t] - d[s]
    BY <1>1
  <1>4. ASSUME NEW n \in Nat, n + 1 <= k - 1
        PROVE  \E l \in w : l[1] = el[k - n] /\ l[2] = el[k - (n + 1)] /\ d[l[1]] + l[3] = d[l[2]]
    <2>1. k - (n + 1) \in 1..(Len(el) - 1) /\ (k - (n + 1)) + 1 = k - n
      BY <1>1, <1>4
    <2> HIDE DEF w
    <2>2. \A j \in 1..(Len(el) - 1) :
            \E l \in w : l[1] = el[j + 1] /\ l[2] = el[j] /\ d[l[1]] + l[3] = d[l[2]]
      BY DEF Tight, w
    <2> QED
      BY ONLY <2>1, <2>2
  <1> HIDE DEF w
  <1>5. c \in Nat
    <2> DEFINE Good == {n \in Nat : n <= k - 1 => d[el[k - n]] >= d[s]}
    <2>1. 0 \in Good
      BY <1>1, <1>3
    <2>2. ASSUME NEW n \in Good PROVE n + 1 \in Good
      <3> SUFFICES ASSUME n + 1 <= k - 1 PROVE d[el[k - (n + 1)]] >= d[s]
        OBVIOUS
      <3>1. n \in Nat /\ d[el[k - n]] >= d[s]
        BY <1>1
      <3>2. PICK l \in w : l[1] = el[k - n] /\ l[2] = el[k - (n + 1)] /\ d[l[1]] + l[3] = d[l[2]]
        BY <1>4, <3>1
      <3>3. l[3] \in Nat
        BY <1>2 DEF LinksOK
      <3>4. k - n \in 1..Len(el)
        BY <1>1, <3>1
      <3>5. d[el[k - n]] \in Nat
        BY <1>1, <3>4
      <3> DEFINE d0 == d[s]
                 d1 == d[l[1]]
                 d2 == d[l[2]]
                 m == l[3]
      <3>6. d0 \in Int /\ d1 \in Int /\ m \in Nat /\ d1 >= d0 /\ d1 + m = d2
        BY ONLY <1>3, <3>1, <3>2, <3>3, <3>5
      <3> HIDE DEF d0, d1, d2, m
      <3>7. d2 >= d0
        BY ONLY <3>6
      <3> QED
        BY <3>2, <3>7 DEF d0, d2
    <2>3. Good = Nat
      BY <2>1, <2>2, SetInduction
    <2>0. k - 1 \in Nat /\ k - (k - 1) = 1 /\ k - 1 <= k - 1
      BY <1>1
    <2>4. k - 1 \in Good
      BY ONLY <2>0, <2>3
    <2>5. d[t] >= d[s]
      BY <2>0, <2>4
    <2> HIDE DEF t, s
    <2> QED
      BY <1>3, <2>5
  <1> DEFINE g == Lowest(Edges, {s}, w, c + 1)
             C == [Edges -> 0..(c + 1)]
  <1>6. /\ g \in C /\ Feasible(g, w) /\ g[s] = 0
        /\ \A e \in C : Feasible(e, w) /\ e[s] = 0 => Below(Edges, e, g)
    <2>1. c + 1 \in Nat
      BY <1>5
    <2> HIDE DEF s
    <2>2. {s} \cap Edges = {s}
      BY <1>3
    <2>3. /\ g \in C /\ Feasible(g, w)
          /\ \A x \in {s} \cap Edges : g[x] = 0
          /\ \A e \in C : Feasible(e, w) /\ (\A x \in {s} \cap Edges : e[x] = 0) => Below(Edges, e, g)
      BY <1>2, <2>1, LowestFacts
    <2> HIDE DEF g, C
    <2> QED
      BY <2>2, <2>3
  <1> HIDE DEF g
  <1>0. \A y \in Edges : d[y] \in Int /\ g[y] \in Int
    <2>1. \A y \in Edges : d[y] \in Int
      OBVIOUS
    <2>2. \A y \in Edges : g[y] \in Int
      BY <1>5, <1>6
    <2> QED
      BY <2>1, <2>2
  <1>7. g[t] <= c
    <2> DEFINE Good == {n \in Nat : n <= k - 1 => g[el[k - n]] <= d[el[k - n]] - d[s]}
    <2>1. 0 \in Good
      BY <1>1, <1>3, <1>6
    <2>2. ASSUME NEW n \in Good PROVE n + 1 \in Good
      <3> SUFFICES ASSUME n + 1 <= k - 1 PROVE g[el[k - (n + 1)]] <= d[el[k - (n + 1)]] - d[s]
        OBVIOUS
      <3>1. n \in Nat /\ g[el[k - n]] <= d[el[k - n]] - d[s]
        BY <1>1
      <3>2. PICK l \in w : l[1] = el[k - n] /\ l[2] = el[k - (n + 1)] /\ d[l[1]] + l[3] = d[l[2]]
        BY <1>4, <3>1
      <3>3. l[3] \in Nat /\ g[l[2]] <= g[l[1]] + l[3] /\ l[1] \in Edges /\ l[2] \in Edges
        BY <1>2, <1>6 DEF LinksOK, Feasible
      <3>4. d[l[1]] \in Int /\ d[l[2]] \in Int /\ g[l[1]] \in Int /\ g[l[2]] \in Int
        BY <1>0, <3>3
      <3>5. g[l[1]] <= d[l[1]] - d[s] /\ d[l[1]] + l[3] = d[l[2]]
        BY <3>1, <3>2
      <3>6. g[l[2]] <= d[l[2]] - d[s]
        <4> DEFINE d0 == d[s]
                   d1 == d[l[1]]
                   d2 == d[l[2]]
                   g1 == g[l[1]]
                   g2 == g[l[2]]
                   m == l[3]
        <4>1. /\ d0 \in Int /\ d1 \in Int /\ d2 \in Int /\ g1 \in Int /\ g2 \in Int /\ m \in Int
              /\ g2 <= g1 + m /\ g1 <= d1 - d0 /\ d1 + m = d2
          <5>1. l[3] \in Int
            BY ONLY <3>3
          <5> QED
            BY ONLY <1>0, <1>3, <3>3, <3>4, <3>5, <5>1, Zenon
        <4> HIDE DEF d0, d1, d2, g1, g2, m
        <4>2. g2 <= d2 - d0
          BY ONLY <4>1
        <4> QED
          BY <4>2 DEF d0, d2, g2
      <3> QED
        BY <3>2, <3>6
    <2>3. Good = Nat
      BY <2>1, <2>2, SetInduction
    <2>0. k - 1 \in Nat /\ k - (k - 1) = 1 /\ k - 1 <= k - 1
      BY <1>1
    <2>4. k - 1 \in Good
      BY ONLY <2>0, <2>3
    <2> QED
      BY <2>0, <2>4
  <1>8. c <= g[t]
    <2> DEFINE e == [y \in Edges |-> Clip(c, d[y] - d[s])]
    <2> HIDE DEF s, t, C
    <2>1. \A y \in Edges : d[y] \in Nat
      OBVIOUS
    <2>2. c \in Nat /\ c = d[t] - d[s]
      BY <1>3, <1>5
    <2>4. \A y \in Edges : e[y] = Clip(c, d[y] - d[s]) /\ e[y] \in 0..(c + 1)
      <3> SUFFICES ASSUME NEW y \in Edges PROVE e[y] = Clip(c, d[y] - d[s]) /\ e[y] \in 0..(c + 1)
        OBVIOUS
      <3>1. d[y] - d[s] \in Int
        BY <1>3, <2>1
      <3>2. e[y] = Clip(c, d[y] - d[s])
        OBVIOUS
      <3> HIDE DEF e
      <3> QED
        BY ONLY <2>2, <3>1, <3>2, ClipRange
    <2>5. e \in C
      BY <2>4 DEF C
    <2>6. e[s] = 0
      BY <1>3, <2>1, <2>2, <2>4 DEF Clip
    <2>7. e[t] = c
      BY <1>3, <2>1, <2>2, <2>4 DEF Clip
    <2>9. ASSUME NEW l \in w PROVE e[l[2]] <= e[l[1]] + l[3]
      <3>1. l[1] \in Edges /\ l[2] \in Edges /\ l[3] \in Nat
        BY <1>2 DEF LinksOK
      <3>2. d[l[2]] <= d[l[1]] + l[3]
        BY DEF Feasible, w
      <3>3. d[l[1]] \in Nat /\ d[l[2]] \in Nat
        BY <2>1, <3>1
      <3> HIDE DEF e
      <3>4. d[l[2]] - d[s] \in Int /\ d[l[1]] - d[s] \in Int
            /\ d[l[2]] - d[s] <= (d[l[1]] - d[s]) + l[3]
        <4> DEFINE d0 == d[s]
                   d1 == d[l[1]]
                   d2 == d[l[2]]
                   m == l[3]
        <4>1. d0 \in Int /\ d1 \in Int /\ d2 \in Int /\ m \in Int /\ d2 <= d1 + m
          BY ONLY <1>3, <3>1, <3>2, <3>3
        <4> HIDE DEF d0, d1, d2, m
        <4>2. d2 - d0 \in Int /\ d1 - d0 \in Int /\ d2 - d0 <= (d1 - d0) + m
          BY ONLY <4>1
        <4> QED
          BY <4>2 DEF d0, d1, d2, m
      <3>5. Clip(c, d[l[2]] - d[s]) <= Clip(c, d[l[1]] - d[s]) + l[3]
        BY ONLY <2>2, <3>1, <3>4, ClipStep
      <3> QED
        BY <2>4, <3>1, <3>5
    <2>10. Feasible(e, w)
      BY <2>9 DEF Feasible
    <2> HIDE DEF e
    <2>11. Below(Edges, e, g)
      BY <1>6, <2>5, <2>6, <2>10
    <2>12. e[t] <= g[t]
      BY <1>3, <2>11 DEF Below
    <2> QED
      BY <2>7, <2>12
  <1>9. g[t] \in Int
    BY <1>3, <1>5, <1>6
  <1>10. c = g[t]
    BY <1>3, <1>7, <1>8, <1>9
  <1> QED
    BY <1>10 DEF g, w, LowestBetween

-----------------------------------------------------------------------------
(* The cost of a path.                                                     *)

\* The equations of Along
AlongOf(f, attrs, grp, el, n) ==
    f = [j \in 1..n |-> IF j = 1 THEN 0 ELSE f[j - 1] + Cost(attrs, grp, el[j], el[j - 1])]

LEMMA AlongExists ==
  ASSUME NEW n \in Nat, NEW attrs, NEW grp, NEW el
  PROVE  \E f : AlongOf(f, attrs, grp, el, n)
  <1> DEFINE Good == {m \in Nat : \E f : AlongOf(f, attrs, grp, el, m)}
             Leg(j) == Cost(attrs, grp, el[j], el[j - 1])
             F(f, j) == IF j = 1 THEN 0 ELSE f[j - 1] + Leg(j)
  <1>1. 0 \in Good
    <2> DEFINE z == [j \in 1..0 |-> 0]
    <2>1. AlongOf(z, attrs, grp, el, 0)
      BY DEF AlongOf
    <2> QED
      BY <2>1
  <1>2. ASSUME NEW m \in Good PROVE m + 1 \in Good
    <2>1. PICK f : AlongOf(f, attrs, grp, el, m)
      OBVIOUS
    <2>2. m \in Nat
      OBVIOUS
    <2> HIDE DEF Good
    <2>3. DOMAIN f = 1..m /\ \A j \in 1..m : f[j] = F(f, j)
      BY <2>1 DEF AlongOf
    <2> DEFINE g == [j \in 1..(m + 1) |-> IF j = m + 1 THEN F(f, m + 1) ELSE f[j]]
    <2> HIDE DEF Leg
    <2>4. \A j \in 1..m : g[j] = f[j]
      BY <2>2
    <2>5. \A j \in 1..(m + 1) : g[j] = F(g, j)
      <3> SUFFICES ASSUME NEW j \in 1..(m + 1) PROVE g[j] = F(g, j)
        OBVIOUS
      <3>1. CASE j = m + 1
        <4>1. g[j] = F(f, j)
          BY <3>1
        <4>2. j # 1 => j - 1 \in 1..m
          BY <2>2, <3>1
        <4>3. F(f, j) = F(g, j)
          BY <2>4, <4>2
        <4> QED
          BY <4>1, <4>3
      <3>2. CASE j # m + 1
        <4>1. j \in 1..m /\ (j # 1 => j - 1 \in 1..m)
          BY <2>2, <3>2
        <4>2. F(f, j) = F(g, j)
          BY <2>4, <4>1
        <4> QED
          BY <2>3, <2>4, <4>1, <4>2
      <3> QED
        BY <3>1, <3>2
    <2>6. g = [j \in 1..(m + 1) |-> F(g, j)]
      <3> DEFINE h == [j \in 1..(m + 1) |-> F(g, j)]
      <3>1. DOMAIN g = DOMAIN h /\ \A j \in 1..(m + 1) : g[j] = h[j]
        BY <2>5
      <3>2. DOMAIN g = 1..(m + 1)
        OBVIOUS
      <3> HIDE DEF F
      <3> QED
        BY <3>1, <3>2
    <2>7. AlongOf(g, attrs, grp, el, m + 1)
      BY <2>6 DEF AlongOf, Leg
    <2> QED
      BY <2>2, <2>7 DEF Good
  <1> QED
    BY <1>1, <1>2, SetInduction

\* The equations read no more than the first n edges, and have one solution
LEMMA AlongUnique ==
  ASSUME NEW n \in Nat, NEW attrs, NEW grp, NEW el, NEW em, \A j \in 1..n : el[j] = em[j],
         NEW f, NEW g, AlongOf(f, attrs, grp, el, n), AlongOf(g, attrs, grp, em, n)
  PROVE  \A j \in 1..n : f[j] = g[j]
  <1> DEFINE Leg(l, j) == Cost(attrs, grp, l[j], l[j - 1])
             Good == {j \in Nat : j + 1 <= n => f[j + 1] = g[j + 1]}
  <1>1. /\ \A j \in 1..n : f[j] = IF j = 1 THEN 0 ELSE f[j - 1] + Leg(el, j)
        /\ \A j \in 1..n : g[j] = IF j = 1 THEN 0 ELSE g[j - 1] + Leg(em, j)
    BY DEF AlongOf
  <1>2. \A j \in 1..n : j # 1 => Leg(el, j) = Leg(em, j)
    <2> SUFFICES ASSUME NEW j \in 1..n, j # 1 PROVE Leg(el, j) = Leg(em, j)
      OBVIOUS
    <2>1. j - 1 \in 1..n
      OBVIOUS
    <2>2. el[j] = em[j] /\ el[j - 1] = em[j - 1]
      BY <2>1
    <2> QED
      BY <2>2
  <1> HIDE DEF Leg
  <1>3. 0 \in Good
    BY <1>1
  <1>4. ASSUME NEW j \in Good PROVE j + 1 \in Good
    <2> SUFFICES ASSUME (j + 1) + 1 <= n PROVE f[(j + 1) + 1] = g[(j + 1) + 1]
      OBVIOUS
    <2>1. /\ j \in Nat /\ (j + 1) + 1 \in 1..n /\ (j + 1) + 1 # 1 /\ ((j + 1) + 1) - 1 = j + 1
          /\ f[j + 1] = g[j + 1]
      OBVIOUS
    <2> QED
      BY <1>1, <1>2, <2>1
  <1>5. Good = Nat
    BY <1>3, <1>4, SetInduction
  <1> SUFFICES ASSUME NEW j \in 1..n PROVE f[j] = g[j]
    OBVIOUS
  <1>6. j - 1 \in Nat /\ (j - 1) + 1 = j /\ j <= n
    OBVIOUS
  <1>7. j - 1 \in Good
    BY <1>5, <1>6
  <1> QED
    BY <1>6, <1>7

\* A part of a path costs what the path costs up to there
LEMMA AlongPart ==
  ASSUME NEW attrs, NEW grp, NEW el, NEW em, NEW k \in Nat, k >= 1,
         \A j \in 1..k : el[j] = em[j]
  PROVE  Along(attrs, grp, el, k) = Along(attrs, grp, em, k)
  <1> DEFINE f == CHOOSE x : AlongOf(x, attrs, grp, el, k)
             g == CHOOSE x : AlongOf(x, attrs, grp, em, k)
  <1>1. AlongOf(f, attrs, grp, el, k) /\ AlongOf(g, attrs, grp, em, k)
    BY AlongExists
  <1>2. Along(attrs, grp, el, k) = f[k] /\ Along(attrs, grp, em, k) = g[k]
    BY DEF Along, AlongOf
  <1> HIDE DEF f, g
  <1> QED
    BY <1>1, <1>2, AlongUnique

\* The costs along a found path add up to the difference of its ends
LEMMA AlongTight ==
  ASSUME NEW attrs, NEW grp, NEW inf \in Nat, NEW d \in [Edges -> 0..inf],
         NEW el \in Seq(Edges), Tight(el, d, EdgeLinks(attrs, grp)), NEW k \in 1..Len(el)
  PROVE  Along(attrs, grp, el, k) = d[el[1]] - d[el[k]]
  <1> DEFINE f == CHOOSE x : AlongOf(x, attrs, grp, el, k)
             Leg(j) == Cost(attrs, grp, el[j], el[j - 1])
             Good == {n \in Nat : n + 1 <= k => f[n + 1] = d[el[1]] - d[el[n + 1]]}
  <1>1. Len(el) \in Nat /\ k \in Nat /\ k >= 1
    OBVIOUS
  <1>2. AlongOf(f, attrs, grp, el, k) /\ Along(attrs, grp, el, k) = f[k]
    <2>1. AlongOf(f, attrs, grp, el, k)
      BY <1>1, AlongExists
    <2> QED
      BY <2>1 DEF Along, AlongOf
  <1> HIDE DEF f
  <1>3. \A j \in 1..k : f[j] = IF j = 1 THEN 0 ELSE f[j - 1] + Leg(j)
    BY <1>2 DEF AlongOf
  <1>4. \A j \in 1..k : d[el[j]] \in Int
    <2> SUFFICES ASSUME NEW j \in 1..k PROVE d[el[j]] \in Int
      OBVIOUS
    <2>1. el[j] \in Edges
      BY <1>1
    <2> QED
      BY <2>1
  <1>5. ASSUME NEW j \in Nat, (j + 1) + 1 <= k
        PROVE  Leg((j + 1) + 1) \in Int /\ d[el[(j + 1) + 1]] + Leg((j + 1) + 1) = d[el[j + 1]]
    <2>1. j + 1 \in 1..(Len(el) - 1)
      BY <1>1, <1>5
    <2>2. PICK l \in EdgeLinks(attrs, grp) :
            l[1] = el[(j + 1) + 1] /\ l[2] = el[j + 1] /\ d[l[1]] + l[3] = d[l[2]]
      BY <2>1 DEF Tight
    <2>3. l[3] = Cost(attrs, grp, l[1], l[2]) /\ l[3] \in Nat
      BY EdgeLinksFacts
    <2>4. ((j + 1) + 1) - 1 = j + 1
      OBVIOUS
    <2>5. l[3] = Leg((j + 1) + 1)
      BY <2>2, <2>3, <2>4
    <2> HIDE DEF Leg
    <2> QED
      BY <2>2, <2>3, <2>5
  <1> HIDE DEF Leg
  <1>6. 0 \in Good
    <2>1. f[1] = 0 /\ d[el[1]] \in Int
      BY <1>1, <1>3, <1>4
    <2> QED
      BY <2>1
  <1>7. ASSUME NEW n \in Good PROVE n + 1 \in Good
    <2> SUFFICES ASSUME (n + 1) + 1 <= k PROVE f[(n + 1) + 1] = d[el[1]] - d[el[(n + 1) + 1]]
      OBVIOUS
    <2>1. /\ n \in Nat /\ n + 1 \in 1..k /\ (n + 1) + 1 \in 1..k /\ 1 \in 1..k
          /\ (n + 1) + 1 # 1 /\ ((n + 1) + 1) - 1 = n + 1
      BY <1>1
    <2>2. f[n + 1] = d[el[1]] - d[el[n + 1]]
      BY <1>1, <2>1
    <2> HIDE DEF Good
    <2> DEFINE m == (n + 1) + 1
               c == Leg(m)
               d0 == d[el[1]]
               d1 == d[el[n + 1]]
               d2 == d[el[m]]
    <2>3. f[m] = f[n + 1] + c
      BY <1>3, <2>1
    <2>4. c \in Int /\ d2 + c = d1
      BY <1>5, <2>1
    <2>5. d0 \in Int /\ d1 \in Int /\ d2 \in Int
      BY <1>4, <2>1
    <2>6. f[n + 1] = d0 - d1
      BY <2>2
    <2> HIDE DEF m, c, d0, d1, d2
    <2>7. f[m] = d0 - d2
      BY <2>3, <2>4, <2>5, <2>6
    <2> QED
      BY <2>7 DEF m, d0, d2
  <1>8. Good = Nat
    BY <1>6, <1>7, SetInduction
  <1>9. k - 1 \in Nat /\ (k - 1) + 1 = k
    BY <1>1
  <1>10. k - 1 \in Good
    BY ONLY <1>8, <1>9
  <1>11. f[k] = d[el[1]] - d[el[k]]
    BY <1>9, <1>10
  <1> QED
    BY <1>2, <1>11

-----------------------------------------------------------------------------
(* The cache.                                                              *)

\* The station group of the stop that an edge was a candidate of
GroupOf(t) == NodeInfo[From(t)].group

EntryOK(key, entry) ==
    /\ RoutePath(entry.edges) /\ Len(entry.edges) >= 2
    /\ entry.edges[1] = key[3] /\ entry.edges[Len(entry.edges)] = key[2]
    /\ entry.cost = Along(key[1], GroupOf(key[3]), entry.edges, Len(entry.edges))
    /\ LowestBetween(entry.cost, key[1], GroupOf(key[3]), key[2], key[3])

CacheOK(store) == \A key \in DOMAIN store : EntryOK(key, store[key])

\* The first k edges of a reversed path end where it ends
LEMMA PartPath ==
  ASSUME NEW el, RoutePath(el), NEW k \in 1..Len(el)
  PROVE  LET em == SubSeq(el, 1, k)
         IN RoutePath(em) /\ Len(em) = k /\ \A j \in 1..k : em[j] = el[j]
  <1> DEFINE em == SubSeq(el, 1, k)
  <1>1. el \in Seq(Edges) /\ Len(el) \in Nat
    BY DEF RoutePath
  <1>2. em \in Seq(Edges) /\ Len(em) = k /\ \A j \in 1..k : em[j] = el[j]
    BY <1>1
  <1> HIDE DEF em
  <1>3. ASSUME NEW j \in 1..(Len(em) - 1) PROVE To(em[j + 1]) = From(em[j])
    <2>1. j \in 1..k /\ j + 1 \in 1..k /\ j \in 1..(Len(el) - 1)
      BY <1>1, <1>2
    <2> QED
      BY <1>2, <2>1 DEF RoutePath
  <1>4. RoutePath(em)
    BY <1>2, <1>3 DEF RoutePath
  <1> QED
    BY <1>2, <1>4 DEF em

LEMMA EntryFiled ==
  ASSUME NEW attrs, NEW grp, NEW el, FoundPath(el, attrs, grp), GroupOf(el[1]) = grp,
         NEW starts, NEW k \in Parts(el, starts)
  PROVE  EntryOK(<<attrs, el[k], el[1]>>,
                 [cost |-> Along(attrs, grp, el, k), edges |-> SubSeq(el, 1, k)])
  <1> DEFINE em == SubSeq(el, 1, k)
             key == <<attrs, el[k], el[1]>>
             entry == [cost |-> Along(attrs, grp, el, k), edges |-> em]
  <1>0. RoutePath(el) /\ el \in Seq(Edges)
    BY DEF FoundPath, RoutePath
  <1>1. k \in 1..Len(el) /\ k # 1
    BY <1>0 DEF Parts
  <1>2. RoutePath(em) /\ Len(em) = k /\ \A j \in 1..k : em[j] = el[j]
    BY <1>0, <1>1, PartPath
  <1>3. entry.edges = em /\ entry.cost = Along(attrs, grp, el, k) /\ key[1] = attrs
        /\ key[2] = el[k] /\ key[3] = el[1]
    OBVIOUS
  <1> HIDE DEF em, entry, key
  <1>4. k \in Nat /\ k >= 2 /\ 1 \in 1..k /\ k \in 1..k
    BY <1>0, <1>1
  <1>5. Along(attrs, grp, em, k) = Along(attrs, grp, el, k)
    BY <1>2, <1>4, AlongPart
  <1>6. LowestBetween(Along(attrs, grp, el, k), attrs, grp, el[k], el[1])
    <2>1. PICK inf \in Nat : \E d \in [Edges -> 0..inf] :
            Feasible(d, EdgeLinks(attrs, grp)) /\ Tight(el, d, EdgeLinks(attrs, grp))
      BY DEF FoundPath
    <2>2. PICK d \in [Edges -> 0..inf] :
            Feasible(d, EdgeLinks(attrs, grp)) /\ Tight(el, d, EdgeLinks(attrs, grp))
      BY <2>1
    <2>3. PICK c : c = d[el[1]] - d[el[k]]
      OBVIOUS
    <2>4. Along(attrs, grp, el, k) = c
      BY <1>0, <1>1, <2>2, <2>3, AlongTight
    <2>5. LowestBetween(c, attrs, grp, el[k], el[1])
      BY <1>0, <1>1, <2>2, <2>3, StillCheapest
    <2> QED
      BY <2>4, <2>5
  <1>7. EntryOK(key, entry)
    BY <1>2, <1>3, <1>4, <1>5, <1>6 DEF EntryOK
  <1> QED
    BY <1>7 DEF em, entry, key

\* Filing the parts of paths with different ends keeps the cache sound
LEMMA CacheFiled ==
  ASSUME NEW store, CacheOK(store), NEW attrs, NEW grp,
         NEW els, \A el \in els : FoundPath(el, attrs, grp) /\ GroupOf(el[1]) = grp,
         \A el, em \in els : el[1] = em[1] => el = em,
         NEW starts
  PROVE  CacheOK(nestedCache(store, attrs, grp, els, starts))
  <1> DEFINE keys == UNION {{<<attrs, el[k], el[1]>> : k \in Parts(el, starts)} : el \in els}
             path(key) == CHOOSE el \in els : el[1] = key[3]
             last(key) == CHOOSE k \in Parts(path(key), starts) : path(key)[k] = key[2]
             filed == [key \in keys |-> [cost |-> Along(attrs, grp, path(key), last(key)),
                                         edges |-> SubSeq(path(key), 1, last(key))]]
  <1>1. ASSUME NEW key \in keys PROVE EntryOK(key, filed[key])
    <2>1. PICK el \in els : \E k \in Parts(el, starts) : key = <<attrs, el[k], el[1]>>
      OBVIOUS
    <2>2. PICK k \in Parts(el, starts) : key = <<attrs, el[k], el[1]>>
      BY <2>1
    <2>3. key[3] = el[1] /\ key[2] = el[k]
      BY <2>2
    <2>4. path(key) \in els /\ path(key)[1] = key[3]
      BY <2>3
    <2>5. path(key) = el
      BY <2>3, <2>4
    <2> DEFINE m == last(key)
    <2>6. m \in Parts(el, starts) /\ el[m] = el[k]
      BY <2>3, <2>5
    <2>7. filed[key] = [cost |-> Along(attrs, grp, el, m), edges |-> SubSeq(el, 1, m)]
      BY <2>5
    <2> HIDE DEF m, filed, keys, path, last
    <2>8. key = <<attrs, el[m], el[1]>>
      BY <2>2, <2>6
    <2> QED
      BY <2>6, <2>7, <2>8, EntryFiled
  <1>2. DOMAIN filed = keys
    OBVIOUS
  <1>3. nestedCache(store, attrs, grp, els, starts) = IF caching THEN Over(filed, store) ELSE store
    BY DEF nestedCache
  <1> HIDE DEF filed, keys
  <1>4. CacheOK(Over(filed, store))
    BY <1>1, <1>2 DEF Over, CacheOK
  <1> QED
    BY <1>3, <1>4

LEMMA CacheOKIsSound ==
  CacheOK(cache) => CacheSound
  <1> SUFFICES ASSUME CacheOK(cache), NEW key \in DOMAIN cache
      PROVE  LET el == cache[key].edges
             IN /\ el[Len(el)] = key[2] /\ el[1] = key[3]
                /\ Leads(el, From(key[2]), To(key[3]))
                /\ cache[key].cost = Along(key[1], GroupOf(key[3]), el, Len(el))
                /\ LowestBetween(cache[key].cost, key[1], GroupOf(key[3]), key[2], key[3])
    BY DEF CacheSound, GroupOf, LowestBetween
  <1> QED
    BY DEF CacheOK, EntryOK, RoutePath, Leads

-----------------------------------------------------------------------------
(* The invariant.                                                          *)

HopSet == [edges : Seq(Edges), start : Nodes, end : Nodes]

\* The edges of the hop from candidate e to candidate t, if it has any
HopEdges(el, e, t) ==
    el \in Seq(Edges) /\ (el # <<>> /\ Opts.popReachEdge => Leads(el, From(e), From(t)))

\* Candidate e of group k has been searched from
Searched(k, e) == k < i \/ (k = i /\ pc # "pilot" /\ e \notin froms)

CallsOK ==
    /\ calls \in Seq(AllCalls)
    /\ pc \in {"call", "pilot", "hops", "solve", "greedy", "return"}
    /\ pc # "call" => calls # <<>>

\* The candidate graph has all edges that were searched, and hops on them
CombOK ==
    pc \in {"pilot", "hops", "solve"} =>
        /\ Call.how = "route" /\ i \in 1..NumHops
        /\ pc = "hops" => froms \subseteq Cands(i)
        /\ pc = "solve" => i = NumHops /\ froms = {}
        /\ \A x \in DOMAIN comb : HopEdges(comb[x].edges, x[2], x[3])
        /\ \A k \in 1..NumHops : \A e \in Cands(k), t \in Cands(k + 1) :
             Searched(k, e) => <<k, e, t>> \in DOMAIN comb

\* Hop k of a route, of all of hs
HopOK(hs, k) ==
    /\ hs[k].start \in CandNodes(k) /\ hs[k].end \in CandNodes(k + 1)
    /\ hs[k].edges # <<>> /\ (Opts.popReachEdge \/ Call.how # "route")
         => Leads(hs[k].edges, hs[k].start, hs[k].end)
    /\ k > 1 /\ Call.how # "greedy" => hs[k].start = hs[k - 1].end

GreedyOK ==
    pc = "greedy" =>
        /\ Call.how # "route" /\ i \in 1..NumHops
        /\ hops \in Seq(HopSet)
        /\ Len(hops) = i - 1
        /\ \A k \in 1..Len(hops) : HopOK(hops, k)

\* The bound of the searches is a natural
BandOK == pc = "hops" => band \in Nat

IInv == CallsOK /\ CacheOK(cache) /\ BandOK /\ CombOK /\ GreedyOK /\ RouteContiguous

LEMMA CallFacts ==
  ASSUME CallsOK, calls # <<>>
  PROVE  /\ Call.how \in {"route", "greedy", "greedy2"}
         /\ Len(Call.route) \in Nat /\ DOMAIN Call.route = 1..Len(Call.route)
         /\ NumHops \in Int /\ NumHops = Len(Call.route) - 1
         /\ \A k \in 1..(NumHops + 1) : Cands(k) \subseteq Edges /\ CandNodes(k) \subseteq Nodes
         /\ \A k \in 1..(NumHops + 1) :
              Cands(k) # {} /\ \A t \in Cands(k) : GroupOf(t) = TgGrp(k)
  <1> DEFINE c == Call
  <1>1. c \in AllCalls
    BY DEF CallsOK, Call
  <1> HIDE DEF c
  <1>2. /\ c.how \in {"route", "greedy", "greedy2"}
        /\ c.route \in Seq({c.route[k] : k \in DOMAIN c.route})
        /\ \A k \in DOMAIN c.route :
             /\ c.first[k] \in DOMAIN c.route[k]
             /\ \A n \in DOMAIN c.route[k] :
                  /\ \E e \in Edges : EdgeInfo[e].from = n
                  /\ NodeInfo[n].group = NodeInfo[c.first[k]].group
    BY <1>1, CallsAssumption
  <1>3. Len(c.route) \in Nat /\ DOMAIN c.route = 1..Len(c.route)
    BY <1>2
  <1>4. NumHops = Len(c.route) - 1 /\ NumHops \in Int
    BY <1>3 DEF NumHops, c
  <1>5. \A k \in 1..(NumHops + 1) : k \in DOMAIN c.route
    BY <1>3, <1>4
  <1>6. \A k : Cands(k) \subseteq Edges
    BY DEF Cands, Group, OutOf
  <1>7. \A k : CandNodes(k) \subseteq Nodes
    BY <1>6, EdgesAssumption DEF CandNodes, From
  <1>8. ASSUME NEW k \in 1..(NumHops + 1)
        PROVE  Cands(k) # {} /\ \A t \in Cands(k) : GroupOf(t) = TgGrp(k)
    <2>1. Cands(k) = UNION {OutOf(n) : n \in DOMAIN c.route[k]} /\ TgGrp(k) = NodeInfo[c.first[k]].group
      BY DEF Cands, Group, TgGrp, c
    <2>2. /\ c.first[k] \in DOMAIN c.route[k]
          /\ \A n \in DOMAIN c.route[k] :
               /\ \E e \in Edges : EdgeInfo[e].from = n
               /\ NodeInfo[n].group = NodeInfo[c.first[k]].group
      BY <1>2, <1>5
    <2>3. PICK e \in Edges : EdgeInfo[e].from = c.first[k]
      BY <2>2
    <2>4. e \in Cands(k)
      BY <2>1, <2>2, <2>3 DEF OutOf, From
    <2>5. ASSUME NEW t \in Cands(k) PROVE GroupOf(t) = TgGrp(k)
      <3>1. PICK n \in DOMAIN c.route[k] : t \in OutOf(n)
        BY <2>1
      <3>2. From(t) = n
        BY <3>1 DEF OutOf
      <3> QED
        BY <2>1, <2>2, <3>2 DEF GroupOf
    <2> QED
      BY <2>4, <2>5
  <1> QED
    BY <1>2, <1>3, <1>4, <1>6, <1>7, <1>8 DEF c

LEMMA CallFrozen ==
  ASSUME UNCHANGED calls
  PROVE  /\ Call' = Call /\ NumHops' = NumHops
         /\ \A k : Cands(k)' = Cands(k) /\ CandNodes(k)' = CandNodes(k)
         /\ \A hs, k : HopOK(hs, k)' <=> HopOK(hs, k)
  <1>1. Call' = Call /\ NumHops' = NumHops
    BY DEF Call, NumHops
  <1>2. \A k : Cands(k)' = Cands(k)
    BY <1>1 DEF Cands, Group
  <1>3. \A k : CandNodes(k)' = CandNodes(k)
    BY <1>2 DEF CandNodes
  <1>4. \A hs, k : HopOK(hs, k)' <=> HopOK(hs, k)
    BY <1>1, <1>3 DEF HopOK
  <1> QED
    BY <1>1, <1>2, <1>3, <1>4

LEMMA InitOK == Init => IInv
  BY CallsAssumption DEF Init, IInv, CallsOK, CacheOK, BandOK, CombOK, GreedyOK, RouteContiguous, Empty

LEMMA BeginKeeps ==
  ASSUME IInv, Begin
  PROVE  IInv'
  <1>1. /\ calls # <<>> /\ UNCHANGED <<calls, cache>>
        /\ pc' = IF Len(Call.route) < 2 THEN "return"
                 ELSE IF Call.how = "route" THEN "pilot" ELSE "greedy"
        /\ i' = 1 /\ comb' = Empty /\ hops' = <<>>
    BY DEF Begin
  <1>2. /\ Call.how \in {"route", "greedy", "greedy2"} /\ Len(Call.route) \in Nat
        /\ NumHops = Len(Call.route) - 1
    BY <1>1, CallFacts DEF IInv
  <1>3. Call' = Call /\ NumHops' = NumHops
    BY <1>1, CallFrozen
  <1>4. \/ pc' = "return" /\ Len(Call.route) < 2
        \/ pc' = "pilot" /\ Call.how = "route" /\ NumHops >= 1
        \/ pc' = "greedy" /\ Call.how # "route" /\ NumHops >= 1
    BY <1>1, <1>2
  <1>5. CallsOK' /\ CacheOK(cache)' /\ BandOK'
    BY <1>1, <1>4 DEF IInv, CallsOK, BandOK
  <1>6. CombOK'
    BY <1>1, <1>2, <1>3, <1>4 DEF CombOK, Searched, Empty
  <1>7. GreedyOK'
    BY <1>1, <1>2, <1>3, <1>4 DEF GreedyOK
  <1>8. RouteContiguous'
    BY <1>1, <1>2, <1>3, <1>4 DEF RouteContiguous
  <1> QED
    BY <1>5, <1>6, <1>7, <1>8 DEF IInv

\* The target that a search ends at was reached
LEMMA PreferredHit ==
  \A hit, targets, d, pos, weight : Preferred(hit, targets, d, pos, weight) \subseteq hit
  BY Zenon DEF Preferred

\* The greatest air distance of two groups of candidates
LEMMA PendingNat ==
  ASSUME NEW a \in SUBSET Edges, a # {}, NEW b \in SUBSET Edges, b # {}
  PROVE  Pending(a, b) \in Nat
  <1> DEFINE far(p) == Dist(From(p[1]), From(p[2]))
             U == {Dist(From(e), From(f)) : e \in a, f \in b}
             g == [p \in a \X b |-> far(p)]
  <1>1. IsFiniteSet(a \X b)
    <2>1. IsFiniteSet(a) /\ IsFiniteSet(b)
      BY EdgesAssumption, FS_Subset
    <2> QED
      BY <2>1, FS_Product
  <1>2. \A e, f \in Edges : Dist(From(e), From(f)) \in Nat
    <2> SUFFICES ASSUME NEW e \in Edges, NEW f \in Edges PROVE Dist(From(e), From(f)) \in Nat
      OBVIOUS
    <2>1. NodeInfo[From(e)].pos \in Int /\ NodeInfo[From(f)].pos \in Int
      BY EdgesAssumption, CostsAssumption DEF From
    <2> QED
      BY <2>1 DEF Dist, Abs
  <1> HIDE DEF far
  <1>3. g \in [a \X b -> U]
    BY DEF far
  <1>4. \A x \in U : \E p \in a \X b : g[p] = x
    <2> SUFFICES ASSUME NEW e \in a, NEW f \in b PROVE \E p \in a \X b : g[p] = Dist(From(e), From(f))
      OBVIOUS
    <2>1. <<e, f>> \in a \X b /\ g[<<e, f>>] = Dist(From(e), From(f))
      BY DEF far
    <2> QED
      BY <2>1
  <1>5. U \in SUBSET Nat /\ U # {}
    <2>1. PICK e \in a, f \in b : TRUE
      OBVIOUS
    <2>2. Dist(From(e), From(f)) \in U
      OBVIOUS
    <2>3. U \in SUBSET Nat
      BY <1>2
    <2> QED
      BY <2>2, <2>3
  <1> HIDE DEF U, g
  <1>6. IsFiniteSet(U)
    BY <1>1, <1>3, <1>4, FS_Surjection DEF Surjection
  <1>7. \E x \in U : \A y \in U : y <= x
    BY <1>5, <1>6, GreatestElement
  <1>8. Max(U) \in U
    BY <1>5, <1>7 DEF Max
  <1> QED
    BY <1>5, <1>8 DEF Pending, U

LEMMA PilotKeeps ==
  ASSUME IInv, Pilot
  PROVE  IInv'
  <1> DEFINE a == Cands(i)
             b == Cands(i + 1)
             grp == TgGrp(i + 1)
  <1>1. /\ pc = "pilot" /\ pc' = "hops" /\ froms' = a
        /\ UNCHANGED <<calls, caching, i, comb, hops>>
    BY DEF Pilot
  <1> DEFINE w == EdgeLinks(Call.attrs, grp)
             inf == Pending(a, b) * 50
             d == Lowest(Edges, a, w, inf)
  <1>2. Bound(a, b, w, d, inf)
    BY DEF Pilot
  <1>3. CallsOK /\ calls # <<>> /\ i \in 1..NumHops /\ NumHops \in Int
    BY <1>1, CallFacts DEF IInv, CallsOK, CombOK
  <1>4. /\ a \subseteq Edges /\ a # {} /\ b \subseteq Edges /\ b # {}
        /\ \A t \in b : GroupOf(t) = grp
    <2>1. i \in 1..(NumHops + 1) /\ i + 1 \in 1..(NumHops + 1)
      BY <1>3
    <2> QED
      BY <2>1, <1>3, CallFacts
  <1> HIDE DEF a, b, grp
  <1>10. Pending(a, b) \in Nat /\ inf \in Nat
    <2>1. Pending(a, b) \in Nat
      BY <1>4, PendingNat
    <2> HIDE DEF a, b
    <2> QED
      BY <2>1
  <1>11. \/ cache' = cache /\ band' = 1
         \/ \E t \in b :
              /\ band' = Max({d[t], Pending(a, b) * Opts.levelPunish[3]}) * 3
                         + Opts.fullTurnPunishFac + Opts.platformUnmatchedPen
              /\ \E el \in Paths(Edges, a, t, d, w) :
                   cache' = nestedCache(cache, Call.attrs, grp, {el}, a)
    <2> DEFINE pos == [e \in Edges |-> NodeInfo[From(e)].pos]
               hit == IF compConned(a, b) THEN b \cap Reached(a, d, inf) ELSE {}
    <2> HIDE DEF w, inf, d
    <2>1. \/ cache' = cache /\ band' = 1
          \/ \E t \in Preferred(hit, b, d, pos, Opts.levelPunish[1]) :
               /\ band' = Max({d[t], Pending(a, b) * Opts.levelPunish[3]}) * 3
                          + Opts.fullTurnPunishFac + Opts.platformUnmatchedPen
               /\ \E el \in Paths(Edges, a, t, d, w) :
                    cache' = nestedCache(cache, Call.attrs, TgGrp(i + 1), {el}, a)
      BY <1>2, Zenon DEF Bound
    <2>2. hit \subseteq b
      OBVIOUS
    <2> HIDE DEF pos, hit
    <2>3. Preferred(hit, b, d, pos, Opts.levelPunish[1]) \subseteq b
      BY <2>2, PreferredHit
    <2> QED
      BY <2>1, <2>3 DEF grp
  <1>12. d \in [Edges -> 0..inf]
    <2>1. LinksOK(Edges, w) /\ IsFiniteSet(Edges)
      BY EdgeLinksFacts, EdgesAssumption DEF LinksOK
    <2> HIDE DEF w, inf
    <2> QED
      BY <1>10, <2>1, LowestFacts
  <1> HIDE DEF w, inf, d
  <1>13. BandOK'
    <2>1. CASE band' = 1
      BY <2>1 DEF BandOK
    <2>2. ASSUME NEW t \in b,
                 band' = Max({d[t], Pending(a, b) * Opts.levelPunish[3]}) * 3
                         + Opts.fullTurnPunishFac + Opts.platformUnmatchedPen
          PROVE  BandOK'
      <3> DEFINE x == d[t]
                 y == Pending(a, b) * Opts.levelPunish[3]
      <3>1. x \in Nat
        BY <1>4, <1>10, <1>12
      <3>2. y \in Nat
        BY <1>10, TimesNat, CostsAssumption
      <3> HIDE DEF x, y
      <3>3. Max({x, y}) \in {x, y}
        <4>1. \E u \in {x, y} : \A v \in {x, y} : u >= v
          BY <3>1, <3>2
        <4> QED
          BY <4>1 DEF Max
      <3> DEFINE m == Max({x, y})
      <3>4. m \in Nat
        BY <3>1, <3>2, <3>3
      <3>5. band' = m * 3 + Opts.fullTurnPunishFac + Opts.platformUnmatchedPen
        BY <2>2 DEF x, y
      <3> HIDE DEF m
      <3>6. band' \in Nat
        BY <3>4, <3>5, CostsAssumption
      <3> QED
        BY <3>6 DEF BandOK
    <2> QED
      BY <1>11, <2>1, <2>2
  <1>5. CacheOK(cache')
    <2>1. CASE cache' = cache
      BY <2>1 DEF IInv
    <2>2. CASE cache' # cache
      <3>1. PICK t \in b : \E el \in Paths(Edges, a, t, d, w) :
                             cache' = nestedCache(cache, Call.attrs, grp, {el}, a)
        BY <1>11, <2>2
      <3>2. PICK el \in Paths(Edges, a, t, d, w) : cache' = nestedCache(cache, Call.attrs, grp, {el}, a)
        BY <3>1
      <3>3. FoundPath(el, Call.attrs, grp) /\ el[1] = t
        BY <1>4, <1>10, <3>2, EdgePaths DEF d, w
      <3>4. \A p \in {el} : FoundPath(p, Call.attrs, grp) /\ GroupOf(p[1]) = grp
        BY <1>4, <3>3
      <3> QED
        BY <3>2, <3>4, CacheFiled DEF IInv
    <2> QED
      BY <2>1, <2>2
  <1>6. /\ Call' = Call /\ NumHops' = NumHops
        /\ \A k : Cands(k)' = Cands(k)
    BY <1>1, CallFrozen
  <1>7. CallsOK'
    BY <1>1 DEF IInv, CallsOK
  <1>8. CombOK'
    <2>1. \A k \in 1..NumHops : \A e : Searched(k, e)' /\ e \in Cands(k) => Searched(k, e)
      BY <1>1, <1>3 DEF Searched, a
    <2> QED
      BY <1>1, <1>6, <2>1 DEF IInv, CombOK, a
  <1>9. GreedyOK' /\ RouteContiguous'
    BY <1>1 DEF GreedyOK, RouteContiguous
  <1> QED
    BY <1>5, <1>7, <1>8, <1>9, <1>13 DEF IInv

\* Without the edge that reaches the target, a path ends where that begins
LEMMA PoppedHop ==
  ASSUME NEW el, RoutePath(el)
  PROVE  HopEdges(Popped(el), el[Len(el)], el[1])
  <1>1. el \in Seq(Edges) /\ Len(el) \in Nat /\ Len(el) >= 1 /\ el # <<>>
    BY DEF RoutePath
  <1>2. CASE ~Opts.popReachEdge
    BY <1>1, <1>2 DEF HopEdges, Popped
  <1>3. CASE Opts.popReachEdge
    <2> DEFINE em == Tail(el)
    <2>1. Popped(el) = em
      BY <1>1, <1>3 DEF Popped
    <2>2. em \in Seq(Edges) /\ Len(em) = Len(el) - 1 /\ \A k \in 1..(Len(el) - 1) : em[k] = el[k + 1]
      BY <1>1
    <2> HIDE DEF em
    <2>3. ASSUME em # <<>> PROVE Leads(em, From(el[Len(el)]), From(el[1]))
      <3>1. Len(em) >= 1
        BY <2>2, <2>3
      <3>2. ASSUME NEW k \in 1..(Len(em) - 1) PROVE To(em[k + 1]) = From(em[k])
        <4>1. k \in 1..(Len(el) - 1) /\ k + 1 \in 1..(Len(el) - 1)
          BY <1>1, <2>2
        <4> QED
          BY <2>2, <4>1 DEF RoutePath
      <3>3. em[Len(em)] = el[Len(el)] /\ em[1] = el[2] /\ To(el[2]) = From(el[1])
        <4>1. Len(em) \in 1..(Len(el) - 1) /\ 1 \in 1..(Len(el) - 1) /\ Len(em) + 1 = Len(el)
          BY <1>1, <2>2, <3>1
        <4> QED
          BY <2>2, <4>1 DEF RoutePath
      <3> QED
        BY <3>2, <3>3 DEF Leads
    <2> QED
      BY <2>1, <2>2, <2>3 DEF HopEdges
  <1> QED
    BY <1>2, <1>3

LEMMA OverFacts ==
  ASSUME NEW f, NEW g
  PROVE  /\ DOMAIN Over(f, g) = DOMAIN f \cup DOMAIN g
         /\ \A x \in DOMAIN f : Over(f, g)[x] = f[x]
         /\ \A x \in DOMAIN g \ DOMAIN f : Over(f, g)[x] = g[x]
  BY DEF Over

\* What the search from one candidate adds to the cache and to the
\* candidate graph
LEMMA SearchAdds ==
  ASSUME CacheOK(cache), \A x \in DOMAIN comb : HopEdges(comb[x].edges, x[2], x[3]),
         NEW e \in Edges, NEW b \in SUBSET Edges, \A t \in b : GroupOf(t) = TgGrp(i + 1),
         band \in Nat, NEW d, d = Lowest(Edges, {e}, EdgeLinks(Call.attrs, TgGrp(i + 1)), band),
         Search(e, b, EdgeLinks(Call.attrs, TgGrp(i + 1)), d)
  PROVE  /\ CacheOK(cache')
         /\ \A x \in DOMAIN comb' : HopEdges(comb'[x].edges, x[2], x[3])
         /\ DOMAIN comb \subseteq DOMAIN comb'
         /\ \A t \in b : <<i, e, t>> \in DOMAIN comb'
  <1> DEFINE w == EdgeLinks(Call.attrs, TgGrp(i + 1))
             key(t) == <<Call.attrs, e, t>>
             cached == {t \in b : caching /\ key(t) \in DOMAIN cache}
             found == {t \in (b \ cached) \cap Reached({e}, d, band) : ~Trivial(e, t)}
             cost(t) == IF t \in cached THEN cache[key(t)].cost
                        ELSE IF t \in found THEN d[t] ELSE band
             paths == [t \in found |-> Paths(Edges, {e}, t, d, w)]
             hop(p) == [x \in {<<i, e, t>> : t \in b} |->
                          [cost |-> Group(i + 1)[x[3]] + cost(x[3]),
                           edges |-> IF x[3] \in cached THEN Popped(cache[key(x[3])].edges)
                                     ELSE IF x[3] \in found THEN Popped(p[x[3]]) ELSE <<>>]]
  <1>1. PICK path \in {p \in [found -> UNION {paths[t] : t \in found}] : \A t \in found : p[t] \in paths[t]} :
          /\ cache' = nestedCache(cache, Call.attrs, TgGrp(i + 1), {path[t] : t \in found}, Cands(i))
          /\ comb' = Over(comb, hop(path))
    BY Zenon DEF Search
  <1>2. \A t \in found : path[t] \in Paths(Edges, {e}, t, d, w)
    OBVIOUS
  <1>3. found \subseteq b
    OBVIOUS
  <1> DEFINE new == hop(path)
  <1>4. /\ DOMAIN new = {<<i, e, t>> : t \in b}
        /\ \A t \in b : new[<<i, e, t>>].edges =
             IF t \in cached THEN Popped(cache[<<Call.attrs, e, t>>].edges)
             ELSE IF t \in found THEN Popped(path[t]) ELSE <<>>
    OBVIOUS
  <1>5. \A t \in cached : <<Call.attrs, e, t>> \in DOMAIN cache
    OBVIOUS
  <1>0. comb' = Over(comb, new)
    BY <1>1
  <1> HIDE DEF new, cached, found, paths, w
  <1>6. \A t \in found : /\ FoundPath(path[t], Call.attrs, TgGrp(i + 1)) /\ RoutePath(path[t])
                          /\ path[t][1] = t /\ path[t][Len(path[t])] = e
    <2>1. \A t \in found : /\ FoundPath(path[t], Call.attrs, TgGrp(i + 1))
                            /\ path[t][1] = t /\ path[t][Len(path[t])] \in {e}
      BY <1>2, <1>3, EdgePaths DEF w
    <2> QED
      BY <2>1 DEF FoundPath
  <1>7. CacheOK(cache')
    <2>1. \A el \in {path[t] : t \in found} :
            FoundPath(el, Call.attrs, TgGrp(i + 1)) /\ GroupOf(el[1]) = TgGrp(i + 1)
      BY <1>3, <1>6
    <2>2. \A el, em \in {path[t] : t \in found} : el[1] = em[1] => el = em
      BY <1>6
    <2> QED
      BY <1>1, <2>1, <2>2, CacheFiled
  <1>8. ASSUME NEW t \in b PROVE HopEdges(new[<<i, e, t>>].edges, e, t)
    <2>1. CASE t \in cached
      <3> DEFINE el == cache[<<Call.attrs, e, t>>].edges
      <3>1. EntryOK(<<Call.attrs, e, t>>, cache[<<Call.attrs, e, t>>])
        BY <1>5, <2>1 DEF CacheOK
      <3>2. RoutePath(el) /\ el[1] = t /\ el[Len(el)] = e
        BY <3>1 DEF EntryOK
      <3>3. new[<<i, e, t>>].edges = Popped(el)
        BY <1>4, <2>1
      <3> HIDE DEF el
      <3> QED
        BY <3>2, <3>3, PoppedHop
    <2>2. CASE t \notin cached /\ t \in found
      <3> DEFINE el == path[t]
      <3>1. new[<<i, e, t>>].edges = Popped(el)
        BY <1>4, <2>2
      <3>2. RoutePath(el) /\ el[1] = t /\ el[Len(el)] = e
        BY <1>6, <2>2
      <3> HIDE DEF el
      <3> QED
        BY <3>1, <3>2, PoppedHop
    <2>3. CASE t \notin cached /\ t \notin found
      <3>1. new[<<i, e, t>>].edges = <<>>
        BY <1>4, <2>3
      <3> QED
        BY <3>1 DEF HopEdges
    <2> QED
      BY <2>1, <2>2, <2>3
  <1>9. /\ DOMAIN comb' = DOMAIN comb \cup DOMAIN new
        /\ \A x \in DOMAIN comb : comb'[x] = comb[x]
        /\ \A x \in DOMAIN new \ DOMAIN comb : comb'[x] = new[x]
    <2> DEFINE o == Over(comb, new)
    <2>1. /\ DOMAIN o = DOMAIN comb \cup DOMAIN new
          /\ \A x \in DOMAIN comb : o[x] = comb[x]
          /\ \A x \in DOMAIN new \ DOMAIN comb : o[x] = new[x]
      BY OverFacts
    <2> QED
      BY <2>1, <1>0
  <1>10. ASSUME NEW x \in DOMAIN comb' PROVE HopEdges(comb'[x].edges, x[2], x[3])
    <2>1. CASE x \in DOMAIN comb
      BY <1>9, <2>1
    <2>2. CASE x \notin DOMAIN comb
      <3>1. PICK t \in b : x = <<i, e, t>>
        BY <1>4, <1>9, <2>2
      <3> QED
        BY <1>4, <1>8, <1>9, <2>2, <3>1
    <2> QED
      BY <2>1, <2>2
  <1> QED
    BY <1>4, <1>7, <1>9, <1>10

LEMMA HopKeeps ==
  ASSUME IInv, Hop
  PROVE  IInv'
  <1>1. /\ pc = "hops" /\ UNCHANGED <<calls, caching, band, hops>>
        /\ IF froms' # {} THEN UNCHANGED <<i, pc>>
           ELSE IF i < NumHops THEN i' = i + 1 /\ pc' = "pilot"
           ELSE i' = i /\ pc' = "solve"
    BY DEF Hop
  <1> DEFINE w == EdgeLinks(Call.attrs, TgGrp(i + 1))
  <1>2. PICK e \in froms : /\ Search(e, Cands(i + 1), w, Lowest(Edges, {e}, w, band))
                           /\ froms' = froms \ {e}
    BY DEF Hop
  <1> DEFINE d == Lowest(Edges, {e}, w, band)
  <1>3. Search(e, Cands(i + 1), w, d)
    BY <1>2
  <1>4. /\ CallsOK /\ calls # <<>> /\ CacheOK(cache) /\ NumHops \in Int /\ band \in Nat
        /\ Call.how = "route" /\ i \in 1..NumHops /\ froms \subseteq Cands(i)
        /\ \A x \in DOMAIN comb : HopEdges(comb[x].edges, x[2], x[3])
        /\ \A k \in 1..NumHops : \A f \in Cands(k), t \in Cands(k + 1) :
             Searched(k, f) => <<k, f, t>> \in DOMAIN comb
    BY <1>1, CallFacts DEF IInv, CallsOK, BandOK, CombOK
  <1>5. e \in Edges /\ Cands(i + 1) \in SUBSET Edges /\ \A t \in Cands(i + 1) : GroupOf(t) = TgGrp(i + 1)
    <2>1. i \in 1..(NumHops + 1) /\ i + 1 \in 1..(NumHops + 1)
      BY <1>4
    <2> QED
      BY <2>1, <1>2, <1>4, CallFacts
  <1>6. /\ CacheOK(cache')
        /\ \A x \in DOMAIN comb' : HopEdges(comb'[x].edges, x[2], x[3])
        /\ DOMAIN comb \subseteq DOMAIN comb'
        /\ \A t \in Cands(i + 1) : <<i, e, t>> \in DOMAIN comb'
    BY <1>3, <1>4, <1>5, SearchAdds
  <1>7. Call' = Call /\ NumHops' = NumHops /\ \A k : Cands(k)' = Cands(k)
    BY <1>1, CallFrozen
  <1>8. \/ pc' = "hops" /\ i' = i
        \/ pc' = "pilot" /\ i' = i + 1 /\ i < NumHops /\ froms' = {}
        \/ pc' = "solve" /\ i' = i /\ i = NumHops /\ froms' = {}
    BY <1>1, <1>4
  <1>9. CallsOK' /\ BandOK'
    BY <1>1, <1>4, <1>8 DEF CallsOK, BandOK
  <1>10. CombOK'
    <2>1. ASSUME NEW k \in 1..NumHops, NEW f, Searched(k, f)'
          PROVE  Searched(k, f) \/ (k = i /\ f = e)
      BY <1>1, <1>2, <1>4, <1>8, <2>1 DEF Searched
    <2>2. ASSUME NEW k \in 1..NumHops, NEW f \in Cands(k), NEW t \in Cands(k + 1), Searched(k, f)'
          PROVE  <<k, f, t>> \in DOMAIN comb'
      BY <1>4, <1>6, <2>1, <2>2
    <2>3. i' \in 1..NumHops /\ froms' \subseteq Cands(i)
      BY <1>2, <1>4, <1>8
    <2> QED
      BY <1>4, <1>6, <1>7, <1>8, <2>2, <2>3 DEF CombOK
  <1>11. GreedyOK' /\ RouteContiguous'
    BY <1>8 DEF GreedyOK, RouteContiguous
  <1> QED
    BY <1>6, <1>9, <1>10, <1>11 DEF IInv

LEMMA SolveKeeps ==
  ASSUME IInv, Solve
  PROVE  IInv'
  <1>1. /\ pc = "solve" /\ pc' = "return"
        /\ UNCHANGED <<calls, caching, cache, i, band, froms, comb>>
    BY DEF Solve
  <1>2. PICK c \in Picks :
          hops' = [k \in 1..NumHops |->
                     [edges |-> comb[<<k, c[k], c[k + 1]>>].edges,
                      start |-> From(c[k]), end |-> From(c[k + 1])]]
    BY DEF Solve
  <1>3. /\ CallsOK /\ calls # <<>> /\ CacheOK(cache) /\ NumHops \in Int
        /\ Call.how = "route" /\ i \in 1..NumHops /\ i = NumHops /\ froms = {}
        /\ \A x \in DOMAIN comb : HopEdges(comb[x].edges, x[2], x[3])
        /\ \A k \in 1..NumHops : \A f \in Cands(k), t \in Cands(k + 1) :
             Searched(k, f) => <<k, f, t>> \in DOMAIN comb
        /\ Len(Call.route) = NumHops + 1
    BY <1>1, CallFacts DEF IInv, CallsOK, CombOK
  <1>4. \A k \in 1..(NumHops + 1) : c[k] \in Cands(k)
    BY <1>2, <1>3 DEF Picks
  <1>5. \A k \in 1..(NumHops + 1) : From(c[k]) \in CandNodes(k)
    BY <1>4 DEF CandNodes
  <1>6. ASSUME NEW k \in 1..NumHops
        PROVE  HopEdges(comb[<<k, c[k], c[k + 1]>>].edges, c[k], c[k + 1])
    <2>1. c[k] \in Cands(k) /\ c[k + 1] \in Cands(k + 1)
      BY <1>3, <1>4
    <2>2. Searched(k, c[k])
      BY <1>1, <1>3 DEF Searched
    <2> DEFINE x == <<k, c[k], c[k + 1]>>
    <2>3. x \in DOMAIN comb /\ x[2] = c[k] /\ x[3] = c[k + 1]
      BY <1>3, <2>1, <2>2
    <2> HIDE DEF x
    <2>4. HopEdges(comb[x].edges, c[k], c[k + 1])
      BY <1>3, <2>3
    <2> QED
      BY <2>4 DEF x
  <1>7. Call' = Call /\ NumHops' = NumHops /\ \A k : CandNodes(k)' = CandNodes(k)
    BY <1>1, CallFrozen
  <1>8. RouteContiguous'
    <2>1. /\ DOMAIN hops' = 1..NumHops /\ Len(hops') = NumHops
          /\ \A k \in 1..NumHops : /\ hops'[k].edges = comb[<<k, c[k], c[k + 1]>>].edges
                                   /\ hops'[k].start = From(c[k]) /\ hops'[k].end = From(c[k + 1])
      BY <1>2, <1>3
    <2>2. \A k \in 1..NumHops : hops'[k].start \in CandNodes(k) /\ hops'[k].end \in CandNodes(k + 1)
      <3> SUFFICES ASSUME NEW k \in 1..NumHops
                   PROVE  hops'[k].start \in CandNodes(k) /\ hops'[k].end \in CandNodes(k + 1)
        OBVIOUS
      <3>1. k \in 1..(NumHops + 1) /\ k + 1 \in 1..(NumHops + 1)
        BY <1>3
      <3> QED
        BY <1>5, <2>1, <3>1
    <2>3. \A k \in 1..NumHops :
            hops'[k].edges # <<>> /\ Opts.popReachEdge => Leads(hops'[k].edges, hops'[k].start, hops'[k].end)
      BY <1>6, <2>1 DEF HopEdges
    <2>4. \A k \in 1..NumHops : k > 1 => hops'[k].start = hops'[k - 1].end
      <3> SUFFICES ASSUME NEW k \in 1..NumHops, k > 1 PROVE hops'[k].start = hops'[k - 1].end
        OBVIOUS
      <3>1. k - 1 \in 1..NumHops /\ (k - 1) + 1 = k
        BY <1>3
      <3> QED
        BY <2>1, <3>1
    <2> QED
      BY <1>3, <1>7, <2>1, <2>2, <2>3, <2>4 DEF RouteContiguous
  <1>9. CallsOK' /\ BandOK' /\ CombOK' /\ GreedyOK' /\ CacheOK(cache')
    BY <1>1, <1>3 DEF CallsOK, BandOK, CombOK, GreedyOK
  <1> QED
    BY <1>8, <1>9 DEF IInv

LEMMA ReturnKeeps ==
  ASSUME IInv, Return
  PROVE  IInv'
  <1>1. pc = "return" /\ calls' = Tail(calls) /\ pc' = "call" /\ UNCHANGED cache
    BY DEF Return
  <1>2. calls \in Seq(AllCalls) /\ calls # <<>>
    BY <1>1 DEF IInv, CallsOK
  <1>3. calls' \in Seq(AllCalls)
    BY <1>1, <1>2
  <1> QED
    BY <1>1, <1>3 DEF IInv, CallsOK, BandOK, CombOK, GreedyOK, RouteContiguous

LEMMA StutterKeeps ==
  ASSUME IInv, UNCHANGED vars
  PROVE  IInv'
  <1>1. UNCHANGED <<calls, cache, i, band, froms, comb, hops, pc>>
    BY DEF vars
  <1>2. /\ Call' = Call /\ NumHops' = NumHops
        /\ \A k : Cands(k)' = Cands(k) /\ CandNodes(k)' = CandNodes(k)
        /\ \A hs, k : HopOK(hs, k)' <=> HopOK(hs, k)
    BY <1>1, CallFrozen
  <1>3. CallsOK' /\ CacheOK(cache)' /\ BandOK'
    BY <1>1 DEF IInv, CallsOK, BandOK
  <1>4. CombOK'
    <2>1. \A k, f : Searched(k, f)' <=> Searched(k, f)
      BY <1>1 DEF Searched
    <2> QED
      BY <1>1, <1>2, <2>1 DEF IInv, CombOK
  <1>5. GreedyOK'
    BY <1>1, <1>2 DEF IInv, GreedyOK
  <1>6. RouteContiguous'
    BY <1>1, <1>2 DEF IInv, RouteContiguous
  <1> QED
    BY <1>3, <1>4, <1>5, <1>6 DEF IInv

-----------------------------------------------------------------------------
(* The greedy routes.                                                      *)

LEMMA WalksEnd ==
  ASSUME NEW S, NEW T, NEW w \in Walks(S, T)
  PROVE  \E t \in T : \E d : w \in Paths(Nodes, S, t, d, NodeLinks)
  <1> DEFINE d == Lowest(Nodes, S, NodeLinks, Opts.infinity)
             hit == T \cap Reached(S, d, Opts.infinity)
             best == Preferred(hit, T, d, [n \in Nodes |-> NodeInfo[n].pos], 1)
  <1>1. PICK t \in best : w \in Paths(Nodes, S, t, d, NodeLinks)
    BY DEF Walks
  <1>2. best \subseteq hit
    BY PreferredHit
  <1>3. hit \subseteq T
    OBVIOUS
  <1> HIDE DEF best, hit, d
  <1> QED
    BY <1>1, <1>2, <1>3

LEMMA GreedyHopsLead ==
  ASSUME NEW S \in SUBSET Nodes, NEW T \in SUBSET Nodes, NEW h \in GreedyHops(S, T)
  PROVE  /\ h \in HopSet /\ h.start \in S /\ h.end \in T
         /\ h.edges # <<>> => Leads(h.edges, h.start, h.end)
  <1>1. (\E w \in Walks(S, T) : Len(w) > 1 /\ h = HopOf(w)) \/ h \in [edges : {<<>>}, start : S, end : T]
    BY DEF GreedyHops
  <1>2. CASE h \in [edges : {<<>>}, start : S, end : T]
    <2>1. <<>> \in Seq(Edges)
      OBVIOUS
    <2> QED
      BY <1>2, <2>1 DEF HopSet
  <1>3. ASSUME NEW w \in Walks(S, T), Len(w) > 1, h = HopOf(w)
        PROVE  /\ h \in HopSet /\ h.start \in S /\ h.end \in T
               /\ h.edges # <<>> => Leads(h.edges, h.start, h.end)
    <2> DEFINE edge(m, n) == CHOOSE e \in OutOf(m) : To(e) = n
    <2>1. PICK t \in T : \E d : w \in Paths(Nodes, S, t, d, NodeLinks)
      BY WalksEnd
    <2>2. t \in Nodes
      OBVIOUS
    <2>3. \A l \in NodeLinks : l[1] \in Nodes /\ \E e \in OutOf(l[1]) : To(e) = l[2]
      <3> SUFFICES ASSUME NEW e \in Edges
                   PROVE  From(e) \in Nodes /\ \E f \in OutOf(From(e)) : To(f) = To(e)
        BY DEF NodeLinks
      <3> QED
        BY EdgesAssumption DEF OutOf, From
    <2>0. PICK d : w \in Paths(Nodes, S, t, d, NodeLinks)
      BY <2>1
    <2>4. EndsAt(w, Nodes, t, d, NodeLinks) /\ w[Len(w)] \in S
      BY <2>0, <2>2, <2>3, PathsEnd, EdgesAssumption
    <2>5. w \in Seq(Nodes) /\ Len(w) \in Nat /\ w[1] = t
      BY <2>4 DEF EndsAt
    <2>6. ASSUME NEW k \in 1..(Len(w) - 1)
          PROVE  LET e == edge(w[k + 1], w[k])
                 IN e \in Edges /\ From(e) = w[k + 1] /\ To(e) = w[k]
      <3>1. \E l \in NodeLinks : l[1] = w[k + 1] /\ l[2] = w[k]
        BY <2>4 DEF EndsAt, Tight
      <3>2. \E e \in OutOf(w[k + 1]) : To(e) = w[k]
        BY <2>3, <3>1
      <3>3. edge(w[k + 1], w[k]) \in OutOf(w[k + 1]) /\ To(edge(w[k + 1], w[k])) = w[k]
        BY <3>2
      <3> HIDE DEF edge
      <3> QED
        BY <3>3 DEF OutOf
    <2> DEFINE el == [k \in 1..(Len(w) - 1) |-> edge(w[k + 1], w[k])]
    <2>7. h.edges = el /\ h.start = w[Len(w)] /\ h.end = w[1]
          /\ h = [edges |-> el, start |-> w[Len(w)], end |-> w[1]]
      BY <1>3 DEF HopOf
    <2> HIDE DEF edge
    <2>8. /\ el \in Seq(Edges) /\ Len(el) = Len(w) - 1
          /\ \A k \in 1..Len(el) : From(el[k]) = w[k + 1] /\ To(el[k]) = w[k]
      BY <2>5, <2>6, <1>3
    <2> HIDE DEF el
    <2>9. Leads(el, w[Len(w)], w[1])
      <3>1. ASSUME NEW k \in 1..(Len(el) - 1) PROVE To(el[k + 1]) = From(el[k])
        <4>1. k \in 1..Len(el) /\ k + 1 \in 1..Len(el)
          BY <2>5, <2>8
        <4> QED
          BY <2>8, <4>1
      <3>2. 1 \in 1..Len(el) /\ Len(el) \in 1..Len(el) /\ Len(el) + 1 = Len(w)
        BY <1>3, <2>5, <2>8
      <3> QED
        BY <2>8, <3>1, <3>2 DEF Leads
    <2>10. w[Len(w)] \in Nodes /\ w[1] \in Nodes
      BY <1>3, <2>5
    <2> QED
      BY <2>2, <2>4, <2>5, <2>7, <2>8, <2>9, <2>10 DEF HopSet
  <1> QED
    BY <1>1, <1>2, <1>3

LEMMA GreedyKeeps ==
  ASSUME IInv, Greedy
  PROVE  IInv'
  <1>1. /\ pc = "greedy" /\ UNCHANGED <<calls, caching, cache, band, froms, comb>>
        /\ IF i < NumHops THEN i' = i + 1 /\ UNCHANGED pc ELSE i' = i /\ pc' = "return"
    BY DEF Greedy
  <1>2. PICK h \in GreedyHops(Starts(i), CandNodes(i + 1)) : hops' = Append(hops, h)
    BY DEF Greedy
  <1>3. /\ CallsOK /\ calls # <<>> /\ CacheOK(cache) /\ NumHops \in Int
        /\ Call.how \in {"greedy", "greedy2"} /\ i \in 1..NumHops
        /\ hops \in Seq(HopSet) /\ Len(hops) = i - 1
        /\ \A k \in 1..(i - 1) : HopOK(hops, k)
        /\ Len(Call.route) = NumHops + 1
    BY <1>1, CallFacts DEF IInv, CallsOK, GreedyOK
  <1>4. CandNodes(i) \subseteq Nodes /\ CandNodes(i + 1) \subseteq Nodes
    <2>1. i \in 1..(NumHops + 1) /\ i + 1 \in 1..(NumHops + 1)
      BY <1>3
    <2> QED
      BY <2>1, <1>3, CallFacts
  <1>5. /\ Starts(i) \subseteq CandNodes(i)
        /\ i > 1 /\ Call.how # "greedy" => Starts(i) = {hops[i - 1].end}
    <2>1. CASE Call.how = "greedy2" /\ i > 1
      <3>1. i - 1 \in 1..(i - 1) /\ (i - 1) + 1 = i
        BY <1>3, <2>1
      <3>2. hops[i - 1].end \in CandNodes(i)
        BY <1>3, <3>1 DEF HopOK
      <3> QED
        BY <2>1, <3>2 DEF Starts
    <2>2. CASE ~(Call.how = "greedy2" /\ i > 1)
      BY <1>3, <2>2 DEF Starts
    <2> QED
      BY <2>1, <2>2
  <1>6. /\ h \in HopSet /\ h.start \in Starts(i) /\ h.end \in CandNodes(i + 1)
        /\ h.edges # <<>> => Leads(h.edges, h.start, h.end)
    BY <1>2, <1>4, <1>5, GreedyHopsLead
  <1>7. /\ hops' \in Seq(HopSet) /\ Len(hops') = i /\ hops'[i] = h
        /\ \A k \in 1..(i - 1) : hops'[k] = hops[k]
    BY <1>2, <1>3, <1>6
  <1>8. ASSUME NEW k \in 1..i PROVE HopOK(hops', k)
    <2>1. CASE k = i
      <3>1. k > 1 => hops'[k - 1] = hops[i - 1]
        BY <1>3, <1>7, <2>1
      <3>2. k > 1 /\ Call.how # "greedy" => hops'[k].start = hops'[k - 1].end
        BY <1>5, <1>6, <1>7, <2>1, <3>1
      <3> QED
        BY <1>5, <1>6, <1>7, <2>1, <3>2 DEF HopOK
    <2>2. CASE k # i
      <3>1. k \in 1..(i - 1) /\ (k > 1 => k - 1 \in 1..(i - 1))
        BY <1>3, <2>2
      <3>2. HopOK(hops, k) /\ hops'[k] = hops[k] /\ (k > 1 => hops'[k - 1] = hops[k - 1])
        BY <1>3, <1>7, <3>1
      <3> QED
        BY <3>2 DEF HopOK
    <2> QED
      BY <2>1, <2>2
  <1>9. /\ Call' = Call /\ NumHops' = NumHops
        /\ \A k : CandNodes(k)' = CandNodes(k)
        /\ \A hs, k : HopOK(hs, k)' <=> HopOK(hs, k)
    BY <1>1, CallFrozen
  <1>10. \/ i < NumHops /\ i' = i + 1 /\ pc' = "greedy"
         \/ i = NumHops /\ i' = i /\ pc' = "return"
    BY <1>1, <1>3
  <1>11. CallsOK' /\ CacheOK(cache') /\ BandOK' /\ CombOK'
    BY <1>1, <1>3, <1>10 DEF CallsOK, BandOK, CombOK
  <1>12. GreedyOK'
    <2> SUFFICES ASSUME pc' = "greedy"
                 PROVE  /\ Call'.how # "route" /\ i' \in 1..NumHops' /\ hops' \in Seq(HopSet)
                        /\ Len(hops') = i' - 1
                        /\ \A k \in 1..Len(hops') : HopOK(hops, k)'
      BY DEF GreedyOK
    <2>1. i' = i + 1 /\ i < NumHops
      BY <1>10
    <2>2. \A k \in 1..Len(hops') : HopOK(hops', k)
      BY <1>7, <1>8
    <2>3. \A k \in 1..Len(hops') : HopOK(hops, k)'
      BY <2>2, <1>9 DEF HopOK
    <2> QED
      BY <1>3, <1>7, <1>9, <2>1, <2>3
  <1>13. RouteContiguous'
    <2> SUFFICES ASSUME pc' = "return" PROVE RouteContiguous'
      BY DEF RouteContiguous
    <2>1. i = NumHops /\ DOMAIN hops' = 1..NumHops /\ Len(hops') = NumHops
      BY <1>7, <1>10
    <2>2. \A k \in 1..NumHops : HopOK(hops', k)
      BY <1>8, <2>1
    <2> QED
      BY <1>3, <1>9, <2>1, <2>2 DEF RouteContiguous, HopOK
  <1> QED
    BY <1>11, <1>12, <1>13 DEF IInv

-----------------------------------------------------------------------------
(* The theorems.                                                           *)

THEOREM RouterInvariant == Spec => []IInv
  <1>1. Init => IInv
    BY InitOK
  <1>2. IInv /\ [Next]_vars => IInv'
    <2> SUFFICES ASSUME IInv, [Next]_vars PROVE IInv'
      OBVIOUS
    <2>1. CASE Begin
      BY <2>1, BeginKeeps
    <2>2. CASE Pilot
      BY <2>2, PilotKeeps
    <2>3. CASE Hop
      BY <2>3, HopKeeps
    <2>4. CASE Solve
      BY <2>4, SolveKeeps
    <2>5. CASE Greedy
      BY <2>5, GreedyKeeps
    <2>6. CASE Return
      BY <2>6, ReturnKeeps
    <2>7. CASE End
      BY <2>7, StutterKeeps DEF End
    <2>8. CASE UNCHANGED vars
      BY <2>8, StutterKeeps
    <2> QED
      BY <2>1, <2>2, <2>3, <2>4, <2>5, <2>6, <2>7, <2>8 DEF Next
  <1> QED
    BY <1>1, <1>2, PTL DEF Spec

\* Every entry of the route cache (router::nestedCache, router::cache) is a
\* path between its edges with the cost it is filed with, and no path between
\* them costs less towards the group of its stop, in every street graph and
\* after any calls
THEOREM CacheSoundThm == Spec => []CacheSound
  <1>1. IInv => CacheSound
    BY CacheOKIsSound DEF IInv
  <1> QED
    BY <1>1, RouterInvariant, PTL

\* The hops of every route (router::route, routeGreedy, routeGreedy2) lead
\* from candidate to candidate and join each other
THEOREM RouteContiguousThm == Spec => []RouteContiguous
  <1>1. IInv => RouteContiguous
    BY DEF IInv
  <1> QED
    BY <1>1, RouterInvariant, PTL

=============================================================================
