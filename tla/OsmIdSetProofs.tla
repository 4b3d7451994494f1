--------------------------- MODULE OsmIdSetProofs ---------------------------
(***************************************************************************)
(* osm_id_set is the set it promises to be, for every id, every Bloom hash *)
(* and every size of its blocks, buffers and sort parts: the prefilter     *)
(* never hides an added id, the external merge sort neither loses nor      *)
(* misplaces one, and has() answers with the truth.                        *)
(***************************************************************************)
EXTENDS OsmIdSet, FiniteSetTheorems, TLAPS

\* The bounds are ids or the initial sentinels, so comparisons are numeric
FilterInv ==
    /\ added \subseteq Ids
    /\ smallest \in 0..Top /\ biggest \in 0..Top
    /\ NoFalseNegative

\* add() widens bounds and Bloom filter by the new id and never narrows them
LEMMA AddKeepsFilter ==
    ASSUME FilterInv, NEW id \in Ids, Add(id)
    PROVE  FilterInv'
  <1>1. id \in 0..Top /\ \A x \in Ids : x \in 0..Top
    BY SizeAssumption
  <1>2. /\ added' = added \cup {id} /\ bloom' = bloom \cup BloomOf[id]
        /\ smallest' = Least(id, smallest) /\ biggest' = Greatest(id, biggest)
    BY DEF Add
  <1>3. /\ smallest' \in 0..Top /\ smallest' <= smallest /\ smallest' <= id
        /\ biggest' \in 0..Top /\ biggest <= biggest' /\ id <= biggest'
    BY <1>1, <1>2, SizeAssumption DEF FilterInv, Least, Greatest
  <1>4. ASSUME NEW x \in added' PROVE MayContain(x)'
    <2>1. x \in Ids /\ x \in 0..Top
      BY <1>1, <1>2 DEF FilterInv
    <2>2. smallest' <= x /\ x <= biggest'
      BY <1>2, <1>3, <2>1, SizeAssumption DEF FilterInv, NoFalseNegative, MayContain
    <2>3. BloomOf[x] \subseteq bloom'
      BY <1>2 DEF FilterInv, NoFalseNegative, MayContain
    <2> QED
      BY <2>2, <2>3 DEF MayContain
  <1> QED
    BY <1>2, <1>3, <1>4 DEF FilterInv, NoFalseNegative

\* In every reachable state the bounds and the Bloom filter let every added
\* id through (add and has in osm_id_set.cpp).
THEOREM FilterSound == Spec => []NoFalseNegative
  <1>1. Init => FilterInv
    BY SizeAssumption DEF Init, FilterInv, NoFalseNegative
  <1>2. FilterInv /\ [Next]_vars => FilterInv'
    <2> SUFFICES ASSUME FilterInv, [Next]_vars PROVE FilterInv'
      OBVIOUS
    <2>1. CASE \E id \in Ids : Add(id)
      BY <2>1, AddKeepsFilter
    <2>2. CASE UNCHANGED <<added, smallest, biggest, bloom>>
      BY <2>2 DEF FilterInv, NoFalseNegative, MayContain
    <2> QED
      BY <2>1, <2>2 DEF Next, CloseAndAsk, Ask, Split, MergeNext, MergeDone,
         Lookup, FilterOut, IsBlockEnd, OpenBlock, Probe, SearchFails, vars, fillVars
  <1>3. FilterInv => NoFalseNegative
    BY DEF FilterInv
  <1> QED
    BY <1>1, <1>2, <1>3, PTL DEF Spec
-----------------------------------------------------------------------------
(* The inductive invariant.                                                *)

\* Everything added so far, in the order it was added
All == file \o outBuffer

\* ends holds the last id of every full block of s
EndsExact(s, ends) ==
    /\ Len(ends) = Len(s) \div BlockS
    /\ \A k \in 1..(Len(s) \div BlockS) : ends[k] = s[k * BlockS]

\* Types, and which flags go with which part of a call
CallInv ==
    /\ file \in Seq(Ids) /\ outBuffer \in Seq(Ids) /\ Len(outBuffer) < OutS
    /\ added \subseteq Ids /\ blockEnds \in Seq(0..Top) /\ last \in 0..Top
    /\ closed \in BOOLEAN /\ sorted \in BOOLEAN
    /\ pc \in {"idle", "split", "merge", "filter", "search"}
    /\ pc # "idle" => closed /\ arg \in Ids
    /\ closed => outBuffer = <<>>
    /\ closed /\ pc \notin {"split", "merge"} => sorted
    /\ ~closed \/ pc \in {"split", "merge"} => curBlock = -1
    /\ curBlock # -1 => curBlock \in Nat

\* The bounds are attained
BoundsInv ==
    /\ smallest \in 0..Top /\ biggest \in 0..Top
    /\ IF added = {} THEN smallest = Top /\ biggest = 0 ELSE biggest \in added
    /\ NoFalseNegative

\* While the set is filled: flushes end with a block, and the order of the ids
\* is known
FillInv ==
    ~closed =>
        /\ Len(file) % BlockS = 0
        /\ EndsExact(All, blockEnds)
        /\ sorted => IsSorted(All) /\ \A k \in DOMAIN All : All[k] <= last

\* Position a of part j in the file
At(j, a) == SortS * j + a + 1

\* The positions of the file that the merge has consumed
Consumed == {q \in 1..Len(file) : (q - 1) % SortS < merge.pos[(q - 1) \div SortS]}

\* Sizes and positions of the parts
PartsInv ==
    /\ merge = [parts |-> Parts, pos |-> merge.pos, size |-> merge.size,
                bufs |-> merge.bufs, out |-> merge.out]
    /\ merge.pos \in [0..(Parts - 1) -> Nat] /\ merge.size \in [0..(Parts - 1) -> Nat]
    /\ \A j \in 0..(Parts - 1) :
        /\ merge.size[j] = Least(SortS, Len(file) - SortS * j)
        /\ merge.pos[j] <= merge.size[j]
        /\ \A a, b \in 0..(merge.size[j] - 1) : a < b => file[At(j, a)] <= file[At(j, b)]

\* A part buffer holds the ids from the position of its part to its next refill
BuffersInv ==
    /\ merge.bufs \in [0..(Parts - 1) -> [0..(PartsBufSize(Parts) - 1) -> Int]]
    /\ \A j \in 0..(Parts - 1), r \in 0..(PartsBufSize(Parts) - 1) :
        LET ahead == r - (merge.pos[j] % PartsBufSize(Parts))
        IN  ahead >= 0 /\ merge.pos[j] + ahead < merge.size[j] =>
                merge.bufs[j][r] = file[At(j, merge.pos[j] + ahead)]

\* What is merged so far: the consumed ids, in order and below all the others
OutInv ==
    /\ merge.out \in Seq(Ids) /\ IsSorted(merge.out)
    /\ EndsExact(merge.out, blockEnds)
    /\ Cardinality(Consumed) = Len(merge.out)
    /\ Elems(merge.out) = {file[q] : q \in Consumed}
    /\ \A m \in DOMAIN merge.out, j \in 0..(Parts - 1) :
        \A a \in merge.pos[j]..(merge.size[j] - 1) : merge.out[m] <= file[At(j, a)]

MergeInv == pc = "merge" => PartsInv /\ BuffersInv /\ OutInv

\* The file a lookup works on
LookupInv ==
    closed /\ pc \notin {"split", "merge"} =>
        /\ IsSorted(file)
        /\ \A k \in 1..(Len(file) \div BlockS) : blockEnds[k] = file[k * BlockS]
        /\ \/ Len(blockEnds) = Len(file) \div BlockS
           \/ /\ Len(blockEnds) = (Len(file) \div BlockS) + 1
              /\ blockEnds[Len(blockEnds)] = biggest

\* The binary search has not passed over arg
SearchInv ==
    pc = "search" =>
        /\ MayContain(arg) /\ arg \notin Elems(blockEnds)
        /\ range \in [l : Int, r : Int]
        /\ curBlock = GetBlock(arg) /\ buffer = Block(file, curBlock)
        /\ range.l \in 0..Len(buffer) /\ range.r \in -1..(Len(buffer) - 1)
        /\ \A k \in 1..Len(buffer) : /\ k - 1 < range.l => buffer[k] < arg
                                     /\ k - 1 > range.r => buffer[k] > arg

SetInv ==
    /\ CallInv /\ BoundsInv
    /\ Elems(file) \cup Elems(outBuffer) = added
    /\ FillInv /\ MergeInv /\ LookupInv /\ CachedBlockCurrent /\ SearchInv

-----------------------------------------------------------------------------
(* Blocks, parts and the ids of a sequence.                                *)

\* Quotient and remainder by a positive divisor
LEMMA DivMod ==
  ASSUME NEW n \in Nat, NEW d \in Nat \ {0}
  PROVE  /\ n \div d \in Nat /\ n % d \in 0..(d - 1)
         /\ n = d * (n \div d) + (n % d)
  <1>1. n \div d \in Int /\ n % d \in 0..(d - 1) /\ n = d * (n \div d) + (n % d)
    <2>1. n \div d \in Int
      OBVIOUS
    <2>2. n % d \in 0..(d - 1)
      OBVIOUS
    <2>3. n = d * (n \div d) + (n % d)
      OBVIOUS
    <2> QED BY <2>1, <2>2, <2>3
  <1> DEFINE x == n \div d
             y == n % d
  <1> HIDE DEF x, y
  <1>2. x \in Int /\ y \in 0..(d - 1) /\ n = d * x + y
    BY <1>1 DEF x, y
  <1>3. x >= 0
    <2> SUFFICES ASSUME x <= -1 PROVE FALSE
      BY <1>2
    <2>1. d * x <= -d
      BY <1>2
    <2> QED BY <1>2, <2>1
  <1> QED
    BY <1>1, <1>2, <1>3 DEF x

\* ... and they are the only ones
LEMMA DivModUnique ==
  ASSUME NEW d \in Nat \ {0}, NEW q \in Nat, NEW r \in 0..(d - 1)
  PROVE  (d * q + r) \div d = q /\ (d * q + r) % d = r
  <1> DEFINE n == d * q + r
             x == n \div d
             y == n % d
  <1>1. n \in Nat
    OBVIOUS
  <1>2. x \in Nat /\ y \in 0..(d - 1) /\ n = d * x + y
    BY <1>1, DivMod
  <1> HIDE DEF x, y
  <1>3. d * q + r = d * x + y
    BY <1>2
  <1>4. q = x
    <2>1. CASE q >= x + 1
      <3>1. d * q >= d * (x + 1)
        BY <2>1, <1>2
      <3>2. d * (x + 1) = d * x + d /\ d * q \in Nat /\ d * x \in Nat
        BY <1>2
      <3> QED BY <3>1, <3>2, <1>2, <1>3
    <2>2. CASE x >= q + 1
      <3>1. d * x >= d * (q + 1)
        BY <2>2, <1>2
      <3>2. d * (q + 1) = d * q + d /\ d * q \in Nat /\ d * x \in Nat
        BY <1>2
      <3> QED BY <3>1, <3>2, <1>2, <1>3
    <2> QED BY <2>1, <2>2, <1>2
  <1>5. r = y
    <2>1. d * q \in Nat /\ d * q = d * x
      BY <1>4
    <2> QED BY <2>1, <1>2, <1>3
  <1> QED
    BY <1>4, <1>5 DEF x, y

\* The next number: at a multiple of d the quotient grows, elsewhere the
\* remainder
LEMMA DivModNext ==
  ASSUME NEW n \in Nat, NEW d \in Nat \ {0}
  PROVE  IF (n + 1) % d = 0
         THEN n % d = d - 1 /\ (n + 1) \div d = (n \div d) + 1 /\ n + 1 = d * ((n \div d) + 1)
         ELSE (n + 1) % d = (n % d) + 1 /\ (n + 1) \div d = n \div d
  <1> DEFINE x == n \div d
             y == n % d
  <1>1. x \in Nat /\ y \in 0..(d - 1) /\ n = d * x + y
    BY DivMod
  <1> HIDE DEF x, y
  <1>2. CASE y = d - 1
    <2>1. n + 1 = d * (x + 1) + 0
      BY <1>1, <1>2
    <2>2. (n + 1) \div d = x + 1 /\ (n + 1) % d = 0
      <3>1. x + 1 \in Nat /\ 0 \in 0..(d - 1)
        BY <1>1
      <3>2. (d * (x + 1) + 0) \div d = x + 1 /\ (d * (x + 1) + 0) % d = 0
        BY <3>1, DivModUnique
      <3> QED BY ONLY <2>1, <3>2
    <2>3. n + 1 = d * (x + 1)
      BY <1>1, <2>1
    <2> QED BY <1>2, <2>2, <2>3 DEF x, y
  <1>3. CASE y # d - 1
    <2>1. n + 1 = d * x + (y + 1) /\ y + 1 \in 0..(d - 1) /\ y + 1 # 0
      BY <1>1, <1>3
    <2>2. (n + 1) \div d = x /\ (n + 1) % d = y + 1
      BY ONLY <1>1, <2>1, DivModUnique, d \in Nat \ {0}
    <2> QED BY <2>1, <2>2 DEF x, y
  <1> QED
    BY <1>2, <1>3

\* What a read returns
LEMMA ReadProperties ==
  ASSUME NEW S, NEW f \in Seq(S), NEW pos \in Nat, NEW n \in Nat, pos <= Len(f)
  PROVE  /\ ReadAt(f, pos, n) \in Seq(S)
         /\ Len(ReadAt(f, pos, n)) = Least(n, Len(f) - pos)
         /\ \A k \in 1..Len(ReadAt(f, pos, n)) : ReadAt(f, pos, n)[k] = f[pos + k]
  <1> DEFINE e == Least(pos + n, Len(f))
  <1>1. Len(f) \in Nat /\ e \in Nat /\ e <= Len(f) /\ pos <= e /\ e - pos = Least(n, Len(f) - pos)
    BY DEF Least
  <1> HIDE DEF e
  <1>2. ReadAt(f, pos, n) = SubSeq(f, pos + 1, e)
    BY DEF ReadAt, e
  <1>3. /\ SubSeq(f, pos + 1, e) \in Seq(S)
        /\ Len(SubSeq(f, pos + 1, e)) = e - pos
        /\ \A k \in 1..(e - pos) : SubSeq(f, pos + 1, e)[k] = f[pos + k]
    BY <1>1
  <1> QED
    BY <1>1, <1>2, <1>3

\* A sequence and one more id
LEMMA AppendElems ==
  ASSUME NEW S, NEW s \in Seq(S), NEW x \in S
  PROVE  Elems(Append(s, x)) = Elems(s) \cup {x}
  <1>1. /\ DOMAIN s = 1..Len(s) /\ DOMAIN Append(s, x) = 1..(Len(s) + 1) /\ Len(s) \in Nat
        /\ Append(s, x)[Len(s) + 1] = x
        /\ \A k \in 1..Len(s) : Append(s, x)[k] = s[k]
    OBVIOUS
  <1>2. 1..(Len(s) + 1) = 1..Len(s) \cup {Len(s) + 1}
    BY <1>1
  <1> QED
    BY <1>1, <1>2 DEF Elems

\* Two sequences one after the other
LEMMA ConcatElems ==
  ASSUME NEW S, NEW s \in Seq(S), NEW t \in Seq(S)
  PROVE  Elems(s \o t) = Elems(s) \cup Elems(t)
  <1>1. /\ DOMAIN s = 1..Len(s) /\ DOMAIN t = 1..Len(t) /\ Len(s) \in Nat /\ Len(t) \in Nat
        /\ DOMAIN (s \o t) = 1..(Len(s) + Len(t))
        /\ \A k \in 1..(Len(s) + Len(t)) :
              (s \o t)[k] = IF k <= Len(s) THEN s[k] ELSE t[k - Len(s)]
    OBVIOUS
  <1>2. \A k \in 1..Len(s) : k \in 1..(Len(s) + Len(t)) /\ (s \o t)[k] = s[k]
    BY <1>1
  <1>3. \A k \in 1..Len(t) :
          k + Len(s) \in 1..(Len(s) + Len(t)) /\ (s \o t)[k + Len(s)] = t[k]
    BY <1>1
  <1>4. \A k \in 1..(Len(s) + Len(t)) :
          (s \o t)[k] \in {s[m] : m \in 1..Len(s)} \cup {t[m] : m \in 1..Len(t)}
    <2> TAKE k \in 1..(Len(s) + Len(t))
    <2>1. k <= Len(s) => k \in 1..Len(s)
      OBVIOUS
    <2>2. ~(k <= Len(s)) => k - Len(s) \in 1..Len(t)
      BY <1>1
    <2> QED BY <1>1, <2>1, <2>2
  <1>5. Elems(s) \cup Elems(t) \subseteq Elems(s \o t)
    <2>1. ASSUME NEW k \in 1..Len(s) PROVE s[k] \in Elems(s \o t)
      BY <1>1, <1>2 DEF Elems
    <2>2. ASSUME NEW k \in 1..Len(t) PROVE t[k] \in Elems(s \o t)
      BY <1>1, <1>3 DEF Elems
    <2>3. Elems(s) = {s[k] : k \in 1..Len(s)} /\ Elems(t) = {t[k] : k \in 1..Len(t)}
      BY <1>1 DEF Elems
    <2> QED BY <2>1, <2>2, <2>3
  <1>6. Elems(s \o t) \subseteq Elems(s) \cup Elems(t)
    BY ONLY <1>1, <1>4 DEF Elems
  <1> QED
    BY ONLY <1>5, <1>6

\* A full block ends within the sequence
LEMMA BlockEndIn ==
  ASSUME NEW n \in Nat, NEW k \in 1..(n \div BlockS)
  PROVE  k * BlockS \in 1..n
  <1> DEFINE c == n \div BlockS
  <1>0. BlockS \in Nat \ {0}
    BY SizeAssumption
  <1>1. c \in Nat /\ n = BlockS * c + (n % BlockS) /\ n % BlockS \in 0..(BlockS - 1)
    BY <1>0, DivMod
  <1> HIDE DEF c
  <1>2. k \in 1..c
    BY DEF c
  <1>3. k * BlockS >= 1 /\ k * BlockS <= c * BlockS /\ k * BlockS \in Nat
    BY ONLY <1>0, <1>1, <1>2
  <1>4. c * BlockS = BlockS * c /\ c * BlockS \in Nat /\ BlockS * c <= n
    BY <1>0, <1>1
  <1> QED
    BY ONLY <1>3, <1>4, n \in Nat

\* diskAdd and the merge note the end of a block when it is full
LEMMA EndsAppend ==
  ASSUME NEW S, NEW s \in Seq(S), NEW x \in S, NEW ends \in Seq(S), EndsExact(s, ends)
  PROVE  EndsExact(Append(s, x), IF (Len(s) + 1) % BlockS = 0 THEN Append(ends, x) ELSE ends)
  <1> DEFINE n == Len(s)
             c == n \div BlockS
  <1>0. BlockS \in Nat \ {0}
    BY SizeAssumption
  <1>1. n \in Nat /\ c \in Nat /\ n = BlockS * c + (n % BlockS) /\ n % BlockS \in 0..(BlockS - 1)
    <2>1. n \in Nat
      OBVIOUS
    <2> HIDE DEF n
    <2> QED BY <2>1, <1>0, DivMod
  <1>2. /\ Len(Append(s, x)) = n + 1 /\ Append(s, x)[n + 1] = x
        /\ \A k \in 1..n : Append(s, x)[k] = s[k]
        /\ Len(ends) = c /\ \A k \in 1..c : ends[k] = s[k * BlockS]
    <2>1. /\ Len(Append(s, x)) = n + 1 /\ Append(s, x)[n + 1] = x
          /\ \A k \in 1..n : Append(s, x)[k] = s[k]
      OBVIOUS
    <2>2. Len(ends) = c /\ \A k \in 1..c : ends[k] = s[k * BlockS]
      BY DEF EndsExact
    <2> QED BY <2>1, <2>2
  <1>3. \A k \in 1..c : k * BlockS \in 1..n
    <2> HIDE DEF n
    <2> QED BY <1>1, BlockEndIn
  <1>4. /\ (n + 1) % BlockS = 0 => /\ (n + 1) \div BlockS = c + 1
                                   /\ n + 1 = (c + 1) * BlockS
        /\ (n + 1) % BlockS # 0 => (n + 1) \div BlockS = c
    <2>1. BlockS * (c + 1) = (c + 1) * BlockS
      BY <1>0, <1>1
    <2>2. IF (n + 1) % BlockS = 0
          THEN (n + 1) \div BlockS = c + 1 /\ n + 1 = BlockS * (c + 1)
          ELSE (n + 1) \div BlockS = c
      BY <1>0, <1>1, DivModNext
    <2> HIDE DEF n, c
    <2> QED BY ONLY <2>1, <2>2
  <1> HIDE DEF c, n
  <1>5. \A k \in 1..c : ends[k] = Append(s, x)[k * BlockS]
    BY <1>2, <1>3
  <1>6. CASE (n + 1) % BlockS = 0
    <2>1. /\ Len(Append(ends, x)) = c + 1 /\ Append(ends, x)[c + 1] = x
          /\ \A k \in 1..c : Append(ends, x)[k] = ends[k]
      BY <1>2
    <2>2. \A k \in 1..(c + 1) : k \in 1..c \/ k = c + 1
      BY <1>1
    <2>3. \A k \in 1..(c + 1) : Append(ends, x)[k] = Append(s, x)[k * BlockS]
      BY <2>1, <2>2, <1>2, <1>4, <1>5, <1>6
    <2>4. EndsExact(Append(s, x), Append(ends, x))
      BY <2>1, <2>3, <1>2, <1>4, <1>6 DEF EndsExact
    <2> QED BY <2>4, <1>6 DEF n
  <1>7. CASE (n + 1) % BlockS # 0
    <2>1. EndsExact(Append(s, x), ends)
      BY <1>2, <1>4, <1>5, <1>7 DEF EndsExact
    <2> QED BY <2>1, <1>7 DEF n
  <1> QED
    BY <1>6, <1>7

-----------------------------------------------------------------------------
(* Filling and closing the set.                                            *)

LEMMA InitSet == Init => SetInv
  <1> SUFFICES ASSUME Init PROVE SetInv
    OBVIOUS
  <1>0. Top \in Nat \ {0} /\ BlockS \in Nat \ {0} /\ OutS \in Nat \ {0}
    BY SizeAssumption
  <1>1. CallInv
    <2>1. \A S : <<>> \in Seq(S)
      OBVIOUS
    <2>2. Len(<<>>) < OutS /\ 0 \in 0..Top
      BY <1>0
    <2> QED BY <2>1, <2>2 DEF Init, CallInv
  <1>2. BoundsInv
    BY <1>0 DEF Init, BoundsInv, NoFalseNegative
  <1>3. Elems(<<>>) = {}
    BY DEF Elems
  <1>4. 0 % BlockS = 0 /\ 0 \div BlockS = 0
    BY <1>0
  <1>5. All = <<>>
    BY DEF Init, All
  <1>6. FillInv
    <2>1. EndsExact(All, blockEnds)
      BY <1>4, <1>5 DEF Init, EndsExact
    <2>2. IsSorted(All) /\ \A k \in DOMAIN All : All[k] <= last
      BY <1>5 DEF IsSorted
    <2> QED BY <2>1, <2>2, <1>4 DEF Init, FillInv
  <1>7. MergeInv /\ LookupInv /\ CachedBlockCurrent /\ SearchInv
    BY DEF Init, MergeInv, LookupInv, CachedBlockCurrent, SearchInv
  <1> QED
    BY <1>1, <1>2, <1>3, <1>6, <1>7 DEF Init, SetInv

\* diskAdd appends to what was added, whether or not the buffer is flushed
LEMMA AddAppends ==
  ASSUME SetInv, NEW id \in Ids, Add(id)
  PROVE  /\ All \in Seq(Ids) /\ All' = Append(All, id)
         /\ file' \in Seq(Ids) /\ outBuffer' \in Seq(Ids) /\ Len(outBuffer') < OutS
         /\ Len(file') % BlockS = 0
         /\ blockEnds' = IF (Len(All) + 1) % BlockS = 0 THEN Append(blockEnds, id) ELSE blockEnds
  <1>0. OutS \in Nat \ {0} /\ BlockS \in Nat \ {0} /\ OutS % BlockS = 0
    BY SizeAssumption
  <1>1. /\ file \in Seq(Ids) /\ outBuffer \in Seq(Ids) /\ Len(outBuffer) < OutS
        /\ Len(file) % BlockS = 0
    BY DEF SetInv, CallInv, FillInv, Add
  <1> DEFINE full == Append(outBuffer, id)
             f == Len(file)
             o == Len(outBuffer)
  <1>2. /\ full \in Seq(Ids) /\ Len(full) = o + 1 /\ f \in Nat /\ o \in Nat
        /\ All \in Seq(Ids) /\ Len(All) = f + o /\ file \o full = Append(All, id)
    <2>1. full \in Seq(Ids) /\ Len(full) = o + 1 /\ f \in Nat /\ o \in Nat
      BY <1>1
    <2>2. All \in Seq(Ids) /\ Len(All) = f + o
      BY <1>1 DEF All
    <2>3. file \o full = Append(All, id)
      BY <1>1 DEF All
    <2> QED BY <2>1, <2>2, <2>3
  <1>3. /\ blockEnds' = (IF Len(full) % BlockS = 0 THEN Append(blockEnds, id) ELSE blockEnds)
        /\ IF Len(full) >= OutS THEN file' = file \o full /\ outBuffer' = <<>>
                                ELSE file' = file /\ outBuffer' = full
    BY DEF Add, DiskAdd
  <1> HIDE DEF full
  <1>4. All' = Append(All, id)
    <2>1. CASE Len(full) >= OutS
      <3>1. (file \o full) \o <<>> = file \o full
        BY <1>1, <1>2
      <3> QED BY <2>1, <3>1, <1>2, <1>3 DEF All
    <2>2. CASE ~(Len(full) >= OutS)
      BY <2>2, <1>2, <1>3 DEF All
    <2> QED BY <2>1, <2>2
  <1>5. file' \in Seq(Ids) /\ outBuffer' \in Seq(Ids) /\ Len(outBuffer') < OutS
    <2>1. CASE Len(full) >= OutS
      <3>1. file \o full \in Seq(Ids) /\ <<>> \in Seq(Ids) /\ Len(<<>>) < OutS
        BY <1>0, <1>1, <1>2
      <3> QED BY <2>1, <3>1, <1>3
    <2>2. CASE ~(Len(full) >= OutS)
      BY <2>2, <1>0, <1>1, <1>2, <1>3
    <2> QED BY <2>1, <2>2
  <1> HIDE DEF f, o
  <1>6. \A a, b \in Nat : a % BlockS = 0 => (a + b) % BlockS = b % BlockS
    <2> SUFFICES ASSUME NEW a \in Nat, NEW b \in Nat, a % BlockS = 0
                 PROVE  (a + b) % BlockS = b % BlockS
      OBVIOUS
    <2> DEFINE x == a \div BlockS
               y == b \div BlockS
               z == b % BlockS
    <2>1. x \in Nat /\ y \in Nat /\ z \in 0..(BlockS - 1) /\ a = BlockS * x + 0
          /\ b = BlockS * y + z
      <3>1. x \in Nat /\ a = BlockS * x + (a % BlockS)
        BY <1>0, DivMod
      <3>2. y \in Nat /\ z \in 0..(BlockS - 1) /\ b = BlockS * y + z
        BY <1>0, DivMod
      <3> HIDE DEF x, y, z
      <3> QED BY ONLY <3>1, <3>2, a % BlockS = 0
    <2> HIDE DEF x, y, z
    <2>2. a + b = BlockS * (x + y) + z /\ x + y \in Nat
      BY <2>1, <1>0
    <2>3. (BlockS * (x + y) + z) % BlockS = z
      BY <2>1, <2>2, <1>0, DivModUnique
    <2> QED BY <2>2, <2>3 DEF z
  <1>7. (Len(All) + 1) % BlockS = Len(full) % BlockS
    <2>1. Len(All) + 1 = f + (o + 1) /\ o + 1 \in Nat /\ f % BlockS = 0
      BY <1>1, <1>2 DEF f
    <2> QED BY <2>1, <1>2, <1>6
  <1>8. Len(file') % BlockS = 0
    <2>1. CASE Len(full) >= OutS
      <3>1. Len(full) = OutS
        BY <2>1, <1>0, <1>1, <1>2 DEF o
      <3>2. Len(file \o full) = f + OutS
        BY <3>1, <1>1, <1>2 DEF f
      <3>3. (f + OutS) % BlockS = 0
        BY <1>0, <1>1, <1>2, <1>6 DEF f
      <3> QED BY <2>1, <3>2, <3>3, <1>3
    <2>2. CASE ~(Len(full) >= OutS)
      BY <2>2, <1>1, <1>3
    <2> QED BY <2>1, <2>2
  <1> QED
    BY <1>2, <1>3, <1>4, <1>5, <1>7, <1>8

\* add() keeps the invariant
LEMMA AddStep ==
  ASSUME SetInv, NEW id \in Ids, Add(id)
  PROVE  SetInv'
  <1>0. /\ Top \in Nat \ {0} /\ BlockS \in Nat \ {0}
        /\ \A x \in Ids : x \in 0..Top
    BY SizeAssumption
  <1>1. /\ All \in Seq(Ids) /\ All' = Append(All, id)
        /\ file' \in Seq(Ids) /\ outBuffer' \in Seq(Ids) /\ Len(outBuffer') < OutS
        /\ Len(file') % BlockS = 0
        /\ blockEnds' = (IF (Len(All) + 1) % BlockS = 0 THEN Append(blockEnds, id) ELSE blockEnds)
    BY AddAppends
  <1>2. /\ ~closed /\ ~closed' /\ pc = "idle" /\ pc' = "idle" /\ curBlock' = curBlock
        /\ added' = added \cup {id} /\ last' = id /\ sorted' = (sorted /\ last <= id)
        /\ biggest' = Greatest(id, biggest) /\ smallest' = Least(id, smallest)
    BY DEF Add, SetInv, CallInv
  <1>3. /\ blockEnds \in Seq(0..Top) /\ added \subseteq Ids /\ curBlock = -1 /\ sorted \in BOOLEAN
        /\ last \in 0..Top
    BY <1>2 DEF SetInv, CallInv
  <1>4. blockEnds' \in Seq(0..Top)
    <2>1. id \in 0..Top
      BY <1>0
    <2>2. Append(blockEnds, id) \in Seq(0..Top)
      BY <2>1, <1>3
    <2> QED BY <2>2, <1>1, <1>3
  <1>5. CallInv'
    <2>1. sorted' \in BOOLEAN /\ closed' \in BOOLEAN
      BY Zenon DEF Add, SetInv, CallInv
    <2>2. added' \subseteq Ids /\ last' \in 0..Top
      BY <1>0, <1>2, <1>3
    <2> QED BY <2>1, <2>2, <1>1, <1>2, <1>3, <1>4 DEF CallInv
  <1>6. BoundsInv'
    <2>1. FilterInv
      BY DEF SetInv, CallInv, BoundsInv, FilterInv
    <2>2. NoFalseNegative' /\ smallest' \in 0..Top /\ biggest' \in 0..Top
      BY <2>1, AddKeepsFilter DEF FilterInv
    <2>3. added' # {}
      BY <1>2
    <2>4. biggest' \in added'
      <3>1. CASE added = {}
        BY <3>1, <1>0, <1>2 DEF SetInv, BoundsInv, Greatest
      <3>2. CASE added # {}
        BY <3>2, <1>2 DEF SetInv, BoundsInv, Greatest
      <3> QED BY <3>1, <3>2
    <2> QED BY <2>2, <2>3, <2>4 DEF BoundsInv
  <1>7. Elems(file') \cup Elems(outBuffer') = added'
    <2>1. Elems(All) = added
      <3>1. file \in Seq(Ids) /\ outBuffer \in Seq(Ids)
        BY DEF SetInv, CallInv
      <3>2. Elems(file \o outBuffer) = Elems(file) \cup Elems(outBuffer)
        BY <3>1, ConcatElems
      <3> QED BY <3>2 DEF SetInv, All
    <2>2. Elems(All') = added'
      BY <2>1, <1>1, <1>2, AppendElems
    <2>3. Elems(file' \o outBuffer') = Elems(file') \cup Elems(outBuffer')
      BY <1>1, ConcatElems
    <2> QED BY <2>2, <2>3 DEF All
  <1>8. FillInv'
    <2>1. EndsExact(All', blockEnds')
      <3>1. EndsExact(All, blockEnds) /\ All \in Seq(0..Top) /\ id \in 0..Top
        BY <1>0, <1>1, <1>2 DEF SetInv, FillInv
      <3>2. EndsExact(Append(All, id),
                      IF (Len(All) + 1) % BlockS = 0 THEN Append(blockEnds, id) ELSE blockEnds)
        BY <3>1, <1>3, EndsAppend
      <3> QED BY <3>2, <1>1
    <2>2. ASSUME sorted'
          PROVE  IsSorted(All') /\ \A k \in DOMAIN All' : All'[k] <= last'
      <3>1. /\ IsSorted(All) /\ last <= id
            /\ \A k \in DOMAIN All : All[k] <= last
        BY <2>2, <1>2 DEF SetInv, FillInv
      <3>2. /\ DOMAIN All = 1..Len(All) /\ DOMAIN All' = 1..(Len(All) + 1) /\ Len(All) \in Nat
            /\ All'[Len(All) + 1] = id /\ \A k \in 1..Len(All) : All'[k] = All[k] /\ All[k] \in 0..Top
        BY <1>0, <1>1
      <3>3. id \in 0..Top
        BY <1>0
      <3>4. \A k \in 1..Len(All) : All[k] <= id
        BY <3>1, <3>2, <3>3, <1>3
      <3>5. \A k \in 1..(Len(All) + 1) : k \in 1..Len(All) \/ k = Len(All) + 1
        BY <3>2
      <3>6. \A k \in DOMAIN All' : All'[k] <= last'
        BY <3>2, <3>3, <3>4, <3>5, <1>2
      <3>7. ASSUME NEW k \in DOMAIN All', NEW m \in DOMAIN All', k < m PROVE All'[k] <= All'[m]
        <4>1. k \in 1..Len(All)
          BY <3>2, <3>7
        <4>2. CASE m = Len(All) + 1
          BY <4>1, <4>2, <3>2, <3>4
        <4>3. CASE m \in 1..Len(All)
          BY <4>1, <4>3, <3>1, <3>2, <3>7 DEF IsSorted
        <4> QED BY <4>2, <4>3, <3>2, <3>5
      <3> QED BY <3>6, <3>7 DEF IsSorted
    <2> QED BY <2>1, <2>2, <1>1 DEF FillInv
  <1>9. MergeInv' /\ LookupInv' /\ CachedBlockCurrent' /\ SearchInv'
    BY <1>2, <1>3 DEF MergeInv, LookupInv, CachedBlockCurrent, SearchInv
  <1> QED
    BY <1>5, <1>6, <1>7, <1>8, <1>9 DEF SetInv

\* close(): the rest is flushed, and the file is final unless it must be sorted
LEMMA CloseStep ==
  ASSUME SetInv, NEW id \in Ids, CloseAndAsk(id)
  PROVE  SetInv'
  <1>1. /\ file' = All /\ outBuffer' = <<>> /\ blockEnds' = Append(blockEnds, biggest)
        /\ closed' = TRUE /\ arg' = id /\ pc' = (IF sorted THEN "filter" ELSE "split")
        /\ UNCHANGED <<added, last, smallest, biggest, bloom, sorted, curBlock, buffer>>
        /\ ~closed /\ pc = "idle"
    BY DEF CloseAndAsk, All
  <1>2. /\ file \in Seq(Ids) /\ outBuffer \in Seq(Ids) /\ blockEnds \in Seq(0..Top)
        /\ biggest \in 0..Top /\ curBlock = -1 /\ OutS \in Nat \ {0} /\ BlockS \in Nat \ {0}
        /\ added \subseteq Ids /\ last \in 0..Top /\ sorted \in BOOLEAN
    BY <1>1, SizeAssumption DEF SetInv, CallInv, BoundsInv
  <1>3. All \in Seq(Ids) /\ Append(blockEnds, biggest) \in Seq(0..Top) /\ Elems(All) = added
    <2>1. All \in Seq(Ids) /\ Append(blockEnds, biggest) \in Seq(0..Top)
      BY <1>2 DEF All
    <2>2. Elems(file \o outBuffer) = Elems(file) \cup Elems(outBuffer)
      BY <1>2, ConcatElems
    <2> QED BY <2>1, <2>2 DEF SetInv, All
  <1>4. CallInv'
    <2>1. <<>> \in Seq(Ids) /\ Len(<<>>) < OutS
      BY <1>2
    <2>2. pc' \in {"filter", "split"} /\ (pc' = "filter" => sorted)
      BY <1>1
    <2> QED BY <2>1, <2>2, <1>1, <1>2, <1>3 DEF CallInv
  <1>5. BoundsInv'
    BY <1>1 DEF SetInv, BoundsInv, NoFalseNegative, MayContain
  <1>6. Elems(file') \cup Elems(outBuffer') = added'
    <2>1. Elems(<<>>) = {}
      BY DEF Elems
    <2> QED BY <2>1, <1>1, <1>3
  <1>7. LookupInv'
    <2> SUFFICES ASSUME pc' \notin {"split", "merge"}
                 PROVE  /\ IsSorted(All)
                        /\ \A k \in 1..(Len(All) \div BlockS) :
                              Append(blockEnds, biggest)[k] = All[k * BlockS]
                        /\ Len(Append(blockEnds, biggest)) = (Len(All) \div BlockS) + 1
                        /\ Append(blockEnds, biggest)[Len(Append(blockEnds, biggest))] = biggest
      BY <1>1 DEF LookupInv
    <2>1. IsSorted(All) /\ EndsExact(All, blockEnds)
      BY <1>1 DEF SetInv, FillInv
    <2>2. /\ Len(Append(blockEnds, biggest)) = Len(blockEnds) + 1
          /\ Append(blockEnds, biggest)[Len(blockEnds) + 1] = biggest
          /\ \A k \in 1..Len(blockEnds) : Append(blockEnds, biggest)[k] = blockEnds[k]
      BY <1>2
    <2> QED BY <2>1, <2>2 DEF EndsExact
  <1>8. FillInv' /\ MergeInv' /\ SearchInv' /\ CachedBlockCurrent'
    BY <1>1, <1>2 DEF FillInv, MergeInv, SearchInv, CachedBlockCurrent
  <1> QED
    BY <1>4, <1>5, <1>6, <1>7, <1>8 DEF SetInv

-----------------------------------------------------------------------------
(* Looking ids up.                                                         *)

\* Steps of a lookup leave the file, its index and the filter alone
LEMMA LookupFrame ==
  ASSUME SetInv, closed, pc \notin {"split", "merge"}, pc' \notin {"split", "merge"},
         UNCHANGED <<fillVars, closed, sorted, file, blockEnds>>,
         CallInv', CachedBlockCurrent', SearchInv'
  PROVE  SetInv'
  <1>1. BoundsInv' /\ Elems(file') \cup Elems(outBuffer') = added'
    BY DEF SetInv, BoundsInv, NoFalseNegative, MayContain, fillVars
  <1>2. FillInv' /\ MergeInv' /\ LookupInv'
    BY DEF SetInv, FillInv, MergeInv, LookupInv, fillVars
  <1> QED
    BY <1>1, <1>2 DEF SetInv

\* has() on a closed set
LEMMA AskStep ==
  ASSUME SetInv, NEW id \in Ids, Ask(id)
  PROVE  SetInv'
  <1>1. /\ closed /\ pc = "idle" /\ pc' = "filter" /\ arg' = id
        /\ UNCHANGED <<fillVars, closed, sorted, file, blockEnds>> /\ UNCHANGED <<curBlock, buffer>>
    BY DEF Ask
  <1>2. CallInv'
    BY <1>1 DEF SetInv, CallInv, fillVars
  <1>3. CachedBlockCurrent' /\ SearchInv'
    BY <1>1 DEF SetInv, CachedBlockCurrent, SearchInv, Block, ReadAt
  <1> QED
    BY <1>1, <1>2, <1>3, LookupFrame

\* The end of a lookup
LEMMA ReturnStep ==
  ASSUME SetInv, pc \in {"filter", "search"}, pc' = "idle",
         UNCHANGED <<fillVars, closed, sorted, file, blockEnds>>, UNCHANGED <<curBlock, buffer>>
  PROVE  SetInv'
  <1>1. closed
    BY DEF SetInv, CallInv
  <1>2. CallInv'
    BY <1>1 DEF SetInv, CallInv, fillVars
  <1>3. CachedBlockCurrent' /\ SearchInv'
    BY DEF SetInv, CachedBlockCurrent, SearchInv, Block, ReadAt
  <1> QED
    BY <1>1, <1>2, <1>3, LookupFrame

\* The ids of a closed set, whose lookups are under way
LEMMA LookupFile ==
  ASSUME SetInv, closed, pc \notin {"split", "merge"}
  PROVE  /\ file \in Seq(Nat) /\ Len(file) \in Nat
         /\ IsSorted(file) /\ Elems(file) = added
         /\ blockEnds \in Seq(Nat) /\ biggest \in Nat
         /\ \A k \in 1..(Len(file) \div BlockS) : blockEnds[k] = file[k * BlockS]
         /\ \/ Len(blockEnds) = Len(file) \div BlockS
            \/ /\ Len(blockEnds) = (Len(file) \div BlockS) + 1
               /\ blockEnds[Len(blockEnds)] = biggest
  <1>1. file \in Seq(Ids) /\ blockEnds \in Seq(0..Top) /\ biggest \in 0..Top
    BY DEF SetInv, CallInv, BoundsInv
  <1>2. Ids \subseteq Nat /\ Top \in Nat /\ 0..Top \subseteq Nat
    BY SizeAssumption
  <1>3. Elems(file) = added
    <2>1. Elems(<<>>) = {} /\ outBuffer = <<>>
      BY DEF Elems, SetInv, CallInv
    <2> QED BY <2>1 DEF SetInv
  <1>4. /\ file \in Seq(Nat) /\ Len(file) \in Nat
        /\ blockEnds \in Seq(Nat) /\ biggest \in Nat
    <2>1. \A S, T : S \subseteq T => \A s \in Seq(S) : s \in Seq(T)
      OBVIOUS
    <2>2. file \in Seq(Nat) /\ blockEnds \in Seq(Nat)
      BY <1>1, <1>2, <2>1, Zenon
    <2> QED BY <2>2, <1>1, <1>2
  <1> QED
    BY <1>1, <1>3, <1>4 DEF SetInv, LookupInv

\* A block is a sorted piece of the file
LEMMA BlockProperties ==
  ASSUME SetInv, closed, pc \notin {"split", "merge"}, NEW n \in Nat, n * BlockS <= Len(file)
  PROVE  /\ Block(file, n) \in Seq(Nat) /\ Elems(Block(file, n)) \subseteq added
         /\ Len(Block(file, n)) = Least(BlockS, Len(file) - n * BlockS)
         /\ \A k \in 1..Len(Block(file, n)) : Block(file, n)[k] = file[n * BlockS + k]
         /\ IsSorted(Block(file, n))
  <1> DEFINE p == n * BlockS
             b == Block(file, n)
  <1>0. BlockS \in Nat \ {0} /\ p \in Nat /\ p <= Len(file)
    BY SizeAssumption
  <1>1. /\ file \in Seq(Nat) /\ Len(file) \in Nat /\ IsSorted(file) /\ Elems(file) = added
    BY LookupFile
  <1> HIDE DEF p
  <1>2. /\ b \in Seq(Nat) /\ Len(b) = Least(BlockS, Len(file) - p)
        /\ \A k \in 1..Len(b) : b[k] = file[p + k]
    <2>1. /\ ReadAt(file, p, BlockS) \in Seq(Nat)
          /\ Len(ReadAt(file, p, BlockS)) = Least(BlockS, Len(file) - p)
          /\ \A k \in 1..Len(ReadAt(file, p, BlockS)) : ReadAt(file, p, BlockS)[k] = file[p + k]
      <3>1. file \in Seq(Nat) /\ p \in Nat /\ BlockS \in Nat /\ p <= Len(file)
        BY <1>0, <1>1
      <3> DEFINE rd == ReadAt(file, p, BlockS)
      <3>2. rd \in Seq(Nat)
        BY ONLY <3>1, ReadProperties
      <3>3. Len(rd) = Least(BlockS, Len(file) - p)
        BY ONLY <3>1, ReadProperties
      <3>4. \A k \in 1..Len(rd) : rd[k] = file[p + k]
        BY ONLY <3>1, ReadProperties
      <3> QED BY <3>2, <3>3, <3>4
    <2>2. b = ReadAt(file, p, BlockS)
      BY DEF Block, p
    <2> HIDE DEF b
    <2> QED BY <2>1, <2>2
  <1> HIDE DEF b
  <1>3. DOMAIN b = 1..Len(b) /\ DOMAIN file = 1..Len(file) /\ Len(b) \in Nat
    BY <1>1, <1>2
  <1>4. \A k \in 1..Len(b) : p + k \in 1..Len(file)
    <2>1. Len(b) <= Len(file) - p
      BY <1>0, <1>1, <1>2 DEF Least
    <2> QED BY ONLY <2>1, <1>0, <1>1, <1>3
  <1>5. Elems(b) \subseteq added
    BY <1>1, <1>2, <1>3, <1>4 DEF Elems
  <1>6. IsSorted(b)
    <2> SUFFICES ASSUME NEW i \in 1..Len(b), NEW j \in 1..Len(b), i < j PROVE b[i] <= b[j]
      BY <1>3 DEF IsSorted
    <2>1. p + i < p + j
      BY <1>0, <1>3
    <2> QED BY <2>1, <1>1, <1>2, <1>3, <1>4 DEF IsSorted
  <1> QED
    BY <1>2, <1>5, <1>6 DEF b, p

\* getBlock stays in the file, and names the block of an id that is there
LEMMA BlockOf ==
  ASSUME SetInv, closed, pc \notin {"split", "merge"}, NEW id \in Ids,
         MayContain(id), id \notin Elems(blockEnds)
  PROVE  /\ GetBlock(id) \in Nat /\ GetBlock(id) * BlockS <= Len(file)
         /\ id \in added => id \in Elems(Block(file, GetBlock(id)))
  <1> DEFINE c == Len(file) \div BlockS
             K == {k \in DOMAIN blockEnds : blockEnds[k] <= id}
  <1>0. BlockS \in Nat \ {0} /\ id \in Nat
    BY SizeAssumption
  <1>1. /\ file \in Seq(Nat) /\ Len(file) \in Nat /\ IsSorted(file) /\ Elems(file) = added
        /\ blockEnds \in Seq(Nat) /\ biggest \in Nat
        /\ \A k \in 1..c : blockEnds[k] = file[k * BlockS]
        /\ \/ Len(blockEnds) = c
           \/ Len(blockEnds) = c + 1 /\ blockEnds[Len(blockEnds)] = biggest
    BY LookupFile
  <1>2. c \in Nat /\ BlockS * c <= Len(file)
    <2>1. c \in Nat /\ Len(file) % BlockS \in 0..(BlockS - 1)
          /\ Len(file) = BlockS * c + (Len(file) % BlockS)
      BY <1>0, <1>1, DivMod
    <2> HIDE DEF c
    <2> QED BY <2>1, <1>0, <1>1
  <1> HIDE DEF c
  <1>3. \A k \in DOMAIN blockEnds : k \in 1..(c + 1) /\ blockEnds[k] \in Nat /\ blockEnds[k] # id
    BY <1>1, <1>2 DEF Elems
  <1>4. \A k \in K : k \in 1..c
    <2> SUFFICES ASSUME NEW k \in K, k = c + 1 PROVE FALSE
      BY <1>2, <1>3
    <2>1. DOMAIN blockEnds = 1..Len(blockEnds) /\ Len(blockEnds) \in Nat
      BY <1>1
    <2>2. blockEnds[k] = biggest
      <3>1. k \in 1..Len(blockEnds)
        BY <2>1
      <3>2. Len(blockEnds) = c + 1
        <4>1. Len(blockEnds) = c \/ Len(blockEnds) = c + 1
          BY <1>1
        <4> QED BY ONLY <4>1, <3>1, <1>2, k = c + 1
      <3> QED BY <3>2, <1>1, <1>2
    <2>3. id <= biggest /\ blockEnds[k] <= id /\ blockEnds[k] # id
      BY <1>3 DEF MayContain
    <2> QED BY <2>2, <2>3, <1>0, <1>1
  <1>5. IsFiniteSet(1..c) /\ Cardinality(1..c) = c
    BY <1>2, FS_Interval
  <1>6. GetBlock(id) \in Nat /\ GetBlock(id) <= c
    <2>1. K \subseteq 1..c
      BY <1>4
    <2>2. IsFiniteSet(K) /\ Cardinality(K) <= Cardinality(1..c)
      BY <2>1, <1>5, FS_Subset
    <2>3. Cardinality(K) \in Nat
      BY <2>2, FS_CardinalityType
    <2> QED BY <2>2, <2>3, <1>5 DEF GetBlock
  <1>7. GetBlock(id) * BlockS <= Len(file)
    <2> DEFINE g == GetBlock(id)
    <2>1. g \in Nat /\ g <= c
      BY <1>6
    <2> HIDE DEF g
    <2>2. g * BlockS <= c * BlockS /\ c * BlockS = BlockS * c /\ g * BlockS \in Nat /\ c * BlockS \in Nat
      BY <2>1, <1>0, <1>2
    <2>3. g * BlockS <= Len(file)
      BY ONLY <2>2, <1>1, <1>2
    <2> QED BY <2>3 DEF g
  <1>8. ASSUME id \in added PROVE id \in Elems(Block(file, GetBlock(id)))
    <2>1. PICK q \in 1..Len(file) : file[q] = id
      BY <1>1, <1>8 DEF Elems
    <2> DEFINE b == (q - 1) \div BlockS
               a == (q - 1) % BlockS
    <2>2. b \in Nat /\ a \in 0..(BlockS - 1) /\ q - 1 = BlockS * b + a
      <3>1. q - 1 \in Nat
        BY <2>1
      <3> QED BY <3>1, <1>0, DivMod
    <2> HIDE DEF b, a
    <2>3. \A k \in 1..b : k * BlockS \in 1..(q - 1)
      <3> TAKE k \in 1..b
      <3>1. k * BlockS \in Nat /\ k * BlockS >= 1 /\ k * BlockS <= b * BlockS /\ b * BlockS = BlockS * b
        BY <1>0, <2>2
      <3>2. BlockS * b \in Nat /\ BlockS * b <= q - 1
        BY <1>0, <2>1, <2>2
      <3> QED BY ONLY <3>1, <3>2, <2>1
    <2>4. \A k \in Nat : k > b => k * BlockS >= q
      <3> SUFFICES ASSUME NEW k \in Nat, k > b PROVE k * BlockS >= q
        OBVIOUS
      <3>1. k * BlockS >= (b + 1) * BlockS /\ (b + 1) * BlockS = BlockS * b + BlockS /\ k * BlockS \in Nat
        BY <1>0, <2>2
      <3>2. BlockS * b \in Nat /\ BlockS * b + BlockS >= q
        BY <1>0, <2>1, <2>2
      <3> QED BY ONLY <3>1, <3>2, <1>0, <2>1
    <2>5. b <= c
      <3> SUFFICES ASSUME b >= c + 1 PROVE FALSE
        BY <1>2, <2>2
      <3>1. Len(file) = BlockS * c + (Len(file) % BlockS) /\ Len(file) % BlockS \in 0..(BlockS - 1)
        BY <1>0, <1>1, DivMod DEF c
      <3>2. BlockS * b >= BlockS * (c + 1) /\ BlockS * (c + 1) = BlockS * c + BlockS
            /\ BlockS * b \in Nat /\ BlockS * c \in Nat
        BY <1>0, <1>2, <2>2
      <3>3. BlockS * b <= q - 1 /\ q - 1 < Len(file)
        BY <1>0, <1>1, <2>1, <2>2, <3>2
      <3> QED BY ONLY <3>1, <3>2, <3>3, <1>0, <1>1, <2>1
    <2>6. DOMAIN blockEnds = 1..Len(blockEnds) /\ Len(blockEnds) \in Nat /\ DOMAIN file = 1..Len(file)
          /\ c <= Len(blockEnds)
      BY <1>1, <1>2
    <2>7. \A k \in 1..c : k * BlockS \in 1..Len(file)
      <3> TAKE k \in 1..c
      <3>1. k * BlockS >= 1 /\ k * BlockS <= c * BlockS /\ c * BlockS = BlockS * c
            /\ k * BlockS \in Nat /\ BlockS * c \in Nat
        BY <1>0, <1>2
      <3> QED BY ONLY <3>1, <1>1, <1>2
    <2>8. \A k \in 1..b : k \in K
      <3> TAKE k \in 1..b
      <3>1. k \in 1..c /\ k \in DOMAIN blockEnds
        BY <1>2, <2>2, <2>5, <2>6
      <3>2. k * BlockS \in 1..Len(file) /\ k * BlockS < q
        BY <2>1, <2>3, <1>1
      <3>3. file[k * BlockS] <= id
        BY <3>2, <2>1, <2>6, <1>1 DEF IsSorted
      <3> QED BY <3>1, <3>3, <1>1
    <2>9. \A k \in K : k \in 1..b
      <3> SUFFICES ASSUME NEW k \in K, k \notin 1..b PROVE FALSE
        OBVIOUS
      <3>1. k \in 1..c /\ k > b /\ k \in Nat
        BY <1>4, <2>2
      <3>2. k * BlockS >= q /\ k * BlockS \in 1..Len(file)
        BY <3>1, <2>4, <2>7
      <3>3. file[q] <= file[k * BlockS]
        <4>1. CASE k * BlockS = q
          BY <4>1, <2>1, <1>0
        <4>2. CASE k * BlockS > q
          BY <4>2, <3>2, <2>1, <2>6, <1>1 DEF IsSorted
        <4> QED BY <4>1, <4>2, <3>2, <2>1
      <3>4. blockEnds[k] = file[k * BlockS] /\ blockEnds[k] <= id /\ blockEnds[k] # id
            /\ blockEnds[k] \in Nat
        BY <3>1, <1>1, <1>3
      <3> QED BY ONLY <3>3, <3>4, <2>1, <1>0
    <2>10. GetBlock(id) = b
      <3>1. K = 1..b
        BY <2>8, <2>9
      <3>2. Cardinality(1..b) = b
        BY <2>2, FS_Interval
      <3> QED BY <3>1, <3>2 DEF GetBlock
    <2> DEFINE blk == Block(file, b)
    <2>11. /\ blk \in Seq(Nat) /\ Len(blk) = Least(BlockS, Len(file) - b * BlockS)
           /\ \A k \in 1..Len(blk) : blk[k] = file[b * BlockS + k]
      BY <1>7, <2>2, <2>10, BlockProperties
    <2> HIDE DEF blk
    <2>12. a + 1 \in 1..Len(blk) /\ b * BlockS + (a + 1) = q
      <3>1. b * BlockS = BlockS * b /\ BlockS * b \in Nat
        BY <1>0, <2>2
      <3>2. BlockS * b + (a + 1) = q /\ a + 1 <= BlockS /\ a + 1 <= Len(file) - b * BlockS /\ a + 1 \in Nat /\ a + 1 >= 1
        BY ONLY <3>1, <2>1, <2>2, <1>0, <1>1
      <3>3. Len(blk) \in Nat /\ a + 1 <= Len(blk)
        BY ONLY <3>1, <3>2, <2>11, <1>0, <1>1 DEF Least
      <3> QED BY ONLY <3>1, <3>2, <3>3
    <2>13. id \in Elems(blk)
      <3>1. DOMAIN blk = 1..Len(blk) /\ blk[a + 1] = id
        BY <2>1, <2>11, <2>12
      <3> QED BY <3>1, <2>12 DEF Elems
    <2> QED BY <2>10, <2>13 DEF blk
  <1> QED
    BY <1>6, <1>7, <1>8

\* The block a lookup opens holds its id if the set does
LEMMA OpenedBlock ==
  ASSUME SetInv, OpenBlock
  PROVE  /\ closed /\ arg \in Ids /\ arg \in Nat
         /\ curBlock' = GetBlock(arg) /\ GetBlock(arg) \in Nat
         /\ buffer' = Block(file, GetBlock(arg)) /\ buffer' \in Seq(Nat)
         /\ IsSorted(buffer') /\ Elems(buffer') \subseteq added
         /\ arg \in added => arg \in Elems(buffer')
         /\ UNCHANGED <<fillVars, closed, sorted, file, blockEnds>> /\ UNCHANGED arg
  <1>1. closed /\ arg \in Ids /\ pc = "filter" /\ MayContain(arg) /\ arg \notin Elems(blockEnds)
    BY DEF OpenBlock, SetInv, CallInv
  <1>2. arg \in Nat
    BY <1>1, SizeAssumption
  <1>3. /\ GetBlock(arg) \in Nat /\ GetBlock(arg) * BlockS <= Len(file)
        /\ arg \in added => arg \in Elems(Block(file, GetBlock(arg)))
    BY <1>1, BlockOf
  <1>4. buffer' = Block(file, GetBlock(arg))
    <2>1. buffer' = Loaded(GetBlock(arg))
      BY DEF OpenBlock
    <2>2. GetBlock(arg) = curBlock => buffer = Block(file, GetBlock(arg))
      BY <1>3 DEF SetInv, CachedBlockCurrent
    <2> QED BY <2>1, <2>2 DEF Loaded
  <1>5. /\ Block(file, GetBlock(arg)) \in Seq(Nat) /\ IsSorted(Block(file, GetBlock(arg)))
        /\ Elems(Block(file, GetBlock(arg))) \subseteq added
    BY <1>1, <1>3, BlockProperties
  <1>6. curBlock' = GetBlock(arg) /\ UNCHANGED <<fillVars, closed, sorted, file, blockEnds>> /\ UNCHANGED arg
    BY DEF OpenBlock
  <1> QED
    BY <1>1, <1>2, <1>3, <1>4, <1>5, <1>6

\* The block and the cache after it was opened
LEMMA OpenStep ==
  ASSUME SetInv, OpenBlock
  PROVE  SetInv'
  <1>1. /\ closed /\ arg \in Ids /\ arg \in Nat
        /\ curBlock' = GetBlock(arg) /\ GetBlock(arg) \in Nat
        /\ buffer' = Block(file, GetBlock(arg)) /\ buffer' \in Seq(Nat)
        /\ UNCHANGED <<fillVars, closed, sorted, file, blockEnds>> /\ UNCHANGED arg
    BY OpenedBlock
  <1>2. pc = "filter" /\ pc' \in {"idle", "search"} /\ arg \notin Elems(blockEnds)
    BY DEF OpenBlock, Return
  <1>3. CallInv'
    BY <1>1, <1>2 DEF SetInv, CallInv, fillVars
  <1>4. CachedBlockCurrent'
    BY <1>1 DEF CachedBlockCurrent, Block, ReadAt
  <1>5. SearchInv'
    <2>0. MayContain(arg)' /\ GetBlock(arg)' = GetBlock(arg)
          /\ Block(file, curBlock)' = Block(file, GetBlock(arg))
      BY <1>1, <1>2 DEF OpenBlock, MayContain, GetBlock, Block, ReadAt, fillVars
    <2> SUFFICES ASSUME pc' = "search"
                 PROVE  /\ range' \in [l : Int, r : Int] /\ range'.l \in 0..Len(buffer') /\ range'.r \in -1..(Len(buffer') - 1)
                        /\ \A k \in 1..Len(buffer') : /\ k - 1 < range'.l => buffer'[k] < arg'
                                                      /\ k - 1 > range'.r => buffer'[k] > arg'
      BY <1>1, <1>2, <2>0 DEF SearchInv
    <2>1. range' = [l |-> 0, r |-> Len(buffer') - 1]
      BY DEF OpenBlock, Return
    <2>2. Len(buffer') \in Nat /\ range'.l = 0 /\ range'.r = Len(buffer') - 1
      BY <2>1, <1>1
    <2> QED BY <2>1, <2>2
  <1> QED
    BY <1>1, <1>2, <1>3, <1>4, <1>5, LookupFrame

\* ... and so does the block being searched
LEMMA SearchedBlock ==
  ASSUME SetInv, pc = "search"
  PROVE  /\ buffer \in Seq(Nat) /\ IsSorted(buffer) /\ Elems(buffer) \subseteq added
         /\ arg \in added => arg \in Elems(buffer)
  <1>1. closed /\ arg \in Ids /\ MayContain(arg) /\ arg \notin Elems(blockEnds)
        /\ buffer = Block(file, GetBlock(arg))
    BY DEF SetInv, CallInv, SearchInv
  <1>2. /\ GetBlock(arg) \in Nat /\ GetBlock(arg) * BlockS <= Len(file)
        /\ arg \in added => arg \in Elems(Block(file, GetBlock(arg)))
    BY <1>1, BlockOf
  <1>3. /\ Block(file, GetBlock(arg)) \in Seq(Nat) /\ IsSorted(Block(file, GetBlock(arg)))
        /\ Elems(Block(file, GetBlock(arg))) \subseteq added
    BY <1>1, <1>2, BlockProperties
  <1> QED
    BY <1>1, <1>2, <1>3

\* In a sorted block, the ids before a smaller one and behind a larger one can
\* be left out
LEMMA ProbeStep ==
  ASSUME SetInv, Probe
  PROVE  SetInv'
  <1> DEFINE m == range.l + ((range.r - range.l) \div 2)
  <1>1. /\ pc = "search" /\ closed /\ range.l <= range.r
        /\ UNCHANGED <<fillVars, closed, sorted, file, blockEnds>>
        /\ UNCHANGED <<curBlock, buffer, arg>>
    BY DEF Probe, SetInv, CallInv
  <1>2. CASE pc' = "idle"
    BY <1>1, <1>2, ReturnStep
  <1>3. CASE pc' # "idle"
    <2>1. /\ pc' = "search"
          /\ \/ buffer[m + 1] < arg /\ range' = [range EXCEPT !.l = m + 1]
             \/ buffer[m + 1] > arg /\ range' = [range EXCEPT !.r = m - 1]
      BY <1>1, <1>3 DEF Probe, Return
    <2>2. /\ curBlock = GetBlock(arg) /\ buffer = Block(file, curBlock)
          /\ MayContain(arg) /\ arg \notin Elems(blockEnds) /\ arg \in Ids /\ arg \in Nat
          /\ range \in [l : Int, r : Int]
          /\ range.l \in 0..Len(buffer) /\ range.r \in -1..(Len(buffer) - 1)
          /\ \A k \in 1..Len(buffer) : /\ k - 1 < range.l => buffer[k] < arg
                                       /\ k - 1 > range.r => buffer[k] > arg
      <3>1. arg \in Ids /\ Ids \subseteq Nat
        BY <1>1, SizeAssumption DEF SetInv, CallInv
      <3>2. SearchInv
        BY DEF SetInv
      <3> QED BY ONLY <1>1, <3>1, <3>2 DEF SearchInv
    <2>3. buffer \in Seq(Nat) /\ IsSorted(buffer) /\ Len(buffer) \in Nat
      BY <1>1, SearchedBlock
    <2> DEFINE n == Len(buffer)
               l == range.l
               r == range.r
    <2>4. m \in l..r /\ l \in Nat /\ r \in Nat /\ r < n /\ n \in Nat /\ m \in Nat
      <3>1. \A x \in Nat : x \div 2 \in 0..x
        OBVIOUS
      <3>2. l \in Nat /\ r \in Int /\ l <= r /\ r < n /\ n \in Nat /\ r - l \in Nat
        BY <1>1, <2>2, <2>3
      <3>3. (r - l) \div 2 \in 0..(r - l)
        BY <3>1, <3>2
      <3> HIDE DEF l, r, n
      <3>4. m = l + ((r - l) \div 2)
        BY DEF l, r
      <3> HIDE DEF m
      <3> QED BY <3>2, <3>3, <3>4
    <2> HIDE DEF m
    <2>5. /\ DOMAIN buffer = 1..n /\ \A k \in 1..n : buffer[k] \in Nat
          /\ \A j, k \in 1..n : j < k => buffer[j] <= buffer[k]
      BY <2>3 DEF IsSorted
    <2> HIDE DEF n
    <2>6. /\ range'.l \in 0..n /\ range'.r \in -1..(n - 1)
          /\ \A k \in 1..n : /\ k - 1 < range'.l => buffer[k] < arg
                             /\ k - 1 > range'.r => buffer[k] > arg
      <3>1. CASE buffer[m + 1] < arg /\ range' = [range EXCEPT !.l = m + 1]
        <4>1. range'.l = m + 1 /\ range'.r = r
          BY <3>1, <2>2
        <4>2. \A k \in 1..n : k - 1 < m + 1 => buffer[k] < arg
          <5> SUFFICES ASSUME NEW k \in 1..n, k - 1 < m + 1 PROVE buffer[k] < arg
            OBVIOUS
          <5>1. k = m + 1 \/ k < m + 1
            BY <2>4
          <5>2. m + 1 \in 1..n
            BY <2>4
          <5> QED BY <5>1, <5>2, <3>1, <2>2, <2>5
        <4>3. m + 1 \in 0..n /\ r \in -1..(n - 1)
          BY <2>4
        <4> QED BY <4>1, <4>2, <4>3, <2>2 DEF n
      <3>2. CASE buffer[m + 1] > arg /\ range' = [range EXCEPT !.r = m - 1]
        <4>1. range'.l = l /\ range'.r = m - 1
          BY <3>2, <2>2
        <4>2. \A k \in 1..n : k - 1 > m - 1 => buffer[k] > arg
          <5> SUFFICES ASSUME NEW k \in 1..n, k - 1 > m - 1 PROVE buffer[k] > arg
            OBVIOUS
          <5>1. k = m + 1 \/ m + 1 < k
            BY <2>4
          <5>2. m + 1 \in 1..n
            BY <2>4
          <5> QED BY <5>1, <5>2, <3>2, <2>2, <2>5
        <4>3. l \in 0..n /\ m - 1 \in -1..(n - 1)
          BY <2>4
        <4> QED BY <4>1, <4>2, <4>3, <2>2 DEF n
      <3> QED BY <2>1, <3>1, <3>2
    <2>7. SearchInv'
      <3>1. range' \in [l : Int, r : Int]
        BY <2>1, <2>2, <2>4
      <3>2. MayContain(arg)' /\ GetBlock(arg)' = GetBlock(arg) /\ Block(file, curBlock)' = Block(file, curBlock)
        BY <1>1, <2>2 DEF MayContain, GetBlock, Block, ReadAt, fillVars
      <3> QED BY <1>1, <2>1, <2>2, <2>6, <3>1, <3>2 DEF SearchInv, n
    <2>8. CallInv' /\ CachedBlockCurrent'
      <3>1. CallInv'
        BY <1>1, <2>1 DEF SetInv, CallInv, fillVars
      <3>2. CachedBlockCurrent'
        BY <1>1 DEF SetInv, CachedBlockCurrent, Block, ReadAt
      <3> QED BY <3>1, <3>2
    <2> QED BY <1>1, <2>1, <2>7, <2>8, LookupFrame
  <1> QED
    BY <1>2, <1>3

-----------------------------------------------------------------------------
(* Sorting the file.                                                       *)

\* The part and the position in it that a position of the file belongs to
LEMMA PartOf ==
  ASSUME file \in Seq(Ids), NEW q \in 1..Len(file)
  PROVE  /\ (q - 1) \div SortS \in 0..(Parts - 1) /\ (q - 1) % SortS \in Nat
         /\ At((q - 1) \div SortS, (q - 1) % SortS) = q
         /\ (q - 1) % SortS < Least(SortS, Len(file) - SortS * ((q - 1) \div SortS))
  <1> DEFINE j == (q - 1) \div SortS
             a == (q - 1) % SortS
             n == Len(file)
             c == n \div SortS
             e == n % SortS
  <1>0. SortS \in Nat \ {0} /\ n \in Nat /\ q - 1 \in Nat /\ q <= n
    BY SizeAssumption
  <1>1. /\ j \in Nat /\ a \in 0..(SortS - 1) /\ q - 1 = SortS * j + a
    BY <1>0, DivMod
  <1>2. /\ c \in Nat /\ e \in 0..(SortS - 1) /\ n = SortS * c + e
    BY <1>0, DivMod
  <1>3. Parts = c + 1
    BY DEF Parts
  <1> HIDE DEF j, a, n, c, e
  <1>4. SortS * j \in Nat /\ SortS * c \in Nat
    BY <1>0, <1>1, <1>2
  <1>5. j <= c
    <2> SUFFICES ASSUME j >= c + 1 PROVE FALSE
      BY <1>1, <1>2
    <2>1. SortS * j >= SortS * (c + 1) /\ SortS * (c + 1) = SortS * c + SortS
      BY <1>0, <1>1, <1>2
    <2> QED BY ONLY <2>1, <1>0, <1>1, <1>2, <1>4
  <1>6. SortS * j + a + 1 = q /\ a < n - SortS * j /\ a < SortS
    BY ONLY <1>0, <1>1, <1>4
  <1>7. a < Least(SortS, n - SortS * j)
    BY <1>6 DEF Least
  <1>8. j \in 0..(Parts - 1) /\ a \in Nat
    BY ONLY <1>1, <1>2, <1>3, <1>5, <1>0
  <1> QED
    BY <1>6, <1>7, <1>8 DEF At, j, a, n

\* ... and back
LEMMA PartAt ==
  ASSUME file \in Seq(Ids), NEW j \in 0..(Parts - 1)
  PROVE  /\ j \in Nat /\ SortS * j \in Nat /\ SortS * j <= Len(file)
         /\ Least(SortS, Len(file) - SortS * j) \in 0..SortS
         /\ Least(SortS, Len(file) - SortS * j) <= Len(file) - SortS * j
         /\ \A a \in Nat : a < Least(SortS, Len(file) - SortS * j) =>
              /\ At(j, a) \in 1..Len(file)
              /\ (At(j, a) - 1) \div SortS = j /\ (At(j, a) - 1) % SortS = a
  <1> DEFINE n == Len(file)
             c == n \div SortS
             e == n % SortS
             x == Least(SortS, n - SortS * j)
  <1>0. SortS \in Nat \ {0} /\ n \in Nat
    BY SizeAssumption
  <1>2. /\ c \in Nat /\ e \in 0..(SortS - 1) /\ n = SortS * c + e
    BY <1>0, DivMod
  <1>3. Parts = c + 1
    BY DEF Parts
  <1> HIDE DEF n, c, e
  <1>4. j \in Nat /\ j <= c
    BY <1>2, <1>3
  <1>5. SortS * j \in Nat /\ SortS * c \in Nat /\ SortS * j <= SortS * c
    BY <1>0, <1>2, <1>4
  <1>6. SortS * j <= n
    BY ONLY <1>0, <1>2, <1>5
  <1>7. x \in 0..SortS /\ x <= n - SortS * j
    BY ONLY <1>0, <1>5, <1>6 DEF Least
  <1>8. ASSUME NEW a \in Nat, a < x
        PROVE  /\ At(j, a) \in 1..n
               /\ (At(j, a) - 1) \div SortS = j /\ (At(j, a) - 1) % SortS = a
    <2> HIDE DEF x
    <2>1. a \in 0..(SortS - 1) /\ a < n - SortS * j
      BY <1>0, <1>5, <1>7, <1>8
    <2>2. At(j, a) = SortS * j + a + 1
      BY DEF At
    <2>3. At(j, a) - 1 = SortS * j + a /\ At(j, a) \in 1..n
      BY ONLY <2>1, <2>2, <1>0, <1>5
    <2>4. (SortS * j + a) \div SortS = j /\ (SortS * j + a) % SortS = a
      BY <2>1, <1>0, <1>4, DivModUnique
    <2> QED BY ONLY <2>3, <2>4
  <1> QED
    BY <1>4, <1>5, <1>6, <1>7, <1>8 DEF n, x

\* qsort rearranges
LEMMA SortedElems ==
  ASSUME NEW s \in Seq(Ids), NEW t \in Sorted(s)
  PROVE  /\ t \in Seq(Ids) /\ Len(t) = Len(s) /\ IsSorted(t) /\ Elems(t) = Elems(s)
  <1>1. DOMAIN s = 1..Len(s) /\ Len(s) \in Nat /\ Elems(s) \subseteq Ids
    BY DEF Elems
  <1>2. t \in [1..Len(s) -> Elems(s)] /\ IsSorted(t)
    BY <1>1 DEF Sorted
  <1>3. t \in Seq(Ids) /\ Len(t) = Len(s)
    BY <1>1, <1>2
  <1>4. Elems(t) \subseteq Elems(s)
    <2>1. \A k \in DOMAIN t : t[k] \in Elems(s)
      BY <1>2
    <2> QED BY <2>1 DEF Elems
  <1>5. ASSUME NEW x \in Elems(s) PROVE x \in Elems(t)
    <2> DEFINE K == {k \in DOMAIN t : t[k] = x}
               L == {k \in DOMAIN s : s[k] = x}
    <2>1. Cardinality(K) = Cardinality(L)
      BY DEF Sorted
    <2>2. L # {} /\ L \subseteq 1..Len(s)
      BY <1>1 DEF Elems
    <2>3. IsFiniteSet(L)
      <3>1. IsFiniteSet(1..Len(s))
        BY <1>1, FS_Interval
      <3> HIDE DEF L
      <3> QED BY <2>2, <3>1, FS_Subset
    <2>4. Cardinality(L) # 0
      BY <2>2, <2>3, FS_EmptySet
    <2>5. K # {}
      BY <2>1, <2>4, FS_EmptySet
    <2> QED BY <2>5 DEF Elems
  <1> QED
    BY <1>2, <1>3, <1>4, <1>5
\* Parts of the file are sorted in place: the ids stay, and every part ascends
LEMMA SplitFile ==
  ASSUME SetInv, Split
  PROVE  /\ file' \in Seq(Ids) /\ Len(file') = Len(file) /\ Elems(file') = Elems(file)
         /\ \A j \in 0..(Parts - 1) :
              /\ merge'.size[j] = Least(SortS, Len(file) - SortS * j)
              /\ \A a, b \in 0..(merge'.size[j] - 1) : a < b => file'[At(j, a)] <= file'[At(j, b)]
              /\ \A r \in 0..(PartsBufSize(Parts) - 1) :
                    /\ merge'.bufs[j][r] \in Int
                    /\ r < merge'.size[j] => merge'.bufs[j][r] = file'[At(j, r)]
         /\ merge' = [parts |-> Parts, pos |-> [j \in 0..(Parts - 1) |-> 0], size |-> merge'.size,
                      bufs |-> merge'.bufs, out |-> <<>>]
         /\ merge'.size \in [0..(Parts - 1) -> Nat]
         /\ merge'.bufs \in [0..(Parts - 1) -> [0..(PartsBufSize(Parts) - 1) -> Int]]
  <1> DEFINE js == 0..(Parts - 1)
             rs == 0..(PartsBufSize(Parts) - 1)
             fresh == [k \in rs |-> Junk]
             n == Len(file)
             read == [j \in js |-> ReadAt(file, SortS * j, SortS)]
             size == [j \in js |-> Least(SortS, n - SortS * j)]
  <1>0. file \in Seq(Ids) /\ n \in Nat /\ DOMAIN file = 1..n /\ SortS \in Nat \ {0}
    BY SizeAssumption DEF SetInv, CallInv
  <1>1. PICK part \in [js -> UNION {SortedPart(j) : j \in js}] :
          /\ \A j \in js : part[j] \in SortedPart(j)
          /\ file' = [k \in DOMAIN file |-> part[(k - 1) \div SortS][((k - 1) % SortS) + 1]]
          /\ merge' = [parts |-> Parts, pos |-> [j \in js |-> 0],
                       size |-> [j \in js |-> Len(part[j])],
                       bufs |-> [j \in js |-> Overlay(fresh, part[j])], out |-> <<>>]
    BY DEF Split
  <1>2. \A j \in js : SortS * j \in Nat /\ SortS * j <= n /\ size[j] \in Nat
    BY <1>0, PartAt
  <1>21. \A j \in js : /\ read[j] \in Seq(Ids) /\ DOMAIN read[j] = 1..size[j] /\ Len(read[j]) = size[j]
                       /\ \A k \in 1..size[j] : read[j][k] = file[SortS * j + k]
    <2> TAKE j \in js
    <2> DEFINE rd == ReadAt(file, SortS * j, SortS)
    <2>1. /\ rd \in Seq(Ids) /\ Len(rd) = Least(SortS, n - SortS * j)
          /\ \A k \in 1..Len(rd) : rd[k] = file[SortS * j + k]
      <3> DEFINE p == SortS * j
      <3>1. p \in Nat /\ p <= Len(file) /\ SortS \in Nat
        BY <1>0, <1>2
      <3> HIDE DEF p, js
      <3>2. /\ ReadAt(file, p, SortS) \in Seq(Ids)
            /\ Len(ReadAt(file, p, SortS)) = Least(SortS, Len(file) - p)
            /\ \A k \in 1..Len(ReadAt(file, p, SortS)) : ReadAt(file, p, SortS)[k] = file[p + k]
        BY ONLY <3>1, <1>0, ReadProperties
      <3> QED BY <3>2 DEF p
    <2> HIDE DEF rd
    <2>2. read[j] = rd /\ size[j] = Least(SortS, n - SortS * j)
      BY DEF rd
    <2> HIDE DEF read, size
    <2>3. DOMAIN rd = 1..Len(rd)
      BY <2>1
    <2> QED BY <2>1, <2>2, <2>3
  <1>22. \A j \in js : part[j] \in Sorted(read[j])
    BY <1>1 DEF SortedPart
  <1> HIDE DEF js, rs, n, size, read
  <1>23. \A j \in js : /\ part[j] \in Seq(Ids) /\ Len(part[j]) = size[j] /\ DOMAIN part[j] = 1..size[j]
                       /\ \A k \in 1..size[j] : part[j][k] \in Ids
    <2> TAKE j \in js
    <2>1. part[j] \in Seq(Ids) /\ Len(part[j]) = Len(read[j])
      BY <1>21, <1>22, SortedElems
    <2>2. Len(read[j]) = size[j]
      BY <1>21
    <2> QED BY <2>1, <2>2
  <1>24. \A j \in js : IsSorted(part[j]) /\ Elems(part[j]) = Elems(read[j])
    BY <1>21, <1>22, SortedElems
  <1>3. ASSUME NEW q \in 1..n
        PROVE  /\ (q - 1) \div SortS \in js /\ (q - 1) % SortS \in Nat
               /\ ((q - 1) % SortS) + 1 \in 1..size[(q - 1) \div SortS]
               /\ q = SortS * ((q - 1) \div SortS) + (((q - 1) % SortS) + 1)
               /\ file'[q] = part[(q - 1) \div SortS][((q - 1) % SortS) + 1]
    <2> DEFINE j == (q - 1) \div SortS
               a == (q - 1) % SortS
    <2>1. j \in js /\ a \in Nat /\ At(j, a) = q /\ a < size[j]
      BY <1>0, PartOf DEF n, js, size
    <2>2. file'[q] = part[j][a + 1]
      BY <1>0, <1>1
    <2> HIDE DEF j, a
    <2>3. a + 1 \in 1..size[j] /\ q = SortS * j + (a + 1)
      <3> DEFINE x == SortS * j
      <3>1. x \in Nat /\ size[j] \in Nat
        BY <2>1, <1>0, <1>2
      <3>2. q = x + a + 1
        BY <2>1 DEF At
      <3> HIDE DEF x, size
      <3>3. a + 1 \in 1..size[j] /\ q = x + (a + 1)
        BY ONLY <2>1, <3>1, <3>2
      <3> QED BY <3>3 DEF x
    <2> QED BY <2>1, <2>2, <2>3 DEF j, a
  <1>4. file' \in Seq(Ids) /\ Len(file') = n /\ DOMAIN file' = 1..n
    <2>1. \A q \in 1..n : file'[q] \in Ids
      BY <1>3, <1>23
    <2>2. file' \in [1..n -> Ids]
      BY <2>1, <1>0, <1>1
    <2> QED BY <2>2, <1>0
  <1>5. ASSUME NEW j \in js, NEW a \in Nat, a < size[j]
        PROVE  At(j, a) \in 1..n /\ At(j, a) = SortS * j + (a + 1) /\ file'[At(j, a)] = part[j][a + 1]
    <2>1. At(j, a) \in 1..n /\ (At(j, a) - 1) \div SortS = j /\ (At(j, a) - 1) % SortS = a
      BY <1>0, <1>5, PartAt DEF js, n, size
    <2>2. At(j, a) = SortS * j + (a + 1)
      BY <1>2 DEF At
    <2>3. file'[At(j, a)] = part[j][a + 1]
      BY <2>1, <1>3
    <2> QED BY <2>1, <2>2, <2>3
  <1>6. Elems(file') \subseteq Elems(file)
    <2> SUFFICES ASSUME NEW q \in 1..n PROVE file'[q] \in Elems(file)
      BY <1>4 DEF Elems
    <2> DEFINE j == (q - 1) \div SortS
               a == (q - 1) % SortS
    <2>1. j \in js /\ a + 1 \in 1..size[j] /\ file'[q] = part[j][a + 1]
      BY <1>3
    <2> HIDE DEF j, a
    <2>2. file'[q] \in Elems(part[j])
      BY <2>1, <1>23 DEF Elems
    <2>3. file'[q] \in Elems(read[j]) /\ DOMAIN read[j] = 1..size[j]
      BY <2>1, <2>2, <1>21, <1>24
    <2>4. PICK k \in 1..size[j] : file'[q] = read[j][k]
      BY <2>3 DEF Elems
    <2>5. SortS * j + k \in 1..n
      <3>1. k - 1 \in Nat /\ k - 1 < size[j] /\ (k - 1) + 1 = k
        BY <2>1, <2>4, <1>2
      <3> QED BY <3>1, <2>1, <1>5
    <2>6. file'[q] = file[SortS * j + k]
      BY <2>1, <2>4, <1>21
    <2> QED BY <2>5, <2>6, <1>0 DEF Elems
  <1>7. Elems(file) \subseteq Elems(file')
    <2> SUFFICES ASSUME NEW q \in 1..n PROVE file[q] \in Elems(file')
      BY <1>0 DEF Elems
    <2> DEFINE j == (q - 1) \div SortS
               a == (q - 1) % SortS
    <2>1. j \in js /\ a + 1 \in 1..size[j] /\ q = SortS * j + (a + 1)
      BY <1>3
    <2> HIDE DEF j, a
    <2>2. file[q] \in Elems(read[j])
      <3>1. DOMAIN read[j] = 1..size[j] /\ read[j][a + 1] = file[q]
        BY <2>1, <1>21
      <3> QED BY <3>1, <2>1 DEF Elems
    <2>3. file[q] \in Elems(part[j]) /\ DOMAIN part[j] = 1..size[j]
      BY <2>1, <2>2, <1>23, <1>24
    <2>4. PICK k \in 1..size[j] : file[q] = part[j][k]
      BY <2>3 DEF Elems
    <2>5. At(j, k - 1) \in 1..n /\ file'[At(j, k - 1)] = part[j][k]
      <3>1. k - 1 \in Nat /\ k - 1 < size[j] /\ (k - 1) + 1 = k
        BY <2>1, <2>4, <1>2
      <3> QED BY <3>1, <2>1, <1>5
    <2> QED BY <2>4, <2>5, <1>4 DEF Elems
  <1>8. /\ merge'.size = [j \in js |-> Len(part[j])]
        /\ merge'.bufs = [j \in js |-> Overlay(fresh, part[j])]
        /\ \A j \in js : merge'.size[j] = size[j]
    BY <1>1, <1>23
  <1>9. ASSUME NEW j \in js, NEW r \in rs
        PROVE  /\ merge'.bufs[j][r] \in Int /\ DOMAIN merge'.bufs[j] = rs
               /\ r < size[j] => merge'.bufs[j][r] = file'[At(j, r)]
    <2>1. merge'.bufs[j] = [k \in rs |-> IF k < size[j] THEN part[j][k + 1] ELSE -1]
      BY <1>8, <1>23 DEF Overlay, Junk, fresh
    <2>2. r \in Nat
      BY DEF rs
    <2>3. CASE r < size[j]
      <3>1. file'[At(j, r)] = part[j][r + 1] /\ r + 1 \in 1..size[j]
        BY <2>2, <2>3, <1>2, <1>5
      <3>2. part[j][r + 1] \in Int
        <4>1. part[j][r + 1] \in Ids
          BY <3>1, <1>23
        <4>2. \A x \in Ids : x \in Int
          BY SizeAssumption
        <4> QED BY <4>1, <4>2
      <3> QED BY <2>1, <2>3, <3>1, <3>2
    <2>4. CASE ~(r < size[j])
      BY <2>1, <2>4
    <2> QED BY <2>3, <2>4, <2>1
  <1>10. ASSUME NEW j \in js, NEW a \in 0..(size[j] - 1), NEW b \in 0..(size[j] - 1), a < b
         PROVE  file'[At(j, a)] <= file'[At(j, b)]
    <2>1. /\ a \in Nat /\ a < size[j] /\ b \in Nat /\ b < size[j]
          /\ a + 1 \in 1..size[j] /\ b + 1 \in 1..size[j] /\ a + 1 < b + 1
      BY <1>2, <1>10
    <2>2. part[j][a + 1] <= part[j][b + 1]
      BY <2>1, <1>23, <1>24 DEF IsSorted
    <2> QED BY <2>1, <2>2, <1>5
  <1>11. merge'.bufs \in [js -> [rs -> Int]] /\ merge'.size \in [js -> Nat]
    <2>1. \A j \in js : merge'.bufs[j] \in [rs -> Int]
      <3> TAKE j \in js
      <3>1. merge'.bufs[j] = [k \in rs |-> IF k < size[j] THEN part[j][k + 1] ELSE -1]
        BY <1>8, <1>23 DEF Overlay, Junk, fresh
      <3> QED BY <3>1, <1>9
    <2> QED BY <2>1, <1>2, <1>8
  <1>12. merge' = [parts |-> Parts, pos |-> [j \in js |-> 0], size |-> merge'.size,
                   bufs |-> merge'.bufs, out |-> <<>>]
    BY <1>1, <1>8
  <1> QED
    BY <1>4, <1>6, <1>7, <1>8, <1>9, <1>10, <1>11, <1>12 DEF js, rs, n, size

\* There is at least one part, and a buffer has room for an id
LEMMA PartsPositive ==
  ASSUME file \in Seq(Ids)
  PROVE  Parts \in Nat \ {0}
  <1>1. Len(file) \in Nat /\ SortS \in Nat \ {0}
    BY SizeAssumption
  <1>2. Len(file) \div SortS \in Nat
    BY <1>1, DivMod
  <1> QED
    BY <1>2 DEF Parts

LEMMA BufPositive ==
  ASSUME NEW n \in Nat \ {0}
  PROVE  PartsBufSize(n) \in Nat \ {0}
  <1>1. SortS \in Nat
    BY SizeAssumption
  <1>2. SortS \div n \in Nat
    BY <1>1, DivMod
  <1> QED
    BY <1>2 DEF PartsBufSize

\* sort() before the merge
LEMMA SplitStep ==
  ASSUME SetInv, Split
  PROVE  SetInv'
  <1> DEFINE js == 0..(Parts - 1)
             rs == 0..(PartsBufSize(Parts) - 1)
  <1>1. /\ pc = "split" /\ pc' = "merge" /\ blockEnds' = <<>>
        /\ UNCHANGED <<fillVars, closed, sorted, curBlock, buffer, arg>>
    BY DEF Split
  <1>2. /\ closed /\ curBlock = -1 /\ outBuffer = <<>> /\ arg \in Ids
        /\ BlockS \in Nat \ {0} /\ SortS \in Nat \ {0}
    BY <1>1, SizeAssumption DEF SetInv, CallInv
  <1>3. /\ file' \in Seq(Ids) /\ Len(file') = Len(file) /\ Elems(file') = Elems(file)
        /\ \A j \in js :
              /\ merge'.size[j] = Least(SortS, Len(file) - SortS * j)
              /\ \A a, b \in 0..(merge'.size[j] - 1) : a < b => file'[At(j, a)] <= file'[At(j, b)]
              /\ \A r \in rs :
                    /\ merge'.bufs[j][r] \in Int
                    /\ r < merge'.size[j] => merge'.bufs[j][r] = file'[At(j, r)]
        /\ merge' = [parts |-> Parts, pos |-> [j \in js |-> 0], size |-> merge'.size,
                     bufs |-> merge'.bufs, out |-> <<>>]
        /\ merge'.size \in [js -> Nat]
        /\ merge'.bufs \in [js -> [rs -> Int]]
    BY SplitFile
  <1>4. Parts' = Parts
    BY <1>3 DEF Parts
  <1>5. merge'.pos = [j \in js |-> 0] /\ merge'.out = <<>>
    BY <1>3
  <1>6. CallInv'
    <2>1. <<>> \in Seq(0..Top)
      OBVIOUS
    <2> QED BY <2>1, <1>1, <1>2, <1>3 DEF SetInv, CallInv, fillVars
  <1>7. BoundsInv' /\ Elems(file') \cup Elems(outBuffer') = added'
    BY <1>1, <1>3 DEF SetInv, BoundsInv, NoFalseNegative, MayContain, fillVars
  <1>8. PartsInv'
    <2>1. \A j \in js : merge'.pos[j] = 0 /\ merge'.size[j] \in Nat
      BY <1>3, <1>5
    <2>2. \A j \in js : merge'.pos[j] <= merge'.size[j]
      BY <2>1
    <2>3. merge'.pos \in [js -> Nat]
      BY <1>5
    <2>4. merge' = [parts |-> Parts, pos |-> merge'.pos, size |-> merge'.size,
                    bufs |-> merge'.bufs, out |-> merge'.out]
      BY <1>3, <1>5
    <2> HIDE DEF js, rs
    <2>5. \A j \in js :
            /\ merge'.size[j] = Least(SortS, Len(file') - SortS * j)
            /\ \A a, b \in 0..(merge'.size[j] - 1) : a < b => file'[At(j, a)] <= file'[At(j, b)]
      BY <1>3
    <2>6. \A j, a : At(j, a)' = At(j, a)
      BY DEF At
    <2> QED BY <2>2, <2>3, <2>4, <2>5, <2>6, <1>3, <1>4 DEF PartsInv, At, js
  <1>9. BuffersInv'
    <2> DEFINE B == PartsBufSize(Parts)
    <2>0. B \in Nat \ {0}
      <3>1. Parts \in Nat \ {0}
        BY PartsPositive DEF SetInv, CallInv
      <3> QED BY <3>1, BufPositive
    <2>1. 0 % B = 0
      BY <2>0
    <2>2. ASSUME NEW j \in js, NEW r \in rs,
                 r - (merge'.pos[j] % B) >= 0,
                 merge'.pos[j] + (r - (merge'.pos[j] % B)) < merge'.size[j]
          PROVE  merge'.bufs[j][r] = file'[At(j, merge'.pos[j] + (r - (merge'.pos[j] % B)))]
      <3>1. merge'.pos[j] = 0 /\ r \in Nat
        BY <1>5, <2>0
      <3>2. merge'.pos[j] % B = 0 /\ r - 0 = r /\ 0 + r = r
        BY <3>1, <2>1
      <3>3. merge'.pos[j] + (r - (merge'.pos[j] % B)) = r
        BY <3>1, <3>2
      <3> QED BY <2>2, <3>3, <1>3
    <2> HIDE DEF B, js, rs
    <2>3. PartsBufSize(Parts)' = B /\ (0..(Parts - 1))' = js /\ (0..(PartsBufSize(Parts) - 1))' = rs
      BY <1>4 DEF PartsBufSize, B, js, rs
    <2> QED BY <2>2, <2>3, <1>3, <1>4 DEF BuffersInv, At, B, js, rs
  <1>10. OutInv'
    <2>1. \A q \in 1..Len(file) : (q - 1) \div SortS \in js /\ (q - 1) % SortS \in Nat
      BY PartOf DEF SetInv, CallInv
    <2>2. Consumed' = {}
      BY <2>1, <1>3, <1>5 DEF Consumed
    <2>3. Cardinality({}) = 0 /\ Elems(<<>>) = {} /\ IsSorted(<<>>) /\ <<>> \in Seq(Ids)
      BY FS_EmptySet DEF Elems, IsSorted
    <2>4. EndsExact(<<>>, <<>>)
      BY <1>2 DEF EndsExact
    <2> QED BY <2>2, <2>3, <2>4, <1>1, <1>5 DEF OutInv
  <1>11. MergeInv' /\ FillInv' /\ LookupInv' /\ CachedBlockCurrent' /\ SearchInv'
    BY <1>1, <1>2, <1>8, <1>9, <1>10 DEF MergeInv, FillInv, LookupInv, CachedBlockCurrent, SearchInv
  <1> QED
    BY <1>6, <1>7, <1>11 DEF SetInv

\* The front of a part that is not exhausted is its next id in the file
LEMMA FrontInFile ==
  ASSUME SetInv, pc = "merge", NEW j \in 0..(Parts - 1), merge.pos[j] # merge.size[j]
  PROVE  /\ merge.pos[j] \in Nat /\ merge.size[j] \in Nat /\ merge.pos[j] < merge.size[j]
         /\ At(j, merge.pos[j]) \in 1..Len(file)
         /\ (At(j, merge.pos[j]) - 1) \div SortS = j
         /\ (At(j, merge.pos[j]) - 1) % SortS = merge.pos[j]
         /\ Front(j) = file[At(j, merge.pos[j])]
  <1> DEFINE B == PartsBufSize(Parts)
             p == merge.pos[j]
             r == p % B
  <1>1. file \in Seq(Ids) /\ PartsInv /\ BuffersInv
    BY DEF SetInv, CallInv, MergeInv
  <1>2. p \in Nat /\ merge.size[j] \in Nat /\ p < merge.size[j]
        /\ merge.size[j] = Least(SortS, Len(file) - SortS * j) /\ merge.parts = Parts
    <2>1. merge.parts = Parts
      BY <1>1 DEF PartsInv
    <2>2. merge.pos \in [0..(Parts - 1) -> Nat] /\ merge.size \in [0..(Parts - 1) -> Nat]
      BY <1>1 DEF PartsInv
    <2>3. p \in Nat /\ merge.size[j] \in Nat
      BY <2>2
    <2>4. p <= merge.size[j] /\ merge.size[j] = Least(SortS, Len(file) - SortS * j)
      BY <1>1 DEF PartsInv
    <2>5. p < merge.size[j]
      BY <2>3, <2>4
    <2> QED BY <2>1, <2>3, <2>4, <2>5
  <1>3. At(j, p) \in 1..Len(file) /\ (At(j, p) - 1) \div SortS = j /\ (At(j, p) - 1) % SortS = p
    BY <1>1, <1>2, PartAt
  <1>4. B \in Nat \ {0}
    BY <1>1, PartsPositive, BufPositive
  <1>5. r \in 0..(B - 1)
    BY <1>2, <1>4, DivMod
  <1> HIDE DEF B, p
  <1>6. r - (p % B) = 0 /\ p + 0 = p /\ p + (r - (p % B)) = p
    <2> HIDE DEF r
    <2>1. r = p % B
      BY DEF r
    <2> QED BY <2>1, <1>2, <1>5
  <1>7. merge.bufs[j][r] = file[At(j, p)]
    <2>1. r - (p % B) >= 0 /\ p + (r - (p % B)) < merge.size[j]
      BY <1>2, <1>6
    <2>2. merge.bufs[j][r] = file[At(j, p + (r - (p % B)))]
      BY <2>1, <1>1, <1>5 DEF BuffersInv, B, p
    <2> QED BY <2>2, <1>6
  <1>8. Front(j) = merge.bufs[j][r]
    BY <1>2 DEF Front, B, p
  <1> QED
    BY <1>2, <1>3, <1>7, <1>8 DEF p

\* What one turn of the merge does
LEMMA MergeTurn ==
  ASSUME SetInv, NEW j \in 0..(Parts - 1), MergeNext(j)
  PROVE  /\ pc = "merge" /\ merge.pos[j] # merge.size[j]
         /\ merge'.pos = [merge.pos EXCEPT ![j] = merge.pos[j] + 1]
         /\ merge'.out = Append(merge.out, Front(j)) /\ merge'.size = merge.size
         /\ merge'.bufs = [merge.bufs EXCEPT ![j] = Refilled(j, merge.pos[j] + 1)]
         /\ merge' = [parts |-> Parts, pos |-> merge'.pos, size |-> merge'.size,
                      bufs |-> merge'.bufs, out |-> merge'.out]
         /\ UNCHANGED <<fillVars, closed, sorted, file, curBlock, buffer, pc, arg>>
  <1>1. pc = "merge" /\ merge.pos[j] # merge.size[j]
    BY DEF MergeNext, IsSmallestPart
  <1>2. merge = [parts |-> Parts, pos |-> merge.pos, size |-> merge.size,
                 bufs |-> merge.bufs, out |-> merge.out]
    BY <1>1 DEF SetInv, MergeInv, PartsInv
  <1>3. merge' = [merge EXCEPT !.out = Append(@, Front(j)), !.pos[j] = @ + 1,
                               !.bufs[j] = Refilled(j, merge.pos[j] + 1)]
    BY DEF MergeNext
  <1>4. merge' = [parts |-> Parts, pos |-> [merge.pos EXCEPT ![j] = merge.pos[j] + 1],
                  size |-> merge.size,
                  bufs |-> [merge.bufs EXCEPT ![j] = Refilled(j, merge.pos[j] + 1)],
                  out |-> Append(merge.out, Front(j))]
    <2> DEFINE pos == [merge.pos EXCEPT ![j] = merge.pos[j] + 1]
               bufs == [merge.bufs EXCEPT ![j] = Refilled(j, merge.pos[j] + 1)]
               out == Append(merge.out, Front(j))
    <2>1. merge' = [merge EXCEPT !.out = out, !.pos = pos, !.bufs = bufs]
      BY <1>3
    <2> DEFINE size == merge.size
    <2>2. merge \in [parts : {Parts}, pos : {merge.pos}, size : {size}, bufs : {merge.bufs},
                     out : {merge.out}]
      BY <1>2
    <2> HIDE DEF pos, bufs, out, size
    <2>3. merge' \in [parts : {Parts}, pos : {pos}, size : {size}, bufs : {bufs}, out : {out}]
      BY ONLY <2>1, <2>2
    <2>4. merge' = [parts |-> Parts, pos |-> pos, size |-> size, bufs |-> bufs, out |-> out]
      BY ONLY <2>3
    <2> QED BY ONLY <2>4 DEF pos, bufs, out, size
  <1>5. UNCHANGED <<fillVars, closed, sorted, file, curBlock, buffer, pc, arg>>
    BY DEF MergeNext
  <1> QED
    BY <1>1, <1>4, <1>5

\* The part advances within its bounds
LEMMA MergeParts ==
  ASSUME SetInv, NEW j \in 0..(Parts - 1), MergeNext(j)
  PROVE  PartsInv'
  <1> DEFINE js == 0..(Parts - 1)
  <1>1. /\ pc = "merge" /\ merge'.pos = [merge.pos EXCEPT ![j] = merge.pos[j] + 1]
        /\ merge'.size = merge.size /\ file' = file
        /\ merge' = [parts |-> Parts, pos |-> merge'.pos, size |-> merge'.size,
                     bufs |-> merge'.bufs, out |-> merge'.out]
    BY MergeTurn
  <1>2. merge.pos[j] \in Nat /\ merge.size[j] \in Nat /\ merge.pos[j] < merge.size[j]
    BY FrontInFile, MergeTurn
  <1>3. PartsInv /\ Parts' = Parts
    BY <1>1 DEF SetInv, MergeInv, Parts
  <1>4. merge'.pos \in [js -> Nat] /\ \A k \in js : merge'.pos[k] <= merge.size[k]
    BY <1>1, <1>2, <1>3 DEF PartsInv
  <1> QED
    BY <1>1, <1>3, <1>4 DEF PartsInv, At

\* The buffer of the part is consumed, and refilled at its end
LEMMA MergeBuffers ==
  ASSUME SetInv, NEW j \in 0..(Parts - 1), MergeNext(j)
  PROVE  BuffersInv'
  <1> DEFINE js == 0..(Parts - 1)
             B == PartsBufSize(Parts)
             rs == 0..(B - 1)
             p == merge.pos[j]
             z == merge.size[j]
             n == Len(file)
  <1>0. /\ pc = "merge" /\ merge'.pos = [merge.pos EXCEPT ![j] = p + 1]
        /\ merge'.size = merge.size /\ file' = file
        /\ merge'.bufs = [merge.bufs EXCEPT ![j] = Refilled(j, p + 1)]
    BY MergeTurn
  <1>1. p \in Nat /\ z \in Nat /\ p < z
    BY FrontInFile, MergeTurn
  <1>2. /\ file \in Seq(Ids) /\ PartsInv /\ BuffersInv /\ Parts' = Parts /\ n \in Nat
        /\ merge.parts = Parts /\ B \in Nat \ {0}
    <2>1. file \in Seq(Ids) /\ PartsInv /\ BuffersInv
      BY <1>0 DEF SetInv, CallInv, MergeInv
    <2>2. B \in Nat \ {0}
      BY <2>1, PartsPositive, BufPositive
    <2>3. Parts' = Parts
      BY <1>0 DEF Parts
    <2> QED BY <2>1, <2>2, <2>3 DEF PartsInv
  <1>3. SortS * j \in Nat /\ z <= n - SortS * j
    BY <1>2, PartAt DEF PartsInv
  <1> HIDE DEF B, n
  <1>4. merge.bufs \in [js -> [rs -> Int]] /\ merge.pos \in [js -> Nat] /\ merge.size \in [js -> Nat]
    BY <1>2 DEF BuffersInv, PartsInv, B
  <1>5. /\ Refilled(j, p + 1) \in [rs -> Int]
        /\ \A r \in rs :
              r - ((p + 1) % B) >= 0 /\ (p + 1) + (r - ((p + 1) % B)) < z =>
                  Refilled(j, p + 1)[r] = file[At(j, (p + 1) + (r - ((p + 1) % B)))]
    <2>1. merge.bufs[j] \in [rs -> Int]
      BY <1>4
    <2>2. CASE (p + 1) % B = 0
      <3> DEFINE s == SortS * j + (p + 1)
                 rd == ReadAt(file, s, B)
      <3>1. s \in Nat /\ s <= Len(file) /\ B \in Nat
        BY <1>1, <1>2, <1>3 DEF n
      <3> HIDE DEF s
      <3>2. rd \in Seq(Ids) /\ Len(rd) = Least(B, Len(file) - s)
            /\ \A k \in 1..Len(rd) : rd[k] = file[s + k]
        BY <3>1, <1>2, ReadProperties
      <3>3. Refilled(j, p + 1) = [k \in rs |-> IF k < Len(rd) THEN rd[k + 1] ELSE merge.bufs[j][k]]
        <4>1. Refilled(j, p + 1) = Overlay(merge.bufs[j], rd)
          BY <2>2, <1>2 DEF Refilled, B, s
        <4>2. DOMAIN merge.bufs[j] = rs
          BY <2>1
        <4> QED BY <4>1, <4>2 DEF Overlay
      <3> HIDE DEF rd
      <3>4. \A k \in rs : k < Len(rd) => rd[k + 1] \in Int /\ rd[k + 1] = file[s + (k + 1)]
        <4> SUFFICES ASSUME NEW k \in rs, k < Len(rd)
                     PROVE  rd[k + 1] \in Int /\ rd[k + 1] = file[s + (k + 1)]
          OBVIOUS
        <4>1. k + 1 \in 1..Len(rd)
          BY <3>2, <1>2
        <4>2. rd[k + 1] \in Ids /\ \A x \in Ids : x \in Int
          BY <4>1, <3>2, SizeAssumption
        <4> QED BY <4>1, <4>2, <3>2
      <3>5. Refilled(j, p + 1) \in [rs -> Int]
        BY <2>1, <3>3, <3>4
      <3>6. ASSUME NEW r \in rs, (p + 1) + (r - ((p + 1) % B)) < z
            PROVE  Refilled(j, p + 1)[r] = file[At(j, (p + 1) + (r - ((p + 1) % B)))]
        <4>1. r \in Nat /\ r < B /\ (p + 1) + (r - ((p + 1) % B)) = (p + 1) + r
          BY <2>2, <1>1, <1>2
        <4>2. (p + 1) + r < z
          BY <3>6, <4>1
        <4>3. r < Len(file) - s
          <5>1. s = SortS * j + (p + 1) /\ Len(file) = n /\ n \in Nat
            BY <1>2 DEF s, n
          <5> DEFINE f == SortS * j
          <5>2. f \in Nat /\ z <= n - f /\ s = f + (p + 1)
            BY <1>3, <5>1
          <5> HIDE DEF f, p, z
          <5> QED BY ONLY <5>1, <5>2, <4>1, <4>2, <1>1
        <4>4. r < Len(rd)
          BY ONLY <4>1, <4>3, <3>2 DEF Least
        <4>5. Refilled(j, p + 1)[r] = file[s + (r + 1)]
          BY <3>3, <3>4, <4>4
        <4>6. s + (r + 1) = At(j, (p + 1) + r)
          BY <4>1, <1>1, <1>3 DEF s, At
        <4> QED BY <4>1, <4>5, <4>6
      <3> QED BY <3>5, <3>6
    <2>3. CASE (p + 1) % B # 0
      <3>1. Refilled(j, p + 1) = merge.bufs[j]
        BY <2>3, <1>2 DEF Refilled, B
      <3>2. (p + 1) % B = (p % B) + 1 /\ p % B \in Nat
        <4>1. (p + 1) % B = (p % B) + 1
          BY <2>3, <1>1, <1>2, DivModNext
        <4>2. p % B \in 0..(B - 1)
          BY <1>1, <1>2, DivMod
        <4> QED BY <4>1, <4>2, <1>2
      <3> DEFINE y == p % B
      <3> HIDE DEF y
      <3>3. ASSUME NEW r \in rs, r - (y + 1) >= 0, (p + 1) + (r - (y + 1)) < z
            PROVE  merge.bufs[j][r] = file[At(j, (p + 1) + (r - (y + 1)))]
        <4>1. y \in Nat /\ r \in Int
          BY <3>2, <1>2 DEF y
        <4>2. r - y >= 0 /\ p + (r - y) = (p + 1) + (r - (y + 1)) /\ p + (r - y) < z
          BY <3>3, <4>1, <1>1
        <4>3. merge.bufs[j][r] = file[At(j, p + (r - y))]
          BY <4>2, <1>2 DEF BuffersInv, B, y
        <4> QED BY <4>2, <4>3
      <3> QED BY <2>1, <3>1, <3>2, <3>3 DEF y
    <2> QED BY <2>2, <2>3
  <1> HIDE DEF p, z
  <1>6. merge'.bufs \in [js -> [rs -> Int]]
    BY <1>0, <1>4, <1>5
  <1>7. ASSUME NEW k \in js, NEW r \in rs,
               r - (merge'.pos[k] % B) >= 0,
               merge'.pos[k] + (r - (merge'.pos[k] % B)) < merge'.size[k]
        PROVE  merge'.bufs[k][r] = file[At(k, merge'.pos[k] + (r - (merge'.pos[k] % B)))]
    <2>1. CASE k = j
      <3>1. merge'.pos[j] = p + 1 /\ merge'.bufs[j] = Refilled(j, p + 1) /\ merge'.size[j] = z
        BY <1>0, <1>4 DEF z
      <3> QED BY <2>1, <3>1, <1>5, <1>7
    <2>2. CASE k # j
      <3>1. merge'.pos[k] = merge.pos[k] /\ merge'.bufs[k] = merge.bufs[k] /\ merge'.size[k] = merge.size[k]
        BY <2>2, <1>0, <1>4
      <3> QED BY <3>1, <1>2, <1>7 DEF BuffersInv, B
    <2> QED BY <2>1, <2>2
  <1>8. PartsBufSize(Parts)' = B
    BY <1>2 DEF PartsBufSize, B
  <1> QED
    BY <1>0, <1>2, <1>6, <1>7, <1>8 DEF BuffersInv, At, B

\* The merge takes a least id of all that are left
LEMMA FrontLeast ==
  ASSUME SetInv, NEW j \in 0..(Parts - 1), MergeNext(j),
         NEW k \in 0..(Parts - 1), NEW a \in Nat, merge'.pos[k] <= a, a < merge.size[k]
  PROVE  Front(j) <= file[At(k, a)]
  <1> DEFINE js == 0..(Parts - 1)
  <1>1. /\ pc = "merge" /\ merge.pos[j] # merge.size[j] /\ PartsInv /\ file \in Seq(Ids)
        /\ merge'.pos = [merge.pos EXCEPT ![j] = merge.pos[j] + 1] /\ IsSmallestPart(j)
    BY MergeTurn DEF SetInv, CallInv, MergeInv, MergeNext
  <1>2. /\ merge.pos[j] \in Nat /\ merge.pos[j] < merge.size[j] /\ merge.size[j] \in Nat
        /\ At(j, merge.pos[j]) \in 1..Len(file) /\ Front(j) = file[At(j, merge.pos[j])]
    BY <1>1, FrontInFile
  <1>3. merge.pos \in [js -> Nat] /\ merge.size \in [js -> Nat]
    BY <1>1 DEF PartsInv
  <1>4. \A x, y \in 0..(merge.size[k] - 1) : x < y => file[At(k, x)] <= file[At(k, y)]
    BY <1>1 DEF PartsInv
  <1>5. \A q \in 1..Len(file) : file[q] \in Int
    <2>1. \A y \in Ids : y \in Int
      BY SizeAssumption
    <2> QED BY <2>1, <1>1
  <1>6. merge.size[k] \in Nat /\ a \in 0..(merge.size[k] - 1)
    <2>1. merge.size[k] \in Nat
      BY <1>3
    <2> QED BY <2>1
  <1>7. CASE k = j
    <2>1. merge.pos[j] < a /\ merge.pos[j] \in 0..(merge.size[k] - 1)
      <3>1. merge'.pos[j] = merge.pos[j] + 1
        BY <1>1, <1>3
      <3> QED BY <3>1, <1>2, <1>7
    <2> QED BY <2>1, <1>2, <1>4, <1>6, <1>7
  <1>8. CASE k # j
    <2>1. merge.pos[k] \in Nat /\ merge.pos[k] <= a
      BY <1>1, <1>3, <1>8
    <2>2. merge.pos[k] # merge.size[k]
      BY <2>1, <1>6
    <2>3. /\ At(k, merge.pos[k]) \in 1..Len(file)
          /\ Front(k) = file[At(k, merge.pos[k])]
      BY <2>2, <1>1, FrontInFile
    <2>4. Front(j) <= Front(k)
      <3>1. Front(j) < Front(k) \/ Front(j) = Front(k)
        BY <2>2, <1>1, <1>3 DEF IsSmallestPart
      <3>2. Front(j) \in Int /\ Front(k) \in Int
        BY <2>3, <1>2, <1>5
      <3> QED BY <3>1, <3>2
    <2>5. merge.pos[k] = a \/ merge.pos[k] < a
      BY <2>1
    <2>6. Front(k) <= file[At(k, a)]
      <3>1. CASE merge.pos[k] = a
        BY <3>1, <2>3, <1>5
      <3>2. CASE merge.pos[k] < a
        <4>1. merge.pos[k] \in 0..(merge.size[k] - 1)
          BY <3>2, <2>1, <1>6
        <4> QED BY <4>1, <3>2, <2>3, <1>4, <1>6
      <3> QED BY <3>1, <3>2, <2>5
    <2>7. Front(j) \in Int /\ Front(k) \in Int /\ file[At(k, a)] \in Int
      <3>1. At(k, a) \in 1..Len(file)
        <4>1. merge.size[k] = Least(SortS, Len(file) - SortS * k)
          BY <1>1 DEF PartsInv
        <4> QED BY <4>1, <1>1, PartAt
      <3> QED BY <3>1, <2>3, <1>2, <1>5
    <2> QED BY <2>4, <2>6, <2>7
  <1> QED
    BY <1>7, <1>8

\* ... and consumes one more position of the file
LEMMA MergeConsumes ==
  ASSUME SetInv, NEW j \in 0..(Parts - 1), MergeNext(j)
  PROVE  /\ Consumed' = Consumed \cup {At(j, merge.pos[j])}
         /\ At(j, merge.pos[j]) \notin Consumed /\ At(j, merge.pos[j]) \in 1..Len(file)
  <1> DEFINE js == 0..(Parts - 1)
             p == merge.pos[j]
             q0 == At(j, p)
  <1>1. /\ pc = "merge" /\ merge.pos[j] # merge.size[j] /\ PartsInv /\ file \in Seq(Ids)
        /\ merge'.pos = [merge.pos EXCEPT ![j] = p + 1] /\ file' = file
    BY MergeTurn DEF SetInv, CallInv, MergeInv
  <1>2. /\ p \in Nat /\ q0 \in 1..Len(file) /\ (q0 - 1) \div SortS = j /\ (q0 - 1) % SortS = p
    BY <1>1, FrontInFile
  <1>3. merge.pos \in [js -> Nat]
    BY <1>1 DEF PartsInv
  <1>4. \A q \in 1..Len(file) : /\ (q - 1) \div SortS \in js /\ (q - 1) % SortS \in Nat
                                /\ At((q - 1) \div SortS, (q - 1) % SortS) = q
    BY <1>1, PartOf
  <1>5. q0 \notin Consumed
    BY <1>2 DEF Consumed
  <1>6. \A q \in 1..Len(file) :
          (q - 1) % SortS < merge'.pos[(q - 1) \div SortS]
            <=> (q - 1) % SortS < merge.pos[(q - 1) \div SortS] \/ q = q0
    <2> TAKE q \in 1..Len(file)
    <2> DEFINE k == (q - 1) \div SortS
               b == (q - 1) % SortS
    <2>1. k \in js /\ b \in Nat /\ At(k, b) = q
      BY <1>4
    <2>2. q = q0 <=> k = j /\ b = p
      BY <2>1, <1>2
    <2> HIDE DEF k, b, q0, p
    <2>3. CASE k = j
      <3>1. merge'.pos[k] = p + 1 /\ merge.pos[k] = p
        BY <2>3, <1>1, <1>3 DEF p
      <3> QED BY <3>1, <2>1, <2>2, <2>3, <1>2 DEF k, b
    <2>4. CASE k # j
      <3>1. merge'.pos[k] = merge.pos[k]
        BY <2>1, <2>4, <1>1, <1>3
      <3> QED BY <3>1, <2>2, <2>4 DEF k, b
    <2> QED BY <2>3, <2>4
  <1>7. Consumed' = {q \in 1..Len(file) : (q - 1) % SortS < merge'.pos[(q - 1) \div SortS]}
    BY <1>1 DEF Consumed
  <1> HIDE DEF q0
  <1>8. Consumed' = Consumed \cup {q0}
    BY <1>2, <1>6, <1>7 DEF Consumed
  <1> QED
    BY <1>2, <1>5, <1>8 DEF q0

\* The output stays sorted and holds just what was consumed
LEMMA MergeOut ==
  ASSUME SetInv, NEW j \in 0..(Parts - 1), MergeNext(j)
  PROVE  OutInv' /\ blockEnds' \in Seq(0..Top)
  <1> DEFINE js == 0..(Parts - 1)
             q0 == At(j, merge.pos[j])
             x == Front(j)
             s == merge.out
             n == Len(s)
  <1>1. /\ pc = "merge" /\ merge.pos[j] # merge.size[j] /\ PartsInv /\ OutInv
        /\ file \in Seq(Ids) /\ blockEnds \in Seq(0..Top)
        /\ merge'.out = Append(s, x) /\ merge'.size = merge.size /\ file' = file /\ Parts' = Parts
        /\ merge'.pos = [merge.pos EXCEPT ![j] = merge.pos[j] + 1]
    BY MergeTurn DEF SetInv, CallInv, MergeInv, Parts
  <1>2. merge.pos[j] \in Nat /\ merge.pos[j] < merge.size[j] /\ merge.size[j] \in Nat
        /\ q0 \in 1..Len(file) /\ x = file[q0]
    BY <1>1, FrontInFile
  <1>3. x \in Ids /\ Ids \subseteq 0..Top /\ Top \in Nat
    BY <1>1, <1>2, SizeAssumption
  <1>4. Consumed' = Consumed \cup {q0} /\ q0 \notin Consumed
    BY MergeConsumes
  <1>5. s \in Seq(Ids) /\ n \in Nat /\ DOMAIN s = 1..n
    BY <1>1 DEF OutInv
  <1> HIDE DEF x, s, n, q0
  <1>6. /\ Append(s, x) \in Seq(Ids) /\ Len(Append(s, x)) = n + 1
        /\ DOMAIN Append(s, x) = 1..(n + 1)
        /\ Append(s, x)[n + 1] = x /\ \A m \in 1..n : Append(s, x)[m] = s[m] /\ s[m] \in Ids
    BY <1>3, <1>5 DEF n
  <1>7. \A m \in 1..(n + 1) : m \in 1..n \/ m = n + 1
    BY <1>5
  <1>8. \A m \in 1..n : s[m] <= x
    <2>1. merge.pos[j] \in merge.pos[j]..(merge.size[j] - 1)
      BY <1>2
    <2>2. \A m \in 1..n : s[m] <= file[At(j, merge.pos[j])]
      BY <2>1, <1>1, <1>5 DEF OutInv, s
    <2> QED BY <2>2, <1>2 DEF q0
  <1>9. IsSorted(Append(s, x))
    <2>1. \A a, b \in 1..n : a < b => s[a] <= s[b]
      BY <1>1, <1>5 DEF OutInv, IsSorted, s
    <2> SUFFICES ASSUME NEW a \in 1..(n + 1), NEW b \in 1..(n + 1), a < b
                 PROVE  Append(s, x)[a] <= Append(s, x)[b]
      BY <1>6 DEF IsSorted
    <2>2. a \in 1..n
      BY <1>5
    <2> QED BY <2>1, <2>2, <1>6, <1>7, <1>8
  <1>10. Elems(Append(s, x)) = {file[q] : q \in Consumed \cup {q0}}
    <2>1. Elems(Append(s, x)) = Elems(s) \cup {x}
      BY <1>3, <1>5, AppendElems
    <2>2. Elems(s) = {file[q] : q \in Consumed}
      BY <1>1 DEF OutInv, s
    <2> QED BY <2>1, <2>2, <1>2
  <1>11. Cardinality(Consumed \cup {q0}) = n + 1
    <2>1. IsFiniteSet(Consumed)
      <3>1. Consumed \in SUBSET (1..Len(file)) /\ Len(file) \in Nat
        BY <1>1 DEF Consumed
      <3>2. IsFiniteSet(1..Len(file))
        BY <3>1, FS_Interval
      <3> QED BY <3>1, <3>2, FS_Subset
    <2>2. Cardinality(Consumed) = n
      BY <1>1 DEF OutInv, n, s
    <2> HIDE DEF Consumed
    <2> QED BY <2>1, <2>2, <1>4, FS_AddElement
  <1>12. /\ EndsExact(Append(s, x), blockEnds') /\ blockEnds' \in Seq(0..Top)
    <2>1. blockEnds' = IF (Len(s) + 1) % BlockS = 0 THEN Append(blockEnds, x) ELSE blockEnds
      BY DEF MergeNext, s, x
    <2>2. EndsExact(s, blockEnds) /\ s \in Seq(0..Top) /\ x \in 0..Top
      <3>1. EndsExact(s, blockEnds)
        BY <1>1 DEF OutInv, s
      <3>2. s \in Seq(0..Top)
        <4>1. \A S, T : S \subseteq T => \A u \in Seq(S) : u \in Seq(T)
          OBVIOUS
        <4> QED BY <4>1, <1>3, <1>5, Zenon
      <3> QED BY <3>1, <3>2, <1>3
    <2>3. EndsExact(Append(s, x), blockEnds')
      BY ONLY <2>1, <2>2, <1>1, EndsAppend
    <2>4. Append(blockEnds, x) \in Seq(0..Top)
      BY ONLY <2>2, <1>1
    <2>5. blockEnds' \in Seq(0..Top)
      BY ONLY <2>1, <2>4, <1>1
    <2> QED BY <2>3, <2>5
  <1>13. ASSUME NEW m \in 1..(n + 1), NEW k \in js, NEW a \in merge'.pos[k]..(merge.size[k] - 1)
         PROVE  Append(s, x)[m] <= file[At(k, a)]
    <2>1. merge.pos \in [js -> Nat] /\ merge.size \in [js -> Nat]
      BY <1>1 DEF PartsInv
    <2>2. merge'.pos[k] \in Nat /\ merge.pos[k] \in Nat /\ merge.pos[k] <= merge'.pos[k]
          /\ merge.size[k] \in Nat
      <3>1. merge'.pos[k] = IF k = j THEN merge.pos[k] + 1 ELSE merge.pos[k]
        BY <2>1, <1>1
      <3>2. merge.pos[k] \in Nat /\ merge.size[k] \in Nat
        BY <2>1
      <3> QED BY <3>1, <3>2
    <2>3. a \in Nat /\ merge'.pos[k] <= a /\ a < merge.size[k] /\ a \in merge.pos[k]..(merge.size[k] - 1)
      BY <2>2
    <2>4. CASE m \in 1..n
      <3>1. s[m] <= file[At(k, a)]
        BY <2>3, <2>4, <1>1, <1>5 DEF OutInv, s
      <3> QED BY <3>1, <2>4, <1>6
    <2>5. CASE m = n + 1
      <3>1. Front(j) <= file[At(k, a)]
        BY <2>3, FrontLeast
      <3> QED BY <3>1, <2>5, <1>6 DEF x
    <2> QED BY <2>4, <2>5, <1>7
  <1> QED
    BY <1>1, <1>4, <1>6, <1>9, <1>10, <1>11, <1>12, <1>13 DEF OutInv, At

LEMMA MergeNextStep ==
  ASSUME SetInv, NEW j \in 0..(Parts - 1), MergeNext(j)
  PROVE  SetInv'
  <1>1. /\ pc = "merge" /\ pc' = "merge"
        /\ UNCHANGED <<fillVars, closed, sorted, file, curBlock, buffer, arg>>
    BY MergeTurn
  <1>2. PartsInv' /\ BuffersInv' /\ OutInv' /\ blockEnds' \in Seq(0..Top)
    BY MergeParts, MergeBuffers, MergeOut
  <1>3. closed /\ curBlock = -1
    BY <1>1 DEF SetInv, CallInv
  <1>4. CallInv'
    BY <1>1, <1>2 DEF SetInv, CallInv, fillVars
  <1>5. BoundsInv' /\ Elems(file') \cup Elems(outBuffer') = added'
    BY <1>1 DEF SetInv, BoundsInv, NoFalseNegative, MayContain, fillVars
  <1>6. FillInv' /\ MergeInv' /\ LookupInv' /\ CachedBlockCurrent' /\ SearchInv'
    BY <1>1, <1>2, <1>3 DEF FillInv, MergeInv, LookupInv, CachedBlockCurrent, SearchInv
  <1> QED
    BY <1>4, <1>5, <1>6 DEF SetInv

\* An output as long as the file has consumed all of it
LEMMA MergedAll ==
  ASSUME SetInv, pc = "merge", Len(merge.out) = Len(file)
  PROVE  Elems(merge.out) = added
  <1>1. /\ file \in Seq(Ids) /\ OutInv /\ closed /\ outBuffer = <<>>
        /\ Elems(file) \cup Elems(outBuffer) = added
    BY DEF SetInv, CallInv, MergeInv
  <1>2. Len(file) \in Nat /\ DOMAIN file = 1..Len(file)
    BY <1>1
  <1>3. Consumed \in SUBSET (1..Len(file))
    BY DEF Consumed
  <1>4. Cardinality(Consumed) = Len(file)
    BY <1>1 DEF OutInv
  <1>5. IsFiniteSet(1..Len(file)) /\ Cardinality(1..Len(file)) = Len(file)
    <2> DEFINE n == Len(file)
    <2>1. 1 \in Int /\ n \in Int /\ n >= 0
      BY <1>2
    <2> HIDE DEF n
    <2>2. IsFiniteSet(1..n) /\ Cardinality(1..n) = IF 1 > n THEN 0 ELSE n - 1 + 1
      BY ONLY <2>1, FS_Interval
    <2>3. IsFiniteSet(1..n) /\ Cardinality(1..n) = n
      BY ONLY <2>1, <2>2
    <2> QED BY <2>3 DEF n
  <1>6. Consumed = 1..Len(file)
    BY <1>3, <1>4, <1>5, FS_Subset
  <1>7. Elems(merge.out) = Elems(file)
    BY <1>1, <1>2, <1>6 DEF OutInv, Elems
  <1>8. Elems(outBuffer) = {}
    BY <1>1 DEF Elems
  <1> QED
    BY <1>1, <1>7, <1>8

\* The sorted file replaces the old one
LEMMA MergeDoneStep ==
  ASSUME SetInv, MergeDone
  PROVE  SetInv'
  <1>1. /\ pc = "merge" /\ pc' = "filter" /\ file' = merge.out /\ sorted' = TRUE
        /\ UNCHANGED <<fillVars, closed, blockEnds, curBlock, buffer, arg>>
        /\ Elems(merge.out) = added
    BY MergedAll DEF MergeDone
  <1>2. OutInv /\ closed /\ curBlock = -1 /\ outBuffer = <<>> /\ arg \in Ids
    BY <1>1 DEF SetInv, CallInv, MergeInv
  <1>3. CallInv'
    BY <1>1, <1>2 DEF SetInv, CallInv, OutInv, fillVars
  <1>4. BoundsInv'
    BY <1>1 DEF SetInv, BoundsInv, NoFalseNegative, MayContain, fillVars
  <1>5. Elems(file') \cup Elems(outBuffer') = added'
    <2>1. Elems(<<>>) = {}
      BY DEF Elems
    <2> QED BY <2>1, <1>1, <1>2 DEF fillVars
  <1>6. LookupInv'
    BY <1>1, <1>2 DEF LookupInv, OutInv, EndsExact
  <1>7. FillInv' /\ MergeInv' /\ CachedBlockCurrent' /\ SearchInv'
    BY <1>1, <1>2 DEF FillInv, MergeInv, CachedBlockCurrent, SearchInv
  <1> QED
    BY <1>3, <1>4, <1>5, <1>6, <1>7 DEF SetInv

LEMMA NextSet ==
  ASSUME SetInv, [Next]_vars
  PROVE  SetInv'
  <1>1. ASSUME NEW id \in Ids, Add(id) \/ CloseAndAsk(id) \/ Ask(id)
        PROVE  SetInv'
    BY <1>1, AddStep, CloseStep, AskStep
  <1>2. CASE Split
    BY <1>2, SplitStep
  <1>3. ASSUME NEW j \in 0..(merge.parts - 1), MergeNext(j)
        PROVE  SetInv'
    <2>1. merge.parts = Parts
      BY <1>3 DEF MergeNext, SetInv, MergeInv, PartsInv
    <2> QED BY <2>1, <1>3, MergeNextStep
  <1>4. CASE MergeDone
    BY <1>4, MergeDoneStep
  <1>5. CASE FilterOut \/ IsBlockEnd \/ SearchFails
    BY <1>5, ReturnStep DEF FilterOut, IsBlockEnd, SearchFails, Return
  <1>6. CASE OpenBlock
    BY <1>6, OpenStep
  <1>7. CASE Probe
    BY <1>7, ProbeStep
  <1>8. CASE UNCHANGED vars
    <2>1. CallInv' /\ BoundsInv' /\ Elems(file') \cup Elems(outBuffer') = added'
      BY <1>8 DEF SetInv, CallInv, BoundsInv, NoFalseNegative, MayContain, vars, fillVars
    <2>2. FillInv' /\ LookupInv' /\ CachedBlockCurrent'
      BY <1>8 DEF SetInv, FillInv, All, LookupInv, CachedBlockCurrent, vars, fillVars
    <2>3. SearchInv'
      BY <1>8 DEF SetInv, SearchInv, MayContain, GetBlock, vars, fillVars
    <2>4. MergeInv'
      BY <1>8 DEF SetInv, MergeInv, PartsInv, BuffersInv, OutInv, Consumed, Parts, vars
    <2> QED BY <2>1, <2>2, <2>3, <2>4 DEF SetInv
  <1> QED
    BY <1>1, <1>2, <1>3, <1>4, <1>5, <1>6, <1>7, <1>8 DEF Next, Lookup

-----------------------------------------------------------------------------
(* The results.                                                            *)

LEMMA SetInvariant == Spec => []SetInv
  <1>1. SetInv /\ [Next]_vars => SetInv'
    BY NextSet
  <1> QED
    BY <1>1, InitSet, PTL DEF Spec

\* No id is lost or invented between add(), the flushes of diskAdd, the parts
\* of sort() and the file that has() reads.
THEOREM NothingLostThm == Spec => []NothingLost
  <1>1. SetInv => NothingLost
    BY MergedAll DEF NothingLost, SetInv
  <1> QED
    BY <1>1, SetInvariant, PTL

\* Every lookup finds a sorted file and block ends that match it, whether the
\* ids came in order or went through sort(), so that getBlock names the only
\* block an id can be in.
THEOREM BlockIndexExactThm == Spec => []BlockIndexExact
  <1>1. SetInv => BlockIndexExact
    BY DEF BlockIndexExact, SetInv, CallInv, LookupInv
  <1> QED
    BY <1>1, SetInvariant, PTL

\* The cached block of has() is always that of the current file.
THEOREM CachedBlockCurrentThm == Spec => []CachedBlockCurrent
  <1>1. SetInv => CachedBlockCurrent
    BY DEF SetInv
  <1> QED
    BY <1>1, SetInvariant, PTL

\* A call of has() that returns, returns the truth
LEMMA ReturnsTruth ==
  ASSUME SetInv, Lookup, pc' = "idle"
  PROVE  answer' = (arg \in added)
  <1>1. pc \in {"filter", "search"} /\ closed /\ arg \in Ids /\ arg \in Nat
    <2>1. pc \in {"filter", "search"}
      BY DEF Lookup, FilterOut, IsBlockEnd, OpenBlock, Probe, SearchFails
    <2>2. closed /\ arg \in Ids
      BY <2>1 DEF SetInv, CallInv
    <2>3. arg \in Nat
      BY <2>2, SizeAssumption
    <2> QED BY <2>1, <2>2, <2>3
  <1>2. CASE FilterOut
    <2>1. answer' = FALSE /\ ~MayContain(arg)
      BY <1>2 DEF FilterOut, Return
    <2>2. arg \notin added
      BY <2>1 DEF SetInv, BoundsInv, NoFalseNegative
    <2>3. (arg \in added) = FALSE
      BY <2>2
    <2> QED BY ONLY <2>1, <2>3
  <1>3. CASE IsBlockEnd
    <2>1. answer' = TRUE /\ MayContain(arg) /\ arg \in Elems(blockEnds)
      BY <1>3 DEF IsBlockEnd, Return
    <2>2. /\ file \in Seq(Nat) /\ Len(file) \in Nat /\ Elems(file) = added
          /\ blockEnds \in Seq(Nat)
          /\ \A k \in 1..(Len(file) \div BlockS) : blockEnds[k] = file[k * BlockS]
          /\ \/ Len(blockEnds) = Len(file) \div BlockS
             \/ /\ Len(blockEnds) = (Len(file) \div BlockS) + 1
                /\ blockEnds[Len(blockEnds)] = biggest
      BY <1>1, LookupFile
    <2> DEFINE c == Len(file) \div BlockS
    <2>3. BlockS \in Nat \ {0} /\ c \in Nat
      <3>1. BlockS \in Nat \ {0}
        BY SizeAssumption
      <3> QED BY <3>1, <2>2, DivMod
    <2>4. PICK k \in 1..Len(blockEnds) : arg = blockEnds[k]
      BY <2>1, <2>2 DEF Elems
    <2>5. CASE k \in 1..c
      <3>1. k * BlockS \in 1..Len(file)
        BY <2>2, <2>3, <2>5, BlockEndIn
      <3>2. arg = file[k * BlockS]
        BY <2>2, <2>4, <2>5
      <3>3. arg \in Elems(file)
        BY <3>1, <3>2, <2>2 DEF Elems
      <3> QED BY <3>3, <2>1, <2>2
    <2>6. CASE k \notin 1..c
      <3> HIDE DEF c
      <3>1. k = c + 1 /\ Len(blockEnds) = c + 1 /\ blockEnds[Len(blockEnds)] = biggest
        <4>1. \/ Len(blockEnds) = c
              \/ Len(blockEnds) = c + 1 /\ blockEnds[Len(blockEnds)] = biggest
          BY <2>2 DEF c
        <4>2. k \in 1..Len(blockEnds)
          OBVIOUS
        <4> QED BY ONLY <4>1, <4>2, <2>3, <2>6
      <3>2. arg = biggest
        BY <3>1, <2>4
      <3>3. added # {}
        <4> SUFFICES ASSUME added = {} PROVE FALSE
          OBVIOUS
        <4>1. smallest = Top /\ biggest = 0
          BY DEF SetInv, BoundsInv
        <4>2. smallest <= arg
          BY <2>1 DEF MayContain
        <4> QED BY <4>1, <4>2, <3>2, SizeAssumption
      <3>4. biggest \in added
        BY <3>3 DEF SetInv, BoundsInv
      <3> QED BY <3>2, <3>4, <2>1
    <2> QED BY <2>5, <2>6
  <1>4. CASE OpenBlock
    <2>1. /\ buffer' \in Seq(Nat) /\ IsSorted(buffer')
          /\ arg \in added => arg \in Elems(buffer')
      BY <1>4, OpenedBlock
    <2>2. answer' = FALSE /\ (buffer' = <<>> \/ buffer'[1] > arg)
      BY <1>4 DEF OpenBlock, Return
    <2> DEFINE b == buffer'
    <2> HIDE DEF b
    <2>3. b \in Seq(Nat) /\ IsSorted(b) /\ (b = <<>> \/ b[1] > arg)
      BY <2>1, <2>2 DEF b
    <2>4. arg \notin Elems(b)
      <3> SUFFICES ASSUME NEW k \in DOMAIN b, b[k] = arg PROVE FALSE
        BY DEF Elems
      <3>1. k \in 1..Len(b) /\ 1 \in DOMAIN b /\ b # <<>>
        BY <2>3
      <3>2. b[1] \in Nat /\ b[1] <= arg
        <4>1. 1 = k \/ 1 < k
          BY <3>1
        <4>2. b[1] \in Nat
          BY <3>1, <2>3
        <4>3. 1 < k => b[1] <= b[k]
          BY <3>1, <2>3 DEF IsSorted
        <4> QED BY <4>1, <4>2, <4>3, <1>1
      <3> QED BY <3>1, <3>2, <2>3, <1>1
    <2>5. (arg \in added) = FALSE
      BY <2>1, <2>4 DEF b
    <2> QED BY ONLY <2>2, <2>5
  <1>5. CASE Probe
    <2> DEFINE m == range.l + ((range.r - range.l) \div 2)
    <2>1. pc = "search" /\ range.l <= range.r
      BY <1>5 DEF Probe
    <2>2. answer' = TRUE /\ buffer[m + 1] = arg
      BY <1>5, <2>1 DEF Probe, Return
    <2>3. m + 1 \in 1..Len(buffer)
      <3>1. range \in [l : Int, r : Int] /\ range.l \in 0..Len(buffer) /\ range.r \in -1..(Len(buffer) - 1)
            /\ buffer \in Seq(Nat)
        BY <2>1, SearchedBlock DEF SetInv, SearchInv
      <3> DEFINE l == range.l
                 r == range.r
                 n == Len(buffer)
      <3>2. n \in Nat /\ l \in 0..n /\ r \in -1..(n - 1) /\ l <= r
        BY <3>1, <2>1
      <3>3. m = l + ((r - l) \div 2)
        OBVIOUS
      <3> HIDE DEF l, r, n, m
      <3>4. r - l \in Nat
        BY ONLY <3>2
      <3>5. (r - l) \div 2 \in Nat /\ (r - l) \div 2 <= r - l
        BY ONLY <3>4
      <3>6. m + 1 \in 1..n
        BY ONLY <3>2, <3>3, <3>5
      <3> QED BY <3>6 DEF n
    <2>4. buffer \in Seq(Nat) /\ Elems(buffer) \subseteq added
      BY <2>1, SearchedBlock
    <2>5. arg \in Elems(buffer)
      BY <2>2, <2>3, <2>4 DEF Elems
    <2> QED BY <2>2, <2>4, <2>5
  <1>6. CASE SearchFails
    <2>1. pc = "search" /\ range.l > range.r /\ answer' = FALSE
      BY <1>6 DEF SearchFails, Return
    <2>2. buffer \in Seq(Nat) /\ (arg \in added => arg \in Elems(buffer))
      BY <2>1, SearchedBlock
    <2>3. /\ range.l \in 0..Len(buffer) /\ range.r \in -1..(Len(buffer) - 1)
          /\ \A k \in 1..Len(buffer) : /\ k - 1 < range.l => buffer[k] < arg
                                       /\ k - 1 > range.r => buffer[k] > arg
      BY <2>1 DEF SetInv, SearchInv
    <2>4. arg \notin Elems(buffer)
      <3> SUFFICES ASSUME NEW k \in 1..Len(buffer), buffer[k] = arg PROVE FALSE
        BY <2>2 DEF Elems
      <3>1. ~(arg < arg) /\ ~(arg > arg)
        BY <1>1
      <3>2. ~(k - 1 < range.l) /\ ~(k - 1 > range.r)
        BY <3>1, <2>3
      <3> DEFINE l == range.l
                 r == range.r
      <3>3. l \in Int /\ r \in Int /\ k \in Int
        BY <2>2, <2>3
      <3> HIDE DEF l, r
      <3> QED BY <3>2, <3>3, <2>1 DEF l, r
    <2>5. (arg \in added) = FALSE
      BY <2>2, <2>4
    <2> QED BY ONLY <2>1, <2>5
  <1> QED
    BY <1>2, <1>3, <1>4, <1>5, <1>6 DEF Lookup

\* has() answers every call with the truth: each step of osm_id_set is a step
\* of the set it promises or changes nothing its user sees.  (That every call
\* returns is the liveness half of ImplementsIdSet.)
THEOREM AnswersTruthfully == Spec => Abstract!SafetySpec
  <1>1. Init => Abstract!Init
    BY DEF Init, Abstract!Init
  <1>2. ASSUME SetInv, [Next]_vars
        PROVE  [Abstract!Next]_(Abstract!vars)
    <2>1. ASSUME NEW id \in Ids, Add(id)
          PROVE  Abstract!Next
      BY <2>1 DEF Add, Abstract!Next, Abstract!Add
    <2>2. ASSUME NEW id \in Ids, CloseAndAsk(id) \/ Ask(id)
          PROVE  Abstract!Next
      <3>1. /\ pc = "idle" /\ pc' # "idle" /\ arg' = id /\ answer' = NoAnswer
            /\ closed' = TRUE /\ added' = added
        BY <2>2 DEF CloseAndAsk, Ask, fillVars, SetInv, CallInv
      <3>2. Abstract!Ask(id)
        BY <3>1 DEF Abstract!Ask
      <3> QED BY <3>2 DEF Abstract!Next
    <2>3. CASE UNCHANGED <<added, closed, arg, answer>> /\ (pc = "idle" <=> pc' = "idle")
      BY <2>3 DEF Abstract!vars
    <2>4. ASSUME Lookup, pc' = "idle"
          PROVE  Abstract!Next
      <3>1. pc # "idle" /\ arg \in Ids /\ UNCHANGED <<added, closed, arg>>
        BY <1>2, <2>4 DEF Lookup, FilterOut, IsBlockEnd, OpenBlock, Probe, SearchFails, fillVars,
           SetInv, CallInv
      <3>2. answer' = (arg \in added)
        BY <1>2, <2>4, ReturnsTruth
      <3>3. Abstract!Answer(arg)
        BY <2>4, <3>1, <3>2 DEF Abstract!Answer
      <3> QED BY <3>1, <3>3 DEF Abstract!Next
    <2>5. ASSUME Lookup, pc' # "idle"
          PROVE  UNCHANGED <<added, closed, arg, answer>> /\ pc # "idle"
      BY <2>5 DEF Lookup, FilterOut, IsBlockEnd, OpenBlock, Probe, SearchFails, Return, fillVars
    <2>6. ASSUME Split \/ MergeDone \/ \E j \in 0..(merge.parts - 1) : MergeNext(j)
          PROVE  UNCHANGED <<added, closed, arg, answer>> /\ pc # "idle" /\ pc' # "idle"
      BY <2>6 DEF Split, MergeDone, MergeNext, fillVars
    <2>7. CASE UNCHANGED vars
      BY <2>3, <2>7 DEF vars, fillVars
    <2> QED
      BY <1>2, <2>1, <2>2, <2>3, <2>4, <2>5, <2>6, <2>7 DEF Next
  <1> QED
    BY <1>1, <1>2, SetInvariant, PTL DEF Spec, Abstract!SafetySpec

=============================================================================
