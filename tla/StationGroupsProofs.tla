------------------------ MODULE StationGroupsProofs ------------------------
(***************************************************************************)
(* Proofs about StationGroups, for any number of nodes, groups and stops:  *)
(* the reference counts, the node and stop sets of the groups, and that    *)
(* every stop ends with a node in whose group it is found.                 *)
(***************************************************************************)
EXTENDS StationGroups, TLAPS, FiniteSetTheorems

-----------------------------------------------------------------------------
(* The inductive invariant.                                                *)

\* The nodes whose SI points to g, when f gives the SIs
InGroup(f, g) == {n \in Nodes : f[n] = g}

Live(g) == \E n \in Nodes : si[n] = g

\* The local variables of the loops, by the place where the code is
ControlInv ==
    /\ step # "pick" => phase \in {"orphans", "stops", "retry"}
    /\ step = "next" => phase \in {"stops", "retry"}
    /\ step = "pick" => pl = NoGroup /\ ~hasBest /\ item = NoStop
    /\ phase = "orphans" => item = NoStop /\ todo \subseteq orphans
    /\ phase \in {"stops", "retry"} /\ step # "pick" => item \in Stops
    /\ phase \in {"stops", "retry", "penalties"} => todo \subseteq Stops
    /\ step = "group" => grp \in Groups

\* When snap_station places a node, the group pl points to still has a node:
\* a payload whose group was merged away is given another SI first
PayloadLive ==
    /\ hasBest => import
    /\ ~hasBest /\ phase # "orphans" => pl = NoGroup
    /\ step = "snap" \/ (step = "import" /\ ~hasBest) => pl = NoGroup \/ Live(pl)

\* A group that was deleted, or that nothing has joined yet, is empty
UnreferencedEmpty ==
    \A g \in Groups : refs[g] = 0 => nodesOf[g] = {} /\ stopsOf[g] = {}

\* Until the first merge no group lists a node of another one
ReadConsistent ==
    phase = "read" => \A g \in Groups : \A m \in nodesOf[g] : si[m] = g

\* The group that group_stats builds lists none but its own nodes
GrpConsistent ==
    step \in {"group", "assign"} /\ grp \in Groups =>
        \A m \in nodesOf[grp] : si[m] = grp

\* Only the import loses SIs
LeaksImported == ~import => \A g \in Groups : leaked[g] = 0

\* A stop without a node will be visited by the loop that runs, or by the
\* last one
StopsPending ==
    /\ phase \in {"read", "orphans"} => ~snapped
    /\ snapped => fs[item] # NoNode
    /\ phase = "stops" =>
          \A s \in Stops : fs[s] = NoNode => s \in todo \cup notSnapped \cup {item}
    /\ phase = "retry" => \A s \in Stops : fs[s] = NoNode => s \in todo \cup {item}
    /\ phase = "penalties" => \A s \in Stops : fs[s] # NoNode

\* The penalties of a group are all written or none
PenaltiesWhole ==
    /\ phase # "penalties" => \A g \in Groups : pens[g] = {}
    /\ \A g \in Groups : pens[g] \in {{}, stopsOf[g]}

HeapInv ==
    /\ RefsExact /\ UnreferencedEmpty /\ GroupsConsistent /\ ReadConsistent
    /\ GrpConsistent /\ StopsResolve

IInv ==
    /\ TypeOK /\ ControlInv /\ PayloadLive /\ HeapInv
    /\ LeaksImported /\ StopsPending /\ PenaltiesWhole /\ CandidatesFound

-----------------------------------------------------------------------------
(* Counting.                                                               *)

\* The SIs that point to a group can be counted, and there are none exactly
\* when the count is 0
LEMMA InGroupFinite ==
    ASSUME NEW f, NEW g
    PROVE  /\ IsFiniteSet(InGroup(f, g)) /\ Cardinality(InGroup(f, g)) \in Nat
           /\ Cardinality(InGroup(f, g)) = 0 <=> \A n \in Nodes : f[n] # g
<1>1. InGroup(f, g) \subseteq Nodes /\ IsFiniteSet(Nodes)
  BY PoolAssumption DEF InGroup
<1>2. IsFiniteSet(InGroup(f, g)) /\ Cardinality(InGroup(f, g)) \in Nat
  BY <1>1, FS_Subset, FS_CardinalityType
<1>3. InGroup(f, g) = {} <=> \A n \in Nodes : f[n] # g
  BY DEF InGroup
<1> QED BY <1>2, <1>3, FS_EmptySet

\* A node that had no group joins g: one SI more points to g
LEMMA JoinCount ==
    ASSUME si \in [Nodes -> Groups \cup {NoGroup, NoSI}],
           NEW n \in Nodes, si[n] \notin Groups,
           NEW g \in Groups \cup {NoGroup}, si' = [si EXCEPT ![n] = g],
           NEW h \in Groups
    PROVE  /\ h = g => Cardinality(InGroup(si', h)) = Cardinality(InGroup(si, h)) + 1
           /\ h # g => InGroup(si', h) = InGroup(si, h)
<1>1. CASE h # g
  BY <1>1 DEF InGroup
<1>2. CASE h = g
  <2>1. InGroup(si', h) = InGroup(si, h) \cup {n} /\ n \notin InGroup(si, h)
    BY <1>2 DEF InGroup
  <2>2. IsFiniteSet(InGroup(si, h))
    BY InGroupFinite
  <2>3. Cardinality(InGroup(si, h) \cup {n}) = Cardinality(InGroup(si, h)) + 1
    BY <2>1, <2>2, FS_AddElement
  <2> QED BY <1>2, <2>1, <2>3
<1> QED BY <1>1, <1>2

\* A count is positive while a node, or pl, points to the group
LEMMA RefsPositive ==
    ASSUME TypeOK, RefsExact, NEW g \in Groups
    PROVE  /\ Live(g) \/ pl = g => refs[g] # 0
           /\ refs[g] # 0 /\ leaked[g] = 0 /\ pl # g => Live(g)
           /\ refs[g] >= Cardinality(InGroup(si, g))
<1>1. refs[g] = Cardinality(InGroup(si, g)) + leaked[g] + (IF pl = g THEN 1 ELSE 0)
  BY DEF RefsExact, InGroup
<1>2. leaked[g] \in Nat /\ refs[g] \in Nat
  BY DEF TypeOK
<1> QED BY <1>1, <1>2, InGroupFinite DEF Live

-----------------------------------------------------------------------------
(* The steps that leave the groups alone.                                  *)

LEMMA InitIInv == Init => IInv
<1> SUFFICES ASSUME Init PROVE IInv
  OBVIOUS
<1> USE PoolAssumption DEF Init
<1>1. TypeOK
  <2>1. import \in BOOLEAN /\ linked \subseteq Nodes
    BY DEF Nodes
  <2>2. hasBest \in BOOLEAN /\ snapped \in BOOLEAN
    OBVIOUS
  <2> QED BY <2>1, <2>2 DEF TypeOK
<1>2. ControlInv /\ PayloadLive /\ LeaksImported /\ StopsPending /\ PenaltiesWhole
  BY DEF ControlInv, PayloadLive, LeaksImported, StopsPending, PenaltiesWhole
<1>3. RefsExact
  <2>1. ASSUME NEW g \in Groups PROVE Cardinality({n \in Nodes : si[n] = g}) = 0
    <3>1. {n \in Nodes : si[n] = g} = {}
      OBVIOUS
    <3> QED BY <3>1, FS_EmptySet
  <2>2. \A g \in Groups : refs[g] = 0 /\ leaked[g] = 0 /\ pl # g
    OBVIOUS
  <2> QED BY <2>1, <2>2 DEF RefsExact
<1>4. UnreferencedEmpty /\ GroupsConsistent /\ ReadConsistent /\ GrpConsistent
  BY DEF UnreferencedEmpty, GroupsConsistent, ReadConsistent, GrpConsistent
<1>5. StopsResolve /\ CandidatesFound
  BY DEF StopsResolve, CandidatesFound
<1> QED BY <1>1, <1>2, <1>3, <1>4, <1>5 DEF IInv, HeapInv

\* What is said of the groups stays true while they, the nodes of the stops
\* and pl do, and a group that group_stats begins with is empty
LEMMA HeapFrame ==
    ASSUME HeapInv, UNCHANGED <<heap, fs, pl>>,
           phase' = "read" => phase = "read",
           step' \in {"group", "assign"} /\ grp' \in Groups =>
              \/ step \in {"group", "assign"} /\ grp' = grp
              \/ nodesOf[grp'] = {}
    PROVE  HeapInv'
<1> USE DEF heap
<1>1. RefsExact' /\ UnreferencedEmpty'
  BY DEF HeapInv, RefsExact, UnreferencedEmpty
<1>2. GroupsConsistent' /\ ReadConsistent' /\ StopsResolve'
  BY DEF HeapInv, GroupsConsistent, ReadConsistent, StopsResolve
<1>3. GrpConsistent'
  BY DEF HeapInv, GrpConsistent
<1> QED BY <1>1, <1>2, <1>3 DEF HeapInv

\* The loops of snap_stations advance
LEMMA LoopStep ==
    ASSUME IInv,
           \/ StartSnapping \/ NextDistance \/ StartStops \/ StartRetry
           \/ \E s \in Stops : SnapStop(s)
           \/ StopNotGrouped \/ StopAtNextDistance \/ StartPenalties
    PROVE  IInv'
<1> USE PoolAssumption
<1> USE DEF IInv, StartSnapping, NextDistance, StartStops, StartRetry, SnapStop,
            StopNotGrouped, StopAtNextDistance, StartPenalties, heap, loop
<1>1. TypeOK'
  <2>1. Stations' = Stations /\ Stations \subseteq Nodes
    BY DEF Stations, HasSI
  <2>2. hasBest' \in BOOLEAN /\ snapped' \in BOOLEAN
    BY DEF TypeOK
  <2> QED BY <2>1, <2>2 DEF TypeOK
<1>2. ControlInv' /\ PayloadLive'
  BY DEF ControlInv, PayloadLive, Live, TypeOK
<1>3. HeapInv'
  <2>1. UNCHANGED <<heap, fs, pl>>
    BY DEF ControlInv
  <2>2. phase' = "read" => phase = "read"
    OBVIOUS
  <2>3. step' \in {"group", "assign"} => step' = step /\ grp' = grp
    OBVIOUS
  <2> QED BY <2>1, <2>2, <2>3, HeapFrame
<1>4. LeaksImported' /\ PenaltiesWhole'
  BY DEF LeaksImported, PenaltiesWhole
<1>5. StopsPending'
  BY DEF StopsPending, ControlInv, TypeOK
<1>6. CandidatesFound'
  BY DEF CandidatesFound, StopsPending, ControlInv
<1> QED BY <1>1, <1>2, <1>3, <1>4, <1>5, <1>6

\* snap_station and group_stats, where they change none but local variables
LEMMA SnapStep ==
    ASSUME IInv,
           \/ NoImport \/ (\E n \in Nodes : SnapToStation(n))
           \/ NothingFound \/ NewGroup \/ Grouped
    PROVE  IInv'
<1> USE PoolAssumption
<1> USE DEF IInv, NoImport, SnapToStation, NothingFound, NewGroup, Grouped, heap, loop
<1>1. TypeOK'
  <2>1. Stations' = Stations
    BY DEF Stations, HasSI
  <2> QED BY <2>1 DEF TypeOK
<1>2. ControlInv' /\ PayloadLive'
  BY DEF ControlInv, PayloadLive, Live, TypeOK
<1>3. HeapInv'
  <2>1. UNCHANGED <<heap, fs, pl>> /\ phase' = phase
    OBVIOUS
  <2>2. step' \in {"group", "assign"} /\ grp' \in Groups =>
              \/ step \in {"group", "assign"} /\ grp' = grp
              \/ nodesOf[grp'] = {}
    BY DEF HeapInv, UnreferencedEmpty, IsFresh
  <2> QED BY <2>1, <2>2, HeapFrame
<1>4. LeaksImported' /\ PenaltiesWhole' /\ StopsPending' /\ CandidatesFound'
  BY DEF LeaksImported, PenaltiesWhole, StopsPending, CandidatesFound
<1> QED BY <1>1, <1>2, <1>3, <1>4

\* write_penalties
LEMMA PenaltiesStep ==
    ASSUME IInv, NEW s \in Stops, WritePenalties(s)
    PROVE  IInv'
<1> USE DEF IInv, WritePenalties, heap, loop
<1> DEFINE g == si[fs[s]]
<1>1. g \in Groups /\ s \in stopsOf[g]
  BY DEF HeapInv, StopsResolve, StopsPending
<1>2. TypeOK'
  <2>1. Stations' = Stations
    BY DEF Stations, HasSI
  <2>2. pens' \in [Groups -> SUBSET Stops]
    BY <1>1 DEF TypeOK
  <2> QED BY <2>1, <2>2 DEF TypeOK
<1>3. ControlInv' /\ PayloadLive' /\ LeaksImported' /\ StopsPending'
  BY DEF ControlInv, PayloadLive, Live, LeaksImported, StopsPending
<1>4. HeapInv'
  BY HeapFrame
<1>5. PenaltiesWhole'
  BY <1>1 DEF PenaltiesWhole, TypeOK
<1>6. CandidatesFound'
  <2> SUFFICES ASSUME NEW t \in Stops, t \notin todo'
               PROVE  t \in pens'[si[fs[t]]]
    BY DEF CandidatesFound, StopsPending
  <2>1. pens \in [Groups -> SUBSET Stops] /\ si[fs[t]] \in Groups
    BY DEF TypeOK, HeapInv, StopsResolve, StopsPending
  <2>2. CASE t = s
    BY <1>1, <2>1, <2>2 DEF PenaltiesWhole
  <2>3. CASE t # s
    BY <1>1, <2>1, <2>3 DEF CandidatesFound
  <2> QED BY <2>2, <2>3
<1> QED BY <1>2, <1>3, <1>4, <1>5, <1>6

\* snap_station takes a copy of the SI of an orphan, or of a station near pl:
\* one reference more, and one that is lost in set_si
LEMMA PayloadStep ==
    ASSUME IInv, NEW n \in Nodes, SnapOrphan(n) \/ ImportStation(n)
    PROVE  IInv'
<1> USE PoolAssumption
<1> USE DEF IInv, SnapOrphan, ImportStation, loop
<1>1. n \in Stations /\ si[n] \in Groups \cup {NoGroup}
  BY DEF TypeOK, ControlInv, Stations, HasSI
<1>2. refs' = Retain(refs, si[n]) /\ pl' = si[n]
      /\ UNCHANGED <<si, nodesOf, stopsOf, fs, phase>>
  OBVIOUS
<1>3. leaked' = Retain(leaked, pl)
  BY DEF ControlInv, Retain
<1>4. TypeOK'
  <2>1. Stations' = Stations
    BY DEF Stations, HasSI
  <2>2. refs' \in [Groups -> Nat] /\ leaked' \in [Groups -> Nat]
    <3>1. refs \in [Groups -> Nat] /\ leaked \in [Groups -> Nat]
          /\ pl \in Groups \cup {NoGroup}
      BY DEF TypeOK
    <3> QED BY ONLY <1>1, <1>2, <1>3, <3>1 DEF Retain
  <2>3. hasBest' \in BOOLEAN /\ snapped' \in BOOLEAN
    BY DEF TypeOK
  <2> QED BY <1>1, <2>1, <2>2, <2>3 DEF TypeOK
<1>5. RefsExact'
  <2> SUFFICES ASSUME NEW g \in Groups
               PROVE  refs'[g] = Cardinality({m \in Nodes : si[m] = g}) + leaked'[g]
                                 + (IF pl' = g THEN 1 ELSE 0)
    BY <1>2 DEF RefsExact
  <2>1. /\ refs[g] = Cardinality({m \in Nodes : si[m] = g}) + leaked[g]
                     + (IF pl = g THEN 1 ELSE 0)
        /\ Cardinality({m \in Nodes : si[m] = g}) \in Nat
    <3>1. Cardinality(InGroup(si, g)) \in Nat
      BY InGroupFinite
    <3> QED BY <3>1 DEF HeapInv, RefsExact, InGroup
  <2>2. refs'[g] = refs[g] + (IF si[n] = g THEN 1 ELSE 0)
    BY <1>2 DEF Retain, TypeOK
  <2>3. leaked'[g] = leaked[g] + (IF pl = g THEN 1 ELSE 0)
    BY <1>3 DEF Retain, TypeOK
  <2> QED BY <1>2, <2>1, <2>2, <2>3 DEF TypeOK
<1>6. UnreferencedEmpty'
  BY <1>2 DEF HeapInv, UnreferencedEmpty, Retain, TypeOK
<1>7. GroupsConsistent' /\ ReadConsistent' /\ GrpConsistent' /\ StopsResolve'
  BY <1>2 DEF HeapInv, GroupsConsistent, ReadConsistent, GrpConsistent, StopsResolve
<1>8. ControlInv' /\ PayloadLive'
  BY <1>1 DEF ControlInv, PayloadLive, Live
<1>9. LeaksImported'
  BY <1>3 DEF LeaksImported, ControlInv, Retain, TypeOK
<1>10. PenaltiesWhole' /\ StopsPending' /\ CandidatesFound'
  BY DEF PenaltiesWhole, StopsPending, CandidatesFound, ControlInv
<1> QED BY <1>4, <1>5, <1>6, <1>7, <1>8, <1>9, <1>10 DEF HeapInv

-----------------------------------------------------------------------------
(* The steps that change the groups.                                       *)

\* A node that was no station gets an SI and joins the group g, of which all
\* nodes listed are in it
LEMMA JoinHeap ==
    ASSUME TypeOK, HeapInv, NEW n \in Nodes, ~HasSI(n),
           NEW g \in Groups \cup {NoGroup},
           g \in Groups => \A m \in nodesOf[g] : si[m] = g,
           si' = [si EXCEPT ![n] = g], refs' = Retain(refs, g),
           nodesOf' = IF g = NoGroup THEN nodesOf ELSE AddNode(g, n),
           UNCHANGED <<stopsOf, leaked, fs, pl, phase, step, grp>>,
           step \notin {"group", "assign"}
    PROVE  /\ HeapInv'
           /\ si' \in [Nodes -> Groups \cup {NoGroup, NoSI}]
           /\ refs' \in [Groups -> Nat] /\ nodesOf' \in [Groups -> SUBSET Nodes]
           /\ Stations' = Stations \cup {n} /\ si[n] \notin Groups \cup {NoGroup}
<1>1. si \in [Nodes -> Groups \cup {NoGroup, NoSI}] /\ refs \in [Groups -> Nat]
      /\ nodesOf \in [Groups -> SUBSET Nodes] /\ leaked \in [Groups -> Nat]
  BY DEF TypeOK
<1>2. NoSI \notin Groups \cup {NoGroup} /\ NoGroup \notin Groups
  BY PoolAssumption
<1>3. /\ si[n] = NoSI /\ \A m \in Nodes : si'[m] = IF m = n THEN g ELSE si[m]
      /\ si' \in [Nodes -> Groups \cup {NoGroup, NoSI}]
  BY <1>1 DEF HasSI
<1>4. /\ \A h \in Groups : refs'[h] = IF h = g THEN refs[h] + 1 ELSE refs[h]
      /\ refs' \in [Groups -> Nat]
  BY ONLY <1>1, <1>2, refs' = Retain(refs, g), g \in Groups \cup {NoGroup} DEF Retain
<1>5. /\ \A h \in Groups :
            nodesOf'[h] = IF h = g THEN nodesOf[h] \cup {n} ELSE nodesOf[h]
      /\ nodesOf' \in [Groups -> SUBSET Nodes]
  BY <1>1, <1>2 DEF AddNode
<1>6. Stations' = Stations \cup {n}
  BY <1>2, <1>3 DEF Stations, HasSI
<1>7. RefsExact'
  <2> SUFFICES ASSUME NEW h \in Groups
               PROVE  refs'[h] = Cardinality(InGroup(si', h)) + leaked[h]
                                 + (IF pl = h THEN 1 ELSE 0)
    BY DEF RefsExact, InGroup
  <2>1. /\ h = g => Cardinality(InGroup(si', h)) = Cardinality(InGroup(si, h)) + 1
        /\ h # g => InGroup(si', h) = InGroup(si, h)
    <3>1. /\ si[n] \notin Groups /\ si' = [si EXCEPT ![n] = g]
          /\ g \in Groups \cup {NoGroup} /\ n \in Nodes /\ h \in Groups
      BY <1>2, <1>3
    <3> QED BY ONLY <1>1, <3>1, JoinCount
  <2>2. Cardinality(InGroup(si, h)) \in Nat
    BY InGroupFinite
  <2>3. refs[h] = Cardinality(InGroup(si, h)) + leaked[h] + (IF pl = h THEN 1 ELSE 0)
    BY DEF HeapInv, RefsExact, InGroup
  <2> QED BY <1>1, <1>4, <2>1, <2>2, <2>3
<1>8. UnreferencedEmpty'
  <2>1. UnreferencedEmpty /\ stopsOf' = stopsOf
    BY DEF HeapInv
  <2> QED BY ONLY <1>1, <1>4, <1>5, <2>1 DEF UnreferencedEmpty
<1>9. GroupsConsistent'
  <2>1. GroupsConsistent
    BY DEF HeapInv
  <2>2. g \in Groups => \A m \in nodesOf[g] : si[m] = g
    OBVIOUS
  <2> QED BY ONLY <1>1, <1>2, <1>3, <1>5, <2>1, <2>2 DEF GroupsConsistent
<1>10. ReadConsistent'
  <2>1. ReadConsistent /\ phase' = phase
    BY DEF HeapInv
  <2> QED BY ONLY <1>1, <1>2, <1>3, <1>5, <2>1 DEF ReadConsistent
<1>11. GrpConsistent'
  BY DEF GrpConsistent
<1>12. StopsResolve'
  <2>1. \A s \in Stops : fs[s] \in Nodes \cup {NoNode}
    BY DEF TypeOK
  <2> QED BY <1>2, <1>3, <2>1 DEF HeapInv, StopsResolve
<1> QED BY <1>2, <1>3, <1>4, <1>5, <1>6, <1>7, <1>8, <1>9, <1>10, <1>11, <1>12 DEF HeapInv

\* read_nodes
LEMMA ReadStep ==
    ASSUME IInv, NEW n \in Nodes,
           ReadUngrouped(n) \/ ReadIntoGroup(n) \/ ReadIntoNewGroup(n)
    PROVE  IInv'
<1> USE PoolAssumption
<1> USE DEF IInv
<1>1. PICK g \in Groups \cup {NoGroup} :
         /\ ReadStation(n, g)
         /\ g \in Groups => nodesOf[g] # {} \/ IsFresh(g)
  BY DEF ReadUngrouped, ReadIntoGroup, ReadIntoNewGroup
<1>2. g \in Groups => \A m \in nodesOf[g] : si[m] = g
  BY <1>1 DEF ReadStation, HeapInv, ReadConsistent, UnreferencedEmpty, IsFresh
<1>3. step = "pick" /\ phase = "read" /\ ~HasSI(n)
  BY <1>1 DEF ReadStation, ControlInv, TypeOK
<1>4. /\ HeapInv'
      /\ si' \in [Nodes -> Groups \cup {NoGroup, NoSI}]
      /\ refs' \in [Groups -> Nat] /\ nodesOf' \in [Groups -> SUBSET Nodes]
      /\ Stations' = Stations \cup {n}
  BY <1>1, <1>2, <1>3, JoinHeap DEF ReadStation, loop
<1>5. TypeOK'
  BY <1>1, <1>4 DEF ReadStation, TypeOK, loop
<1>6. ControlInv' /\ PayloadLive' /\ LeaksImported' /\ StopsPending'
  BY <1>1, <1>3 DEF ReadStation, ControlInv, PayloadLive, LeaksImported, StopsPending, loop
<1>7. PenaltiesWhole' /\ CandidatesFound'
  BY <1>1, <1>3 DEF ReadStation, PenaltiesWhole, CandidatesFound, loop
<1> QED BY <1>4, <1>5, <1>6, <1>7

\* snap_station makes a station of a node of a way, or of one that splits it
LEMMA PlacedStep ==
    ASSUME IInv, NEW n \in Nodes, SnapToEnd(n) \/ SnapToEdge(n)
    PROVE  IInv'
<1> USE PoolAssumption
<1> USE DEF IInv, SnapToEnd, SnapToEdge
<1>1. step = "snap" /\ ~HasSI(n) /\ Placed(n) /\ linked' \subseteq Nodes
      /\ sng' \subseteq sng \cup {n} /\ phase # "penalties" /\ phase # "read"
  BY DEF IsNewNode, TypeOK, ControlInv
<1>2. pl \in Groups \cup {NoGroup}
  BY DEF TypeOK
<1>3. pl \in Groups => \A m \in nodesOf[pl] : si[m] = pl
  BY <1>1 DEF PayloadLive, Live, HeapInv, GroupsConsistent
<1>4. /\ HeapInv'
      /\ si' \in [Nodes -> Groups \cup {NoGroup, NoSI}]
      /\ refs' \in [Groups -> Nat] /\ nodesOf' \in [Groups -> SUBSET Nodes]
      /\ Stations' = Stations \cup {n} /\ si[n] \notin Groups \cup {NoGroup}
  BY <1>1, <1>2, <1>3, JoinHeap DEF Placed, loop
<1>5. TypeOK'
  BY <1>1, <1>4 DEF Placed, TypeOK, loop
<1>6. ControlInv' /\ LeaksImported' /\ StopsPending'
  BY <1>1 DEF Placed, ControlInv, LeaksImported, StopsPending, loop
<1>7. PayloadLive'
  <2>1. si \in [Nodes -> Groups \cup {NoGroup, NoSI}]
    BY DEF TypeOK
  <2> QED BY <1>1, <2>1 DEF Placed, PayloadLive, Live, loop
<1>8. PenaltiesWhole' /\ CandidatesFound'
  BY <1>1 DEF Placed, PenaltiesWhole, CandidatesFound, loop
<1> QED BY <1>4, <1>5, <1>6, <1>7, <1>8

\* pl is destroyed: its group is deleted if that was the last reference
LEMMA ReleaseHeap ==
    ASSUME TypeOK, HeapInv, refs' = Release(refs, pl),
           nodesOf' = Surviving(nodesOf, refs', NoGroup),
           stopsOf' = Surviving(stopsOf, refs', NoGroup),
           pl' = NoGroup, UNCHANGED <<si, leaked, fs, phase>>,
           step' \notin {"group", "assign"}
    PROVE  /\ HeapInv'
           /\ refs' \in [Groups -> Nat] /\ nodesOf' \in [Groups -> SUBSET Nodes]
           /\ stopsOf' \in [Groups -> SUBSET Stops]
<1>1. /\ si \in [Nodes -> Groups \cup {NoGroup, NoSI}] /\ refs \in [Groups -> Nat]
      /\ nodesOf \in [Groups -> SUBSET Nodes] /\ leaked \in [Groups -> Nat]
      /\ stopsOf \in [Groups -> SUBSET Stops] /\ pl \in Groups \cup {NoGroup}
  BY DEF TypeOK
<1>2. NoGroup \notin Groups
  BY PoolAssumption
<1>3. pl \in Groups => refs[pl] # 0
  BY RefsPositive DEF HeapInv
<1>4. /\ \A g \in Groups : refs'[g] = IF g = pl THEN refs[g] - 1 ELSE refs[g]
      /\ refs' \in [Groups -> Nat]
  BY ONLY <1>1, <1>2, <1>3, refs' = Release(refs, pl) DEF Release
<1>5. /\ \A g \in Groups : nodesOf'[g] = IF refs'[g] = 0 THEN {} ELSE nodesOf[g]
      /\ \A g \in Groups : stopsOf'[g] = IF refs'[g] = 0 THEN {} ELSE stopsOf[g]
      /\ nodesOf' \in [Groups -> SUBSET Nodes] /\ stopsOf' \in [Groups -> SUBSET Stops]
  BY <1>1, <1>2 DEF Surviving
<1>6. RefsExact'
  <2> SUFFICES ASSUME NEW g \in Groups
               PROVE  refs'[g] = Cardinality(InGroup(si, g)) + leaked[g]
                                 + (IF pl' = g THEN 1 ELSE 0)
    BY DEF RefsExact, InGroup
  <2>1. Cardinality(InGroup(si, g)) \in Nat
    BY InGroupFinite
  <2>2. refs[g] = Cardinality(InGroup(si, g)) + leaked[g] + (IF pl = g THEN 1 ELSE 0)
    BY DEF HeapInv, RefsExact, InGroup
  <2> QED BY <1>1, <1>2, <1>4, <2>1, <2>2
<1>7. \A g \in Groups : Live(g) => refs'[g] # 0
  <2> SUFFICES ASSUME NEW g \in Groups, Live(g) PROVE refs'[g] # 0
    OBVIOUS
  <2>1. Cardinality(InGroup(si, g)) \in Nat /\ Cardinality(InGroup(si, g)) # 0
    BY InGroupFinite DEF Live
  <2>2. refs'[g] = Cardinality(InGroup(si, g)) + leaked[g] + (IF pl' = g THEN 1 ELSE 0)
    BY <1>6 DEF RefsExact, InGroup
  <2> QED BY <1>1, <2>1, <2>2
<1>8. UnreferencedEmpty'
  BY <1>5 DEF UnreferencedEmpty
<1>9. GroupsConsistent'
  <2>1. GroupsConsistent /\ si' = si
    BY DEF HeapInv
  <2> QED BY ONLY <1>1, <1>5, <1>7, <2>1 DEF GroupsConsistent, Live
<1>10. ReadConsistent' /\ GrpConsistent'
  <2>1. ReadConsistent /\ si' = si /\ phase' = phase
    BY DEF HeapInv
  <2> QED BY <1>5, <2>1 DEF ReadConsistent, GrpConsistent
<1>11. StopsResolve'
  <2>1. StopsResolve /\ si' = si /\ fs' = fs /\ \A s \in Stops : fs[s] \in Nodes \cup {NoNode}
    BY DEF HeapInv, TypeOK
  <2> QED BY ONLY <1>5, <1>7, <2>1 DEF StopsResolve, Live
<1> QED BY <1>4, <1>5, <1>6, <1>8, <1>9, <1>10, <1>11 DEF HeapInv

\* The end of an orphan's turn, and of a stop's that needs no node of its own
LEMMA ReleaseStep ==
    ASSUME IInv, OrphanSnapped \/ StopDone
    PROVE  IInv'
<1> USE PoolAssumption
<1> USE DEF IInv, OrphanSnapped, StopDone, TurnEnds, loop
<1>1. /\ HeapInv'
      /\ refs' \in [Groups -> Nat] /\ nodesOf' \in [Groups -> SUBSET Nodes]
      /\ stopsOf' \in [Groups -> SUBSET Stops]
  BY ReleaseHeap
<1>2. phase # "penalties" /\ phase # "read"
  BY DEF ControlInv
<1>3. TypeOK'
  <2>1. Stations' = Stations
    BY DEF Stations, HasSI
  <2>2. hasBest' \in BOOLEAN /\ snapped' \in BOOLEAN
    BY DEF TypeOK
  <2>3. notSnapped' \subseteq Stops
    BY DEF ToRetry, TypeOK, ControlInv
  <2> QED BY <1>1, <2>1, <2>2, <2>3 DEF TypeOK
<1>4. ControlInv' /\ PayloadLive' /\ LeaksImported'
  BY DEF ControlInv, PayloadLive, LeaksImported
<1>5. StopsPending'
  BY <1>2 DEF StopsPending, ControlInv, ToRetry
<1>6. PenaltiesWhole' /\ CandidatesFound'
  BY <1>2 DEF PenaltiesWhole, CandidatesFound
<1> QED BY <1>1, <1>3, <1>4, <1>5, <1>6

\* The stop joins the group that group_stats built and gets one of its nodes
LEMMA StopGroupedStep ==
    ASSUME IInv, StopGrouped
    PROVE  IInv'
<1> USE PoolAssumption
<1> USE DEF IInv, StopGrouped
<1>1. PICK n \in nodesOf[grp] : fs' = [fs EXCEPT ![item] = n]
  OBVIOUS
<1>2. grp \in Groups /\ item \in Stops /\ phase \in {"stops", "retry"}
  BY DEF TypeOK, ControlInv
<1>3. n \in Nodes /\ si[n] = grp
  BY <1>2 DEF TypeOK, HeapInv, GrpConsistent
<1>4. /\ fs \in [Stops -> Nodes \cup {NoNode}]
      /\ stopsOf \in [Groups -> SUBSET Stops] /\ refs \in [Groups -> Nat]
  BY DEF TypeOK
<1>5. /\ fs' \in [Stops -> Nodes \cup {NoNode}] /\ stopsOf' \in [Groups -> SUBSET Stops]
      /\ \A s \in Stops : fs'[s] = IF s = item THEN n ELSE fs[s]
      /\ \A g \in Groups :
            stopsOf'[g] = IF g = grp THEN stopsOf[g] \cup {item} ELSE stopsOf[g]
  <2>1. stopsOf' = [stopsOf EXCEPT ![grp] = @ \cup {item}]
    OBVIOUS
  <2>2. fs' \in [Stops -> Nodes \cup {NoNode}] /\ stopsOf' \in [Groups -> SUBSET Stops]
    BY ONLY <2>1, <1>1, <1>2, <1>3, <1>4
  <2>3. \A s \in Stops : fs'[s] = IF s = item THEN n ELSE fs[s]
    BY ONLY <1>1, <1>4
  <2>4. \A g \in Groups : stopsOf'[g] = IF g = grp THEN stopsOf[g] \cup {item} ELSE stopsOf[g]
    BY ONLY <2>1, <1>4
  <2> QED BY ONLY <2>2, <2>3, <2>4
<1>6. TypeOK'
  <2>1. Stations' = Stations
    BY DEF Stations, HasSI
  <2>2. hasBest' \in BOOLEAN /\ snapped' \in BOOLEAN
    BY DEF TypeOK
  <2> QED BY <1>5, <2>1, <2>2 DEF TypeOK
<1>7. RefsExact' /\ GroupsConsistent' /\ ReadConsistent' /\ GrpConsistent'
  BY DEF HeapInv, RefsExact, GroupsConsistent, ReadConsistent, GrpConsistent
<1>8. UnreferencedEmpty'
  <2>1. refs[grp] # 0
    BY <1>2, <1>3, RefsPositive DEF HeapInv, Live
  <2> QED BY <1>5, <2>1 DEF HeapInv, UnreferencedEmpty
<1>9. StopsResolve'
  <2>1. StopsResolve /\ si' = si
    BY DEF HeapInv
  <2> QED BY ONLY <1>2, <1>3, <1>5, <2>1 DEF StopsResolve
<1>10. ControlInv' /\ PayloadLive' /\ LeaksImported'
  BY DEF ControlInv, PayloadLive, LeaksImported, Live
<1>11. StopsPending'
  <2>1. n # NoNode
    BY <1>3
  <2> QED BY <1>2, <1>5, <2>1 DEF StopsPending
<1>12. PenaltiesWhole' /\ CandidatesFound'
  BY <1>2 DEF PenaltiesWhole, CandidatesFound
<1> QED BY <1>6, <1>7, <1>8, <1>9, <1>10, <1>11, <1>12 DEF HeapInv

\* "finally give up": the stop gets a node and a group of its own
LEMMA GiveUpStep ==
    ASSUME IInv, GiveUp
    PROVE  IInv'
<1> USE DEF IInv
<1>1. PICK n \in NewNodes, g \in Groups :
        /\ IsNewNode(n) /\ IsFresh(g)
        /\ si' = [si EXCEPT ![n] = g]
        /\ refs' = Release(Retain(refs, g), pl)
        /\ nodesOf' = Surviving(AddNode(g, n), refs', NoGroup)
        /\ stopsOf' = Surviving([stopsOf EXCEPT ![g] = @ \cup {item}], refs', NoGroup)
        /\ fs' = [fs EXCEPT ![item] = n]
  BY DEF GiveUp
<1>2. n \in Nodes /\ si[n] = NoSI /\ refs[g] = 0 /\ n # NoNode
  BY <1>1, PoolAssumption DEF IsNewNode, HasSI, IsFresh, Nodes
<1>3. item \in Stops /\ phase = "retry" /\ step = "next"
  BY DEF GiveUp, ControlInv
<1>4. NoGroup \notin Groups /\ NoSI \notin Groups \cup {NoGroup}
  BY PoolAssumption
<1>5. /\ si \in [Nodes -> Groups \cup {NoGroup, NoSI}] /\ refs \in [Groups -> Nat]
      /\ nodesOf \in [Groups -> SUBSET Nodes] /\ leaked \in [Groups -> Nat]
      /\ stopsOf \in [Groups -> SUBSET Stops] /\ pl \in Groups \cup {NoGroup}
      /\ fs \in [Stops -> Nodes \cup {NoNode}]
  BY DEF TypeOK
<1>6. pl # g /\ (pl \in Groups => refs[pl] # 0) /\ nodesOf[g] = {} /\ stopsOf[g] = {}
  <2>1. pl \in Groups => refs[pl] # 0
    BY RefsPositive DEF HeapInv
  <2> QED BY <1>2, <2>1 DEF HeapInv, UnreferencedEmpty
<1>7. /\ \A h \in Groups : refs'[h] = IF h = g THEN 1
                                      ELSE IF h = pl THEN refs[h] - 1 ELSE refs[h]
      /\ refs' \in [Groups -> Nat]
  BY ONLY <1>1, <1>2, <1>4, <1>5, <1>6 DEF Release, Retain
<1>8. /\ \A h \in Groups : nodesOf'[h] = IF refs'[h] = 0 THEN {}
                                         ELSE IF h = g THEN {n} ELSE nodesOf[h]
      /\ \A h \in Groups : stopsOf'[h] = IF refs'[h] = 0 THEN {}
                                         ELSE IF h = g THEN {item} ELSE stopsOf[h]
      /\ nodesOf' \in [Groups -> SUBSET Nodes] /\ stopsOf' \in [Groups -> SUBSET Stops]
  BY ONLY <1>1, <1>2, <1>3, <1>4, <1>5, <1>6 DEF Surviving, AddNode
<1>9. /\ \A m \in Nodes : si'[m] = IF m = n THEN g ELSE si[m]
      /\ si' \in [Nodes -> Groups \cup {NoGroup, NoSI}]
      /\ \A s \in Stops : fs'[s] = IF s = item THEN n ELSE fs[s]
      /\ fs' \in [Stops -> Nodes \cup {NoNode}]
  BY <1>1, <1>2, <1>3, <1>5
<1>10. /\ pl' = NoGroup /\ ~hasBest' /\ item' = NoStop /\ ~snapped' /\ step' = "pick"
       /\ UNCHANGED <<import, leaked, linked, sng, orphans, phase, todo, dist, r,
                      grp, pens, notSnapped>>
  BY DEF GiveUp, TurnEnds
<1>11. TypeOK'
  <2>1. Stations' = Stations \cup {n}
    BY <1>2, <1>4, <1>9 DEF Stations, HasSI
  <2>2. hasBest' \in BOOLEAN /\ snapped' \in BOOLEAN
    BY DEF GiveUp, TurnEnds
  <2> QED BY <1>7, <1>8, <1>9, <1>10, <2>1, <2>2 DEF TypeOK
<1>12. RefsExact'
  <2> SUFFICES ASSUME NEW h \in Groups
               PROVE  refs'[h] = Cardinality(InGroup(si', h)) + leaked[h]
    <3>1. \A h \in Groups : Cardinality(InGroup(si', h)) \in Nat
      BY InGroupFinite
    <3> QED BY <3>1, <1>4, <1>5, <1>10 DEF RefsExact, InGroup
  <2>1. Cardinality(InGroup(si, h)) \in Nat
    BY InGroupFinite
  <2>2. refs[h] = Cardinality(InGroup(si, h)) + leaked[h] + (IF pl = h THEN 1 ELSE 0)
    BY DEF HeapInv, RefsExact, InGroup
  <2>3. /\ h = g => Cardinality(InGroup(si', h)) = Cardinality(InGroup(si, h)) + 1
        /\ h # g => InGroup(si', h) = InGroup(si, h)
    <3>1. /\ si[n] \notin Groups /\ si' = [si EXCEPT ![n] = g]
          /\ g \in Groups \cup {NoGroup} /\ n \in Nodes /\ h \in Groups
      BY <1>1, <1>2, <1>4
    <3> QED BY ONLY <1>5, <3>1, JoinCount
  <2> QED BY ONLY <1>2, <1>5, <1>6, <1>7, <2>1, <2>2, <2>3, h \in Groups, g \in Groups
<1>13. \A h \in Groups : Live(h) => refs'[h] # 0
  <2> SUFFICES ASSUME NEW h \in Groups, Live(h) PROVE refs'[h] # 0
    OBVIOUS
  <2>1. Cardinality(InGroup(si, h)) \in Nat /\ Cardinality(InGroup(si, h)) # 0
    BY InGroupFinite DEF Live
  <2>2. refs[h] = Cardinality(InGroup(si, h)) + leaked[h] + (IF pl = h THEN 1 ELSE 0)
    BY DEF HeapInv, RefsExact, InGroup
  <2> QED BY <1>5, <1>7, <2>1, <2>2
<1>14. UnreferencedEmpty' /\ ReadConsistent' /\ GrpConsistent'
  BY <1>3, <1>8, <1>10 DEF UnreferencedEmpty, ReadConsistent, GrpConsistent
<1>15. GroupsConsistent'
  <2>1. GroupsConsistent /\ refs'[g] # 0
    BY <1>7 DEF HeapInv
  <2> SUFFICES ASSUME NEW m \in Nodes, si'[m] \in Groups
               PROVE  m \in nodesOf'[si'[m]] /\ \A k \in nodesOf'[si'[m]] : si'[k] = si'[m]
    BY DEF GroupsConsistent
  <2>2. CASE m = n
    <3>1. si'[m] = g /\ nodesOf'[g] = {n}
      BY <1>8, <1>9, <2>1, <2>2
    <3> QED BY <2>2, <3>1
  <2>3. CASE m # n
    <3>1. /\ si'[m] = si[m] /\ m \in nodesOf[si[m]]
          /\ \A k \in nodesOf[si[m]] : si[k] = si[m]
      BY <1>9, <2>1, <2>3 DEF GroupsConsistent
    <3>2. si[m] # g /\ Live(si[m])
      BY <1>6, <2>3, <3>1 DEF Live
    <3>3. nodesOf'[si[m]] = nodesOf[si[m]] /\ nodesOf[si[m]] \in SUBSET Nodes
      BY <1>5, <1>8, <1>13, <3>1, <3>2
    <3>4. \A k \in nodesOf[si[m]] : k # n
      BY <1>2, <1>4, <3>1
    <3> QED BY <1>9, <3>1, <3>3, <3>4
  <2> QED BY <2>2, <2>3
<1>16. StopsResolve'
  <2>1. StopsResolve /\ refs'[g] # 0
    BY <1>7 DEF HeapInv
  <2> SUFFICES ASSUME NEW s \in Stops, fs'[s] # NoNode
               PROVE  si'[fs'[s]] \in Groups /\ s \in stopsOf'[si'[fs'[s]]]
    BY DEF StopsResolve
  <2>2. CASE s = item
    <3>1. fs'[s] = n /\ si'[n] = g /\ stopsOf'[g] = {item}
      BY <1>2, <1>8, <1>9, <2>1, <2>2
    <3> QED BY <2>2, <3>1
  <2>3. CASE s # item
    <3>1. /\ fs'[s] = fs[s] /\ fs[s] \in Nodes /\ fs[s] # n
          /\ si[fs[s]] \in Groups /\ s \in stopsOf[si[fs[s]]]
      BY <1>2, <1>4, <1>5, <1>9, <2>1, <2>3 DEF StopsResolve
    <3>2. si'[fs[s]] = si[fs[s]] /\ Live(si[fs[s]]) /\ si[fs[s]] # g
      BY <1>6, <1>9, <3>1 DEF Live
    <3> QED BY <1>8, <1>13, <3>1, <3>2
  <2> QED BY <2>2, <2>3
<1>17. ControlInv' /\ PayloadLive' /\ LeaksImported'
  BY <1>3, <1>10 DEF ControlInv, PayloadLive, LeaksImported
<1>18. StopsPending'
  BY <1>2, <1>3, <1>9, <1>10 DEF StopsPending
<1>19. PenaltiesWhole' /\ CandidatesFound'
  BY <1>3, <1>10 DEF PenaltiesWhole, CandidatesFound
<1> QED BY <1>11, <1>12, <1>14, <1>15, <1>16, <1>17, <1>18, <1>19 DEF HeapInv

\* merge(): all nodes ns of a group, or one node without a group, change to
\* grp, and the group they leave is deleted unless pl or a lost SI holds it
LEMMA MoveStep ==
    ASSUME IInv, step = "group",
           NEW ns \in SUBSET Nodes, ns # {},
           NEW old \in Groups \cup {NoGroup}, old # grp,
           \A m \in ns : si[m] = old,
           old \in Groups => \A m \in Nodes : si[m] = old => m \in ns,
           NEW stops \in [Groups -> SUBSET Stops],
           \A h \in Groups : stopsOf[h] \subseteq stops[h],
           \A h \in Groups : h # grp => stops[h] = stopsOf[h],
           old \in Groups => stopsOf[old] \subseteq stops[grp],
           MoveNodes(ns, stops), NEW n, r' = r \ {n},
           UNCHANGED <<import, leaked, linked, sng, orphans, fs, loop, step, pl,
                       hasBest, grp, pens>>
    PROVE  IInv'
<1> USE DEF IInv
<1>1. /\ si \in [Nodes -> Groups \cup {NoGroup, NoSI}] /\ refs \in [Groups -> Nat]
      /\ nodesOf \in [Groups -> SUBSET Nodes] /\ leaked \in [Groups -> Nat]
      /\ grp \in Groups /\ \A s \in Stops : fs[s] \in Nodes \cup {NoNode}
  BY DEF TypeOK, ControlInv
<1>2. NoSI \notin Groups \cup {NoGroup} /\ NoGroup \notin Groups
  BY PoolAssumption
<1>3. phase # "penalties" /\ phase # "read"
  BY DEF ControlInv
<1>4. /\ \A m \in Nodes : si'[m] = IF m \in ns THEN grp ELSE si[m]
      /\ si' \in [Nodes -> Groups \cup {NoGroup, NoSI}]
  BY <1>1 DEF MoveNodes
<1>5. /\ IsFiniteSet(ns) /\ Cardinality(ns) \in Nat
      /\ Cardinality(InGroup(si', grp)) = Cardinality(InGroup(si, grp)) + Cardinality(ns)
      /\ Cardinality(InGroup(si', old)) = Cardinality(InGroup(si, old)) - Cardinality(ns)
      /\ \A g : g # old /\ g # grp => InGroup(si', g) = InGroup(si, g)
  <2>1. IsFiniteSet(ns) /\ Cardinality(ns) \in Nat
    BY PoolAssumption, FS_Subset, FS_CardinalityType
  <2>2. Cardinality(InGroup(si', grp)) = Cardinality(InGroup(si, grp)) + Cardinality(ns)
    <3>1. InGroup(si', grp) = InGroup(si, grp) \cup ns /\ InGroup(si, grp) \cap ns = {}
      BY <1>4 DEF InGroup
    <3>2. IsFiniteSet(InGroup(si, grp)) /\ Cardinality(InGroup(si, grp)) \in Nat
      BY InGroupFinite
    <3>3. Cardinality(InGroup(si, grp) \cup ns)
            = Cardinality(InGroup(si, grp)) + Cardinality(ns) - Cardinality({})
      BY <2>1, <3>1, <3>2, FS_Union
    <3>4. Cardinality({}) = 0
      BY FS_EmptySet
    <3> QED BY ONLY <2>1, <3>1, <3>2, <3>3, <3>4
  <2>3. Cardinality(InGroup(si', old)) = Cardinality(InGroup(si, old)) - Cardinality(ns)
    <3>1. InGroup(si', old) = InGroup(si, old) \ ns /\ InGroup(si, old) \cap ns = ns
      BY <1>4 DEF InGroup
    <3>2. Cardinality(InGroup(si, old) \ ns)
            = Cardinality(InGroup(si, old)) - Cardinality(InGroup(si, old) \cap ns)
      BY <2>1, InGroupFinite, FS_Difference
    <3> QED BY ONLY <3>1, <3>2
  <2>4. \A g : g # old /\ g # grp => InGroup(si', g) = InGroup(si, g)
    BY <1>4 DEF InGroup
  <2> QED BY <2>1, <2>2, <2>3, <2>4
<1>6. Cardinality(ns) # 0
  BY <1>5, FS_EmptySet
<1>7. \A h \in Groups :
         refs'[h] = IF h = grp THEN refs[h] + Cardinality(ns)
                    ELSE IF h = old THEN refs[h] - Cardinality(ns) ELSE refs[h]
  <2> SUFFICES ASSUME NEW h \in Groups
               PROVE  refs'[h] = IF h = grp THEN refs[h] + Cardinality(ns)
                                 ELSE IF h = old THEN refs[h] - Cardinality(ns)
                                 ELSE refs[h]
    OBVIOUS
  <2>1. refs'[h] = IF h = grp THEN refs[h] + Cardinality({m \in ns : si[m] # grp})
                   ELSE refs[h] - Cardinality({m \in ns : si[m] = h})
    BY DEF MoveNodes, MovedRefs
  <2>2. {m \in ns : si[m] # grp} = ns
    OBVIOUS
  <2>3. h = old => {m \in ns : si[m] = h} = ns
    OBVIOUS
  <2>4. h # old => {m \in ns : si[m] = h} = {}
    OBVIOUS
  <2>5. Cardinality({}) = 0
    BY FS_EmptySet
  <2>6. refs[h] \in Nat /\ Cardinality(ns) \in Nat
    BY <1>1, <1>5
  <2>7. CASE h = grp
    BY ONLY <2>1, <2>2, <2>7
  <2>8. CASE h # grp /\ h = old
    BY ONLY <2>1, <2>3, <2>8
  <2>9. CASE h # grp /\ h # old
    BY ONLY <2>1, <2>4, <2>5, <2>6, <2>9
  <2> QED BY <2>7, <2>8, <2>9
<1>8. \A h \in Groups :
         /\ refs'[h] = Cardinality(InGroup(si', h)) + leaked[h]
                       + (IF pl = h THEN 1 ELSE 0)
         /\ refs'[h] \in Nat
         /\ (\E m \in Nodes : si'[m] = h) => refs'[h] # 0
  <2> SUFFICES ASSUME NEW h \in Groups
               PROVE  /\ refs'[h] = Cardinality(InGroup(si', h)) + leaked[h]
                                    + (IF pl = h THEN 1 ELSE 0)
                      /\ refs'[h] \in Nat
                      /\ (\E m \in Nodes : si'[m] = h) => refs'[h] # 0
    OBVIOUS
  <2>1. Cardinality(InGroup(si, h)) \in Nat /\ Cardinality(InGroup(si', h)) \in Nat
        /\ ((\E m \in Nodes : si'[m] = h) => Cardinality(InGroup(si', h)) # 0)
    BY InGroupFinite
  <2>2. refs[h] = Cardinality(InGroup(si, h)) + leaked[h] + (IF pl = h THEN 1 ELSE 0)
    BY DEF HeapInv, RefsExact, InGroup
  <2>3. refs'[h] = Cardinality(InGroup(si', h)) + leaked[h] + (IF pl = h THEN 1 ELSE 0)
    BY ONLY <1>1, <1>5, <1>7, <2>1, <2>2, h \in Groups
  <2> QED BY ONLY <1>1, <2>1, <2>3, h \in Groups
<1>9. refs' \in [Groups -> Nat]
  BY <1>8 DEF MoveNodes, MovedRefs
<1>10. /\ \A h \in Groups : nodesOf'[h] = IF h = grp THEN nodesOf[h] \cup ns
                                          ELSE IF refs'[h] = 0 THEN {} ELSE nodesOf[h]
       /\ \A h \in Groups : stopsOf'[h] = IF h = grp THEN stops[h]
                                          ELSE IF refs'[h] = 0 THEN {} ELSE stopsOf[h]
       /\ nodesOf' \in [Groups -> SUBSET Nodes] /\ stopsOf' \in [Groups -> SUBSET Stops]
  BY <1>1 DEF MoveNodes, Surviving
<1>11. TypeOK'
  <2>1. Stations' = Stations
    BY <1>1, <1>2, <1>4 DEF Stations, HasSI
  <2> QED BY <1>4, <1>9, <1>10, <2>1 DEF TypeOK, loop
<1>12. RefsExact'
  BY <1>8 DEF RefsExact, InGroup
<1>13. UnreferencedEmpty'
  <2>1. refs'[grp] # 0
    BY <1>1, <1>5, <1>6, <1>7
  <2> QED BY <1>10, <2>1 DEF UnreferencedEmpty
<1>14. \A m \in nodesOf'[grp] : m \in Nodes /\ si'[m] = grp
  BY <1>1, <1>4, <1>10 DEF HeapInv, GrpConsistent
<1>15. GroupsConsistent'
  <2> SUFFICES ASSUME NEW m \in Nodes, si'[m] \in Groups
               PROVE  m \in nodesOf'[si'[m]] /\ \A k \in nodesOf'[si'[m]] : si'[k] = si'[m]
    BY DEF GroupsConsistent
  <2>1. GroupsConsistent
    BY DEF HeapInv
  <2>2. CASE m \in ns \/ si[m] = grp
    <3>1. si'[m] = grp
      BY <1>4, <2>2
    <3>2. m \in nodesOf'[grp]
      BY <1>1, <1>10, <2>1, <2>2 DEF GroupsConsistent
    <3> QED BY <1>14, <3>1, <3>2
  <2>3. CASE m \notin ns /\ si[m] # grp
    <3>1. /\ si'[m] = si[m] /\ m \in nodesOf[si[m]] /\ si[m] # old
          /\ \A k \in nodesOf[si[m]] : si[k] = si[m]
      BY <1>4, <2>1, <2>3 DEF GroupsConsistent
    <3>2. nodesOf'[si[m]] = nodesOf[si[m]] /\ nodesOf[si[m]] \in SUBSET Nodes
      BY <1>1, <1>8, <1>10, <2>3, <3>1
    <3>3. \A k \in nodesOf[si[m]] : k \notin ns
      BY <3>1
    <3> QED BY <1>4, <3>1, <3>2, <3>3
  <2> QED BY <2>2, <2>3
<1>16. ReadConsistent' /\ GrpConsistent'
  BY <1>3, <1>14 DEF ReadConsistent, GrpConsistent, loop
<1>17. StopsResolve'
  <2> SUFFICES ASSUME NEW s \in Stops, fs[s] # NoNode
               PROVE  si'[fs[s]] \in Groups /\ s \in stopsOf'[si'[fs[s]]]
    BY DEF StopsResolve
  <2>1. fs[s] \in Nodes /\ si[fs[s]] \in Groups /\ s \in stopsOf[si[fs[s]]]
    BY <1>1 DEF HeapInv, StopsResolve
  <2>2. CASE fs[s] \in ns
    BY <1>1, <1>4, <1>10, <2>1, <2>2
  <2>3. CASE fs[s] \notin ns
    BY <1>1, <1>4, <1>8, <1>10, <2>1, <2>3
  <2> QED BY <2>2, <2>3
<1>18. ControlInv' /\ PayloadLive' /\ LeaksImported'
  BY DEF ControlInv, PayloadLive, LeaksImported, loop
<1>19. StopsPending' /\ PenaltiesWhole' /\ CandidatesFound'
  BY <1>3 DEF StopsPending, PenaltiesWhole, CandidatesFound, loop
<1> QED BY <1>11, <1>12, <1>13, <1>15, <1>16, <1>17, <1>18, <1>19 DEF HeapInv

\* group_stats, for one of the nodes it was given
LEMMA GroupNodeStep ==
    ASSUME IInv, NEW n \in Nodes, GroupNode(n)
    PROVE  IInv'
<1> USE DEF IInv
<1>1. step = "group" /\ n \in r /\ grp \in Groups /\ r' = r \ {n}
      /\ UNCHANGED <<import, leaked, linked, sng, orphans, fs, loop, step, pl,
                     hasBest, grp, pens>>
  BY DEF GroupNode, ControlInv
<1>2. /\ stopsOf \in [Groups -> SUBSET Stops] /\ nodesOf \in [Groups -> SUBSET Nodes]
      /\ NoGroup \notin Groups
  BY PoolAssumption DEF TypeOK
<1>3. CASE si[n] = NoGroup /\ MoveNodes({n}, stopsOf)
  <2>1. PICK ns, old, stops : ns = {n} /\ old = NoGroup /\ stops = stopsOf
    OBVIOUS
  <2>2. /\ ns \in SUBSET Nodes /\ ns # {} /\ old \in Groups \cup {NoGroup} /\ old # grp
        /\ \A m \in ns : si[m] = old
        /\ old \in Groups => \A m \in Nodes : si[m] = old => m \in ns
        /\ stops \in [Groups -> SUBSET Stops]
        /\ \A h \in Groups : stopsOf[h] \subseteq stops[h]
        /\ \A h \in Groups : h # grp => stops[h] = stopsOf[h]
        /\ old \in Groups => stopsOf[old] \subseteq stops[grp]
    BY <1>1, <1>2, <1>3, <2>1
  <2>3. MoveNodes(ns, stops)
    BY <1>3, <2>1
  <2> QED BY ONLY IInv, <1>1, <2>2, <2>3, MoveStep
<1>4. CASE si[n] \in Groups \ {grp} /\ MoveNodes(MergedNodes(n), MergedStops(si[n]))
  <2>1. PICK ns, old, stops :
           ns = MergedNodes(n) /\ old = si[n] /\ stops = MergedStops(si[n])
    OBVIOUS
  <2>2. /\ ns \in SUBSET Nodes /\ ns # {} /\ \A m \in ns : si[m] = old
        /\ \A m \in Nodes : si[m] = old => m \in ns
    BY <1>2, <1>4, <2>1 DEF MergedNodes, HeapInv, GroupsConsistent
  <2>3. /\ old \in Groups \cup {NoGroup} /\ old # grp
        /\ stops \in [Groups -> SUBSET Stops]
        /\ \A h \in Groups : stopsOf[h] \subseteq stops[h]
        /\ \A h \in Groups : h # grp => stops[h] = stopsOf[h]
        /\ old \in Groups => stopsOf[old] \subseteq stops[grp]
    BY <1>1, <1>2, <1>4, <2>1 DEF MergedStops
  <2>4. MoveNodes(ns, stops)
    BY <1>4, <2>1
  <2> QED BY ONLY IInv, <1>1, <2>2, <2>3, <2>4, MoveStep
<1>5. CASE UNCHANGED <<si, refs, nodesOf, stopsOf>>
  <2> USE <1>1, <1>5 DEF loop
  <2>1. TypeOK'
    <3>1. Stations' = Stations
      BY DEF Stations, HasSI
    <3> QED BY <3>1 DEF TypeOK
  <2>2. HeapInv'
    BY HeapFrame DEF heap
  <2>3. ControlInv' /\ PayloadLive' /\ LeaksImported'
    BY DEF ControlInv, PayloadLive, LeaksImported
  <2>4. StopsPending' /\ PenaltiesWhole' /\ CandidatesFound'
    BY DEF StopsPending, PenaltiesWhole, CandidatesFound
  <2> QED BY <2>1, <2>2, <2>3, <2>4
<1> QED BY <1>3, <1>4, <1>5 DEF GroupNode

-----------------------------------------------------------------------------
(* The theorems.                                                           *)

LEMMA NextIInv == IInv /\ [Next]_vars => IInv'
<1> SUFFICES ASSUME IInv, [Next]_vars PROVE IInv'
  OBVIOUS
<1>1. CASE UNCHANGED vars
  <2> USE <1>1 DEF IInv, vars, heap, loop
  <2>1. TypeOK'
    <3>1. Stations' = Stations
      BY DEF Stations, HasSI
    <3> QED BY <3>1 DEF TypeOK
  <2>2. HeapInv'
    BY HeapFrame
  <2>3. ControlInv' /\ PayloadLive' /\ LeaksImported'
    BY DEF ControlInv, PayloadLive, LeaksImported, Live
  <2>4. StopsPending' /\ PenaltiesWhole' /\ CandidatesFound'
    BY DEF StopsPending, PenaltiesWhole, CandidatesFound
  <2> QED BY <2>1, <2>2, <2>3, <2>4
<1>2. CASE Reading
  BY <1>2, ReadStep, LoopStep DEF Reading
<1>3. CASE Snapping
  BY <1>3, SnapStep, PayloadStep, PlacedStep, GroupNodeStep DEF Snapping
<1>4. CASE Looping
  BY <1>4, PayloadStep, LoopStep, ReleaseStep, StopGroupedStep, GiveUpStep DEF Looping
<1>5. CASE StartPenalties
  BY <1>5, LoopStep
<1>6. CASE \E s \in Stops : WritePenalties(s)
  BY <1>6, PenaltiesStep
<1>7. CASE Finished
  BY <1>1, <1>7 DEF Finished
<1> QED BY <1>1, <1>2, <1>3, <1>4, <1>5, <1>6, <1>7 DEF Next

\* The inductive invariant holds in every state of snap_stations and
\* write_penalties
THEOREM StationGroupsInvariant == Spec => []IInv
BY InitIInv, NextIInv, PTL DEF Spec

\* station_info::_groups counts the SIs that point to each group, whatever is
\* read, imported, snapped and merged: unRefGroup never deletes a group that
\* an SI of a node, or pl, still points to
THEOREM RefsExactThm == Spec => []RefsExact
<1>1. IInv => RefsExact
  BY DEF IInv, HeapInv
<1> QED BY <1>1, StationGroupsInvariant, PTL

\* The node sets of the groups and the SIs of the nodes agree, so that merge()
\* moves all nodes of a group and none of another
THEOREM GroupsConsistentThm == Spec => []GroupsConsistent
<1>1. IInv => GroupsConsistent
  BY DEF IInv, HeapInv
<1> QED BY <1>1, StationGroupsInvariant, PTL

\* Without import_osm_stations no group outlives its nodes: what merge() empties
\* is deleted before the next station is snapped
THEOREM MergedGroupsDeletedThm == Spec => []MergedGroupsDeleted
<1>1. IInv => MergedGroupsDeleted
  <2> SUFFICES ASSUME IInv, ~import, step = "pick", NEW g \in Groups, nodesOf[g] # {}
               PROVE  \E n \in Nodes : si[n] = g
    BY DEF MergedGroupsDeleted
  <2>1. refs[g] # 0 /\ leaked[g] = 0 /\ pl # g
    BY PoolAssumption DEF IInv, HeapInv, UnreferencedEmpty, LeaksImported, ControlInv
  <2> QED BY <2>1, RefsPositive DEF IInv, HeapInv, Live
<1> QED BY <1>1, StationGroupsInvariant, PTL

\* A stop stays a stop of the group of the node that feed_stops gives it,
\* through all later merges
THEOREM StopsResolveThm == Spec => []StopsResolve
<1>1. IInv => StopsResolve
  BY DEF IInv, HeapInv
<1> QED BY <1>1, StationGroupsInvariant, PTL

\* Every stop has a node when app::run comes to write_penalties, and once its
\* turn is over its group has penalties for it
THEOREM CandidatesFoundThm == Spec => []CandidatesFound
<1>1. IInv => CandidatesFound
  BY DEF IInv
<1> QED BY <1>1, StationGroupsInvariant, PTL

=============================================================================
