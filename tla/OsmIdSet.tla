------------------------------ MODULE OsmIdSet ------------------------------
(***************************************************************************)
(* osm_id_set: a set of OSM ids that lives in a temporary file.  add()     *)
(* appends to an output buffer that is flushed to the file; the first      *)
(* has() closes the set, and if the ids did not arrive in order, sorts the *)
(* file with an external merge sort that works through small refilled      *)
(* buffers.  Lookups go through the bounds, a Bloom filter, the ends of    *)
(* the blocks and a binary search in one cached block.                     *)
(*                                                                         *)
(* All sizes count ids (the code counts bytes, 8 per id).                  *)
(***************************************************************************)
EXTENDS Integers, Sequences, FiniteSets, TLC

CONSTANTS
    Ids,       \* the ids used, naturals
    BlockS,    \* BUFFER_S: ids per block
    SortS,     \* SORT_BUFFER_S: ids per part of the merge sort
    OutS,      \* OBUFFER_S: ids in the output buffer
    BloomOf,   \* BloomOf[id]: the bits of the Bloom filter id hashes to
    Top,       \* the largest value of osmid
    MaxAdds,   \* bound on the number of add() calls
    NoAnswer

ASSUME SizeAssumption ==
    /\ Ids \subseteq 0..Top /\ Top \in Nat \ {0}
    /\ BlockS \in Nat \ {0} /\ SortS \in Nat \ {0} /\ OutS \in Nat \ {0}
    /\ OutS % BlockS = 0
    /\ DOMAIN BloomOf = Ids
    /\ MaxAdds \in Nat

VARIABLES
    added,      \* history: the ids passed to add()
    closed,     \* _closed
    sorted,     \* _sorted
    last, smallest, biggest,    \* _last, _smallest, _biggest
    bloom,      \* the bits set in _bitset
    outBuffer,  \* _outBuffer up to _obufpos
    file,       \* the contents of _file
    blockEnds,  \* _blockEnds
    merge,      \* local variables of sort()
    curBlock,   \* _curBlock, -1 before the first block is loaded
    buffer,     \* _buffer up to _curBlockSize
    pc,         \* where the running call is
    arg,        \* the argument of the running has()
    range,      \* l and r of the binary search
    answer      \* the last result of has()

fillVars == <<added, last, smallest, biggest, bloom, outBuffer>>
vars == <<fillVars, closed, sorted, file, blockEnds, merge, curBlock, buffer,
          pc, arg, range, answer>>

Elems(s) == {s[i] : i \in DOMAIN s}

IsSorted(s) == \A i, j \in DOMAIN s : i < j => s[i] <= s[j]

Least(x, y) == IF x < y THEN x ELSE y
Greatest(x, y) == IF x < y THEN y ELSE x

\* read() of n ids at offset pos: short at the end of the file
ReadAt(f, pos, n) == SubSeq(f, pos + 1, Least(pos + n, Len(f)))

NoMerge == [parts |-> 0, pos |-> <<>>, size |-> <<>>, bufs |-> <<>>, out |-> <<>>]

Init ==
    /\ added = {}
    /\ closed = FALSE
    /\ sorted = TRUE
    /\ last = 0 /\ smallest = Top /\ biggest = 0
    /\ bloom = {}
    /\ outBuffer = <<>>
    /\ file = <<>>
    /\ blockEnds = <<>>
    /\ merge = NoMerge
    /\ curBlock = -1
    /\ buffer = <<>>
    /\ pc = "idle"
    /\ arg = 0
    /\ range = [l |-> 0, r |-> 0]
    /\ answer = NoAnswer

-----------------------------------------------------------------------------
(* Filling the set.                                                        *)

\* diskAdd: append to the output buffer, note the end of a full block, flush
\* a full buffer
DiskAdd(id) ==
    LET full == Append(outBuffer, id)
    IN  /\ blockEnds' = IF Len(full) % BlockS = 0 THEN Append(blockEnds, id)
                                                  ELSE blockEnds
        /\ IF Len(full) >= OutS
           THEN file' = file \o full /\ outBuffer' = <<>>
           ELSE file' = file /\ outBuffer' = full

\* add() of an open set; a closed one throws and changes nothing
Add(id) ==
    /\ pc = "idle" /\ ~closed
    /\ Len(file) + Len(outBuffer) < MaxAdds
    /\ DiskAdd(id)
    /\ added' = added \cup {id}
    /\ sorted' = (sorted /\ last <= id)
    /\ last' = id
    /\ smallest' = Least(id, smallest)
    /\ biggest' = Greatest(id, biggest)
    /\ bloom' = bloom \cup BloomOf[id]
    /\ UNCHANGED <<closed, merge, curBlock, buffer, pc, arg, range, answer>>

-----------------------------------------------------------------------------
(* Closing: flush the rest, end the last block, sort if necessary.         *)

\* has() on an open set calls close()
CloseAndAsk(id) ==
    /\ pc = "idle" /\ ~closed
    /\ file' = file \o outBuffer
    /\ outBuffer' = <<>>
    /\ blockEnds' = Append(blockEnds, biggest)
    /\ closed' = TRUE
    /\ arg' = id
    /\ pc' = IF sorted THEN "filter" ELSE "split"
    /\ answer' = NoAnswer
    /\ UNCHANGED <<added, last, smallest, biggest, bloom, sorted, merge,
                   curBlock, buffer, range>>

Ask(id) ==
    /\ pc = "idle" /\ closed
    /\ arg' = id
    /\ pc' = "filter"
    /\ answer' = NoAnswer
    /\ UNCHANGED <<fillVars, closed, sorted, file, blockEnds, merge, curBlock,
                   buffer, range>>

(***************************************************************************)
(* sort(): cut the file into parts of SortS ids and sort each in place,    *)
(* then merge them.  Every part is read through a buffer of PartsBufSize   *)
(* ids that is refilled from the file when it has been consumed.           *)
(***************************************************************************)
Parts == (Len(file) \div SortS) + 1

PartsBufSize(parts) == (SortS \div parts) + 1

\* A slot of a part buffer that was never written
Junk == -1

\* qsort (external): the ids of s in ascending order
Sorted(s) ==
    {t \in [DOMAIN s -> Elems(s)] :
        /\ IsSorted(t)
        /\ \A x \in Elems(s) : Cardinality({k \in DOMAIN t : t[k] = x})
                               = Cardinality({k \in DOMAIN s : s[k] = x})}

\* Part j of the file after qsort
SortedPart(j) == Sorted(ReadAt(file, SortS * j, SortS))

\* ids copied to the front of a part buffer
Overlay(buf, ids) ==
    [k \in DOMAIN buf |-> IF k < Len(ids) THEN ids[k + 1] ELSE buf[k]]

Split ==
    LET js == 0..(Parts - 1)
        fresh == [k \in 0..(PartsBufSize(Parts) - 1) |-> Junk]
    IN  /\ pc = "split"
        /\ \E part \in [js -> UNION {SortedPart(j) : j \in js}] :
            /\ \A j \in js : part[j] \in SortedPart(j)
            /\ file' = [k \in DOMAIN file |->
                            part[(k - 1) \div SortS][((k - 1) % SortS) + 1]]
            /\ merge' = [parts |-> Parts,
                         pos   |-> [j \in js |-> 0],
                         size  |-> [j \in js |-> Len(part[j])],
                         bufs  |-> [j \in js |-> Overlay(fresh, part[j])],
                         out   |-> <<>>]
        /\ blockEnds' = <<>>
        /\ pc' = "merge"
        /\ UNCHANGED <<fillVars, closed, sorted, curBlock, buffer, arg, range, answer>>

\* The next id of part j
Front(j) == merge.bufs[j][merge.pos[j] % PartsBufSize(merge.parts)]

\* Mutant: the comparison turned round
IsLargestPart(j) ==
    /\ merge.pos[j] # merge.size[j]
    /\ \A k \in DOMAIN merge.pos : merge.pos[k] # merge.size[k] =>
        Front(j) > Front(k) \/ (Front(j) = Front(k) /\ k <= j)

\* The part with the smallest front; the last one of equals wins
IsSmallestPart(j) ==
    /\ merge.pos[j] # merge.size[j]
    /\ \A k \in DOMAIN merge.pos : merge.pos[k] # merge.size[k] =>
        Front(j) < Front(k) \/ (Front(j) = Front(k) /\ k <= j)

\* Mutant: every part is refilled from the front of the file
RefilledFromFront(j, pos) ==
    IF pos % PartsBufSize(merge.parts) = 0
    THEN Overlay(merge.bufs[j], ReadAt(file, pos, PartsBufSize(merge.parts)))
    ELSE merge.bufs[j]

\* The buffer of part j once position pos is reached: refilled at its end
Refilled(j, pos) ==
    IF pos % PartsBufSize(merge.parts) = 0
    THEN Overlay(merge.bufs[j],
                 ReadAt(file, SortS * j + pos, PartsBufSize(merge.parts)))
    ELSE merge.bufs[j]

MergeNext(j) ==
    /\ pc = "merge" /\ Len(merge.out) < Len(file)
    /\ IsSmallestPart(j)
    /\ merge' = [merge EXCEPT !.out = Append(@, Front(j)),
                              !.pos[j] = @ + 1,
                              !.bufs[j] = Refilled(j, merge.pos[j] + 1)]
    /\ blockEnds' = IF (Len(merge.out) + 1) % BlockS = 0
                    THEN Append(blockEnds, Front(j))
                    ELSE blockEnds
    /\ UNCHANGED <<fillVars, closed, sorted, file, curBlock, buffer, pc, arg,
                   range, answer>>

MergeDone ==
    /\ pc = "merge" /\ Len(merge.out) = Len(file)
    /\ file' = merge.out
    /\ merge' = NoMerge
    /\ sorted' = TRUE
    /\ pc' = "filter"
    /\ UNCHANGED <<fillVars, closed, blockEnds, curBlock, buffer, arg, range, answer>>

-----------------------------------------------------------------------------
(* has() on a closed set.                                                  *)

Return(b) == answer' = b /\ pc' = "idle"

\* Mutant: the largest id is out of bounds
MayContainBelow(id) ==
    /\ smallest <= id /\ id < biggest
    /\ BloomOf[id] \subseteq bloom

\* The bounds and the Bloom filter let id through
MayContain(id) ==
    /\ smallest <= id /\ id <= biggest
    /\ BloomOf[id] \subseteq bloom

FilterOut ==
    /\ pc = "filter" /\ ~MayContain(arg)
    /\ Return(FALSE)
    /\ UNCHANGED <<fillVars, closed, sorted, file, blockEnds, merge, curBlock,
                   buffer, arg, range>>

IsBlockEnd ==
    /\ pc = "filter" /\ MayContain(arg)
    /\ arg \in Elems(blockEnds)
    /\ Return(TRUE)
    /\ UNCHANGED <<fillVars, closed, sorted, file, blockEnds, merge, curBlock,
                   buffer, arg, range>>

\* Mutant: one block too far
GetBlockAfter(id) ==
    Cardinality({k \in DOMAIN blockEnds : blockEnds[k] <= id}) + 1

\* upper_bound in _blockEnds
GetBlock(id) == Cardinality({k \in DOMAIN blockEnds : blockEnds[k] <= id})

Block(f, n) == ReadAt(f, n * BlockS, BlockS)

\* Mutant: only the first block is ever read
LoadedOnce(n) == IF curBlock = -1 THEN Block(file, n) ELSE buffer

\* Block n, read from the file unless it is the cached one
Loaded(n) == IF n # curBlock THEN Block(file, n) ELSE buffer

OpenBlock ==
    /\ pc = "filter" /\ MayContain(arg)
    /\ arg \notin Elems(blockEnds)
    /\ curBlock' = GetBlock(arg)
    /\ buffer' = Loaded(GetBlock(arg))
    /\ IF buffer' = <<>> \/ buffer'[1] > arg
       THEN Return(FALSE) /\ UNCHANGED range
       ELSE /\ range' = [l |-> 0, r |-> Len(buffer') - 1]
            /\ pc' = "search"
            /\ UNCHANGED answer
    /\ UNCHANGED <<fillVars, closed, sorted, file, blockEnds, merge, arg>>

\* One turn of the binary search
Probe ==
    LET m == range.l + ((range.r - range.l) \div 2)
    IN  /\ pc = "search" /\ range.l <= range.r
        /\ \/ /\ buffer[m + 1] = arg
              /\ Return(TRUE) /\ UNCHANGED range
           \/ /\ buffer[m + 1] < arg
              /\ range' = [range EXCEPT !.l = m + 1] /\ UNCHANGED <<pc, answer>>
           \/ /\ buffer[m + 1] > arg
              /\ range' = [range EXCEPT !.r = m - 1] /\ UNCHANGED <<pc, answer>>
        /\ UNCHANGED <<fillVars, closed, sorted, file, blockEnds, merge,
                       curBlock, buffer, arg>>

SearchFails ==
    /\ pc = "search" /\ range.l > range.r
    /\ Return(FALSE)
    /\ UNCHANGED <<fillVars, closed, sorted, file, blockEnds, merge, curBlock,
                   buffer, arg, range>>

Lookup == FilterOut \/ IsBlockEnd \/ OpenBlock \/ Probe \/ SearchFails

Next ==
    \/ \E id \in Ids : Add(id) \/ CloseAndAsk(id) \/ Ask(id)
    \/ Split
    \/ \E j \in 0..(merge.parts - 1) : MergeNext(j)
    \/ MergeDone
    \/ Lookup

\* A call that has started runs to its end; calls are made at will
Running == pc # "idle" /\ Next

Spec == Init /\ [][Next]_vars /\ WF_vars(Running)

-----------------------------------------------------------------------------
(* Properties.                                                             *)

TypeOK ==
    /\ added \subseteq Ids
    /\ closed \in BOOLEAN /\ sorted \in BOOLEAN
    /\ {last, smallest, biggest} \subseteq 0..Top
    /\ Elems(outBuffer) \cup Elems(file) \cup Elems(buffer) \subseteq Ids
    /\ Len(outBuffer) < OutS
    /\ curBlock \in -1..((Len(file) \div BlockS) + 1)
    /\ pc \in {"idle", "split", "merge", "filter", "search"}
    /\ arg \in 0..Top
    /\ answer \in BOOLEAN \cup {NoAnswer}

\* No id is lost or invented on the way from add() through the buffers, the
\* flushes and the parts of the sort to the final file.
NothingLost ==
    /\ Elems(file) \cup Elems(outBuffer) = added
    /\ pc = "merge" /\ Len(merge.out) = Len(file) => Elems(merge.out) = added

\* When ids are looked up, the file is sorted and the k-th block end is the
\* last id of the k-th full block, so that getBlock names the only block an
\* id can be in.
BlockIndexExact ==
    pc \in {"filter", "search"} =>
        /\ IsSorted(file)
        /\ \A k \in 1..(Len(file) \div BlockS) : blockEnds[k] = file[k * BlockS]
        /\ Len(blockEnds) \in {Len(file) \div BlockS, (Len(file) \div BlockS) + 1}

\* The cached block is that of the current file: no lookup before the sort
\* can leave a block of the unsorted file behind.
CachedBlockCurrent ==
    curBlock # -1 => buffer = Block(file, curBlock)

\* The bounds and the Bloom filter never hide an id that was added
NoFalseNegative == \A id \in added : MayContain(id)

\* osm_id_set implements the set it promises: "Check if an OSM id is
\* contained"
Abstract == INSTANCE IdSet WITH
    contents <- added, frozen <- closed,
    asked <- IF pc = "idle" THEN {} ELSE {arg}

ImplementsIdSet == Abstract!Spec
=============================================================================
