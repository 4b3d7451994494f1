---------------------------- MODULE AppRunProofs ----------------------------
(***************************************************************************)
(* Proofs about app::run for all route types, command lines, input         *)
(* directories and numbers of runs: files are changed only by a run that   *)
(* accepted its whole feed, and the input only by one in place; a run that *)
(* succeeds has written what its mode asks for, and kept what shapes it    *)
(* read.                                                                   *)
(***************************************************************************)
EXTENDS AppRun, TLAPS

\* What the table readers leave behind: t was accepted, or not looked at.
Acceptable(t) ==
    \/ t = "shapes" /\ ~opt.evaluate
    \/ "ok" \in read(t, start.files["in1"][t])

AllAcceptable == \A t \in Range(Tables) : Acceptable(t)

\* The run has passed the checks of its arguments.
MatchingRun == opt.feeds = 1 /\ ~Filter /\ opt.trip # Unknown

Shape ==
    /\ DOMAIN files = Dirs
    /\ pc \in {"args", "read", "mode", "match", "write", "end"}
    /\ at \in Nat \ {0} /\ feedAt \in Nat \ {0}
    /\ pc = "args" => at = 1 /\ feedAt = 1
    /\ opt \in Options
    /\ pc \in {"read", "mode"} => opt.feeds < 2 \/ Filter

\* Before the writing starts nothing has changed; each table before the one
\* that is read now is acceptable; later all of them are.
Progress ==
    /\ pc \in {"args", "read", "mode", "match"} => files = start.files
    /\ pc = "read" => at \in 1..Len(Tables) /\ opt.feeds > 0
    /\ pc = "read" /\ feedAt = 1 =>
         \A k \in 1..(at - 1) : Acceptable(Tables[k])
    /\ pc = "read" /\ feedAt # 1 => AllAcceptable
    /\ pc = "mode" /\ opt.feeds > 0 => AllAcceptable
    /\ pc \in {"match", "write"} => MatchingRun /\ AllAcceptable
    /\ pc = "end" /\ files # start.files => MatchingRun /\ AllAcceptable

IInv == Shape /\ Progress

\* Tables is a sequence of 13 names.
LEMMA TablesSequence ==
    /\ Len(Tables) = 13 /\ DOMAIN Tables = 1..Len(Tables)
    /\ Range(Tables) = {Tables[k] : k \in 1..Len(Tables)}
BY DEF Tables, Range

LEMMA FeedsBounded == \A o \in Options : o.feeds \in 0..2
BY AppAssumption DEF OptionRecord

\* The results of a reader do not include the marker for a table left out.
LEMMA NoSkip == \A t, c : "skip" \notin read(t, c)
<1> SUFFICES ASSUME NEW t, NEW c PROVE "skip" \notin read(t, c)
  OBVIOUS
<1>1. RowResult(t, c) # "skip"
  BY DEF RowResult
<1> QED
  BY <1>1 DEF read

LEMMA InitIInv == Init => IInv
<1> SUFFICES ASSUME Init PROVE IInv
  OBVIOUS
<1>1. DOMAIN files = Dirs
  BY DEF Init
<1>2. start.files = files
  BY DEF Init, Snapshot
<1>3. pc = "args" /\ at = 1 /\ feedAt = 1 /\ opt \in Options
  BY DEF Init
<1> QED
  BY <1>1, <1>2, <1>3 DEF IInv, Shape, Progress

\* A step that only moves on: all but pc, at, feedAt, feed, path and ret stay.
Quiet == UNCHANGED <<opt, files, start>>

LEMMA QuietKeeps ==
    Quiet => /\ AllAcceptable' = AllAcceptable /\ MatchingRun' = MatchingRun
             /\ \A t : Acceptable(t)' = Acceptable(t)
             /\ Filter' = Filter
BY DEF Quiet, AllAcceptable, Acceptable, MatchingRun, Filter

\* A run that ends keeps what it has done.
LEMMA RefuseKeeps ==
    ASSUME IInv, NEW code, Refuse(code)
    PROVE  IInv'
<1>1. Quiet /\ pc' = "end" /\ UNCHANGED <<at, feedAt>>
  BY DEF Refuse, Return, Quiet, diskVars
<1>2. files # start.files => MatchingRun /\ AllAcceptable
  BY DEF IInv, Shape, Progress
<1>3. Shape'
  BY <1>1 DEF IInv, Shape, Quiet
<1>4. Progress'
  BY <1>1, <1>2, QuietKeeps DEF Progress, Quiet
<1> QED
  BY <1>3, <1>4 DEF IInv

LEMMA ReadTableKeeps ==
    ASSUME IInv, ReadTable
    PROVE  IInv'
<1> USE DEF IInv
<1>1. Quiet /\ pc = "read"
  BY DEF ReadTable, Quiet, diskVars
<1>2. at \in 1..Len(Tables) /\ opt.feeds > 0 /\ opt.feeds \in 0..2 /\ Len(Tables) = 13
  BY <1>1, FeedsBounded, TablesSequence DEF Progress, Shape
<1>3. files = start.files
  BY <1>1 DEF Progress
<1>4. feedAt = 1 => Acceptable(Tables[at])
  <2> SUFFICES ASSUME feedAt = 1 PROVE Acceptable(Tables[at])
    OBVIOUS
  <2>1. CASE Tables[at] = "shapes" /\ ~opt.evaluate
    BY <2>1 DEF Acceptable
  <2>2. CASE ~(Tables[at] = "shapes" /\ ~opt.evaluate)
    <3>1. Results = read(Tables[at], start.files["in1"][Tables[at]])
      BY <2>2, <1>3 DEF Results, InDir
    <3>2. "ok" \in Results \/ "skip" \in Results
      BY DEF ReadTable
    <3>3. "skip" \notin read(Tables[at], start.files["in1"][Tables[at]])
      BY NoSkip
    <3> QED
      BY <3>1, <3>2, <3>3 DEF Acceptable
  <2> QED
    BY <2>1, <2>2
<1>5. CASE at < Len(Tables)
  <2>1. at' = at + 1 /\ feedAt' = feedAt /\ pc' = "read"
    BY <1>1, <1>5 DEF ReadTable, NextTable
  <2>2. Shape'
    BY <2>1, <1>1, QuietKeeps DEF Shape, Quiet
  <2>3. feedAt = 1 => \A k \in 1..at : Acceptable(Tables[k])
    <3> SUFFICES ASSUME feedAt = 1, NEW k \in 1..at PROVE Acceptable(Tables[k])
      OBVIOUS
    <3>1. CASE k = at
      BY <3>1, <1>4
    <3>2. CASE k # at
      BY <3>2, <1>1, <1>2 DEF Progress
    <3> QED
      BY <3>1, <3>2
  <2>4. feedAt # 1 => AllAcceptable
    BY <1>1 DEF Progress
  <2>5. (at + 1) - 1 = at /\ at + 1 \in 1..Len(Tables)
    BY <1>2, <1>5
  <2>6. feedAt = 1 => \A k \in 1..at : Acceptable(Tables[k])'
    BY <2>3, <1>1, QuietKeeps
  <2>7. feedAt # 1 => AllAcceptable'
    BY <2>4, <1>1, QuietKeeps
  <2> QED
    BY <2>1, <2>2, <2>5, <2>6, <2>7, <1>1, <1>2, <1>3 DEF Progress, Quiet
<1>6. CASE ~(at < Len(Tables))
  <2>1. /\ at' = 1 /\ feedAt' = feedAt + 1
        /\ pc' = IF feedAt < opt.feeds THEN "read" ELSE "mode"
    BY <1>1, <1>6 DEF ReadTable, NextTable
  <2>2. AllAcceptable
    <3>1. CASE feedAt = 1
      <4>1. \A k \in 1..Len(Tables) : Acceptable(Tables[k])
        <5> SUFFICES ASSUME NEW k \in 1..Len(Tables) PROVE Acceptable(Tables[k])
          OBVIOUS
        <5>1. at = Len(Tables)
          BY <1>2, <1>6
        <5>2. CASE k = at
          BY <5>2, <1>4, <3>1
        <5>3. CASE k # at
          BY <5>1, <5>3, <1>1, <1>2, <3>1 DEF Progress
        <5> QED
          BY <5>2, <5>3
      <4> QED
        BY <4>1, TablesSequence DEF AllAcceptable
    <3>2. CASE feedAt # 1
      BY <3>2, <1>1 DEF Progress
    <3> QED
      BY <3>1, <3>2
  <2>3. feedAt' \in Nat \ {0} /\ feedAt' # 1
    BY <2>1 DEF Shape
  <2>4. Shape'
    BY <2>1, <2>3, <1>1, QuietKeeps DEF Shape, Quiet
  <2>5. AllAcceptable'
    BY <2>2, <1>1, QuietKeeps
  <2> QED
    BY <2>1, <2>3, <2>4, <2>5, <1>1, <1>2, <1>3 DEF Progress, Quiet
<1> QED
  BY <1>5, <1>6

LEMMA WriteTableKeeps ==
    ASSUME IInv, WriteTable
    PROVE  IInv'
<1>1. /\ UNCHANGED <<opt, start, pc, feedAt>> /\ pc = "write" /\ at' = at + 1
      /\ DOMAIN files' = DOMAIN files
  BY DEF WriteTable, Writing
<1>2. MatchingRun /\ AllAcceptable
  BY <1>1 DEF IInv, Progress
<1>3. MatchingRun' /\ AllAcceptable'
  BY <1>1, <1>2 DEF MatchingRun, AllAcceptable, Acceptable, Filter
<1>4. Shape'
  BY <1>1 DEF IInv, Shape
<1>5. Progress'
  BY <1>1, <1>3 DEF Progress
<1> QED
  BY <1>4, <1>5 DEF IInv

\* The steps that pass a check, or go on to the next configuration or table.
LEMMA MoveKeeps ==
    ASSUME IInv,
           StartReading \/ NothingToRead \/ StartMatching \/ SkipConfig
           \/ MatchConfig \/ StartWriting \/ SkipTable
    PROVE  IInv'
<1> USE DEF IInv
<1>0. opt \in Options /\ opt.feeds \in 0..2
  BY FeedsBounded DEF Shape
<1>1. Quiet
  BY DEF StartReading, NothingToRead, StartMatching, SkipConfig, MatchConfig,
         StartWriting, SkipTable, Quiet, diskVars
<1>2. CASE StartReading
  <2>1. /\ pc = "args" /\ UNCHANGED <<at, feedAt>> /\ (opt.feeds = 1 \/ Filter)
        /\ pc' = IF opt.feeds = 0 THEN "mode" ELSE "read"
    BY <1>2 DEF StartReading, Accepted
  <2>2. Shape'
    BY <2>1, <1>1, QuietKeeps DEF Shape, Quiet
  <2>3. at = 1 /\ feedAt = 1 /\ files = start.files
    BY <2>1 DEF Shape, Progress
  <2>4. 1 \in 1..Len(Tables) /\ 1..(1 - 1) = {}
    BY TablesSequence
  <2> QED
    BY <2>1, <2>2, <2>3, <2>4, <1>0, <1>1 DEF Progress, Quiet
<1>3. CASE NothingToRead
  BY <1>3, <1>0, <1>1, QuietKeeps DEF NothingToRead, Accepted, Shape, Progress, Quiet
<1>4. CASE StartMatching
  <2>1. /\ pc = "mode" /\ pc' = "match" /\ at' = 1 /\ feedAt' = feedAt
        /\ opt.feeds > 0 /\ ~Filter /\ opt.trip # Unknown
    BY <1>4 DEF StartMatching, TripChecked, HasInput, Unknown, None
  <2>2. opt.feeds = 1
    BY <2>1, <1>0 DEF Shape
  <2>3. MatchingRun /\ AllAcceptable
    BY <2>1, <2>2 DEF Progress, MatchingRun
  <2> QED
    BY <2>1, <2>3, <1>1, QuietKeeps DEF Shape, Progress, Quiet
<1>5. CASE SkipConfig \/ MatchConfig
  <2>1. pc = "match" /\ pc' = "match" /\ at' = at + 1 /\ feedAt' = feedAt
    BY <1>5 DEF SkipConfig, MatchConfig, InMatching
  <2> QED
    BY <2>1, <1>1, QuietKeeps DEF Shape, Progress, Quiet
<1>6. CASE StartWriting
  BY <1>6, <1>1, QuietKeeps DEF StartWriting, Shape, Progress, Quiet
<1>7. CASE SkipTable
  BY <1>7, <1>1, QuietKeeps DEF SkipTable, Writing, Shape, Progress, Quiet
<1> QED
  BY <1>2, <1>3, <1>4, <1>5, <1>6, <1>7

LEMMA RunAgainKeeps ==
    ASSUME IInv, RunAgain
    PROVE  IInv'
<1>1. pc' = "args" /\ at' = 1 /\ feedAt' = 1 /\ opt' \in Options /\ files' = files
  BY AppAssumption DEF RunAgain, diskVars
<1>2. start'.files = files'
  BY <1>1 DEF RunAgain, Snapshot
<1> QED
  BY <1>1, <1>2 DEF IInv, Shape, Progress

LEMMA NextKeeps == IInv /\ [Next]_vars => IInv'
<1> SUFFICES ASSUME IInv, [Next]_vars PROVE IInv'
  OBVIOUS
<1>1. CASE CheckOsm \/ CheckMotCfgs \/ CheckFeeds \/ RefuseTable \/ KilledByTable
  BY <1>1, RefuseKeeps
     DEF CheckOsm, CheckMotCfgs, CheckFeeds, RefuseTable, KilledByTable
<1>2. CASE CheckTrip \/ WriteOsm \/ WriteOverpass \/ CheckInput \/ MatchDies
  BY <1>2, RefuseKeeps DEF CheckTrip, WriteOsm, WriteOverpass, CheckInput, MatchDies
<1>3. CASE CannotOpen \/ FailAtTable \/ FeedWritten
  BY <1>3, RefuseKeeps DEF CannotOpen, FailAtTable, FeedWritten
<1>4. CASE WritePath
  <2>1. pc = "match" /\ pc' = "end" /\ Quiet /\ UNCHANGED <<at, feedAt>>
    BY <1>4 DEF WritePath, InMatching, Return, Quiet, diskVars
  <2> QED
    BY <2>1, QuietKeeps DEF IInv, Shape, Progress, Quiet
<1>5. CASE ReadTable
  BY <1>5, ReadTableKeeps
<1>6. CASE WriteTable
  BY <1>6, WriteTableKeeps
<1>7. CASE StartReading \/ NothingToRead \/ StartMatching \/ SkipConfig
           \/ MatchConfig \/ StartWriting \/ SkipTable
  BY <1>7, MoveKeeps
<1>8. CASE RunAgain
  BY <1>8, RunAgainKeeps
<1>9. CASE Ended \/ UNCHANGED vars
  <2>1. UNCHANGED vars
    BY <1>9 DEF Ended
  <2>2. Quiet /\ UNCHANGED <<pc, at, feedAt>>
    BY <2>1 DEF vars, Quiet
  <2> QED
    BY <2>2, QuietKeeps DEF IInv, Shape, Progress, Quiet
<1> QED
  BY <1>1, <1>2, <1>3, <1>4, <1>5, <1>6, <1>7, <1>8, <1>9 DEF Next

\* What a table reader accepts, said without the reader.
LEMMA AcceptableMeans ==
    ASSUME NEW t, NEW c, "ok" \in read(t, c)
    PROVE  /\ c = Absent => t \notin Required
           /\ c # Empty
           /\ c.is = "defect" => RowResult(t, c) = "ok"
<1>1. /\ Absent.is = "absent" /\ Empty.is = "empty" /\ Good.is = "good"
      /\ Written.is = "written" /\ Cut.is = "cut"
  BY DEF Absent, Empty, Good, Written, Cut, Plain
<1>2. c = Absent => t \notin Required
  <2> SUFFICES ASSUME c = Absent PROVE t \notin Required
    OBVIOUS
  <2>1. c # Empty /\ c \notin {Good, Written} /\ c # Cut
    BY <1>1
  <2>2. read(t, c) = {IF t \in Required THEN "error" ELSE "ok"}
    BY <2>1 DEF read
  <2> QED
    BY <2>2
<1>3. c # Empty
  <2> SUFFICES ASSUME c = Empty PROVE FALSE
    OBVIOUS
  <2>1. c # Absent /\ c \notin {Good, Written} /\ c # Cut
    BY <1>1
  <2>2. read(t, c) = {"error"}
    BY <2>1 DEF read
  <2> QED
    BY <2>2
<1>4. c.is = "defect" => RowResult(t, c) = "ok"
  BY <1>1 DEF read
<1> QED
  BY <1>2, <1>3, <1>4

\* For all command lines, input directories and numbers of runs: app::run
\* changes a file only after feed_reader has accepted every table of the one
\* feed and only in the matching mode.
THEOREM AcceptedBeforeWritingThm == Spec => []AcceptedBeforeWriting
<1>1. IInv => AcceptedBeforeWriting
  <2> SUFFICES ASSUME IInv, files # start.files PROVE
        /\ MatchingRun
        /\ \A t \in Range(Tables) \ (IF opt.evaluate THEN {} ELSE {"shapes"}) :
              "ok" \in read(t, start.files["in1"][t])
    BY AcceptableMeans DEF AcceptedBeforeWriting, MatchingRun
  <2>1. MatchingRun /\ AllAcceptable
    BY DEF IInv, Shape, Progress
  <2> QED
    BY <2>1 DEF AllAcceptable, Acceptable
<1> QED
  BY <1>1, InitIInv, NextKeeps, PTL DEF Spec

\* One step changes the input directory only in place, and never a second
\* feed.
InputStep ==
    /\ files'["in1"] # files["in1"] => opt.inPlace
    /\ files'["in2"] = files["in2"]

LEMMA StepKeepsInput == IInv /\ [Next]_vars => InputStep
<1> SUFFICES ASSUME IInv, [Next]_vars PROVE InputStep
  OBVIOUS
<1>1. CASE WriteTable
  <2>1. DOMAIN files = {"in1", "in2", "out"}
    BY DEF IInv, Shape, Dirs
  <2>2. OutDir \in {"in1", "out"} /\ (OutDir = "in1" => opt.inPlace)
    BY DEF OutDir
  <2>3. \A d \in {"in1", "in2", "out"} : d # OutDir => files'[d] = files[d]
    BY <1>1, <2>1 DEF WriteTable
  <2> QED
    BY <2>2, <2>3 DEF InputStep
<1>2. CASE ~WriteTable
  <2>1. files' = files
    BY <1>2 DEF Next, CheckOsm, CheckMotCfgs, CheckFeeds, StartReading,
       NothingToRead, ReadTable, RefuseTable, KilledByTable, CheckTrip, WriteOsm,
       WriteOverpass, CheckInput, StartMatching, SkipConfig, MatchDies, WritePath,
       MatchConfig, StartWriting, CannotOpen, SkipTable, FailAtTable, FeedWritten,
       RunAgain, Ended, Refuse, Return, diskVars, vars
  <2> QED
    BY <2>1 DEF InputStep
<1> QED
  BY <1>1, <1>2

\* For all constants: no step of a run that is not in place changes the input
\* feed (cfg_.outputPath and feed_writter).
THEOREM InputKeptThm == Spec => InputKept
<1>1. IInv /\ [Next]_vars => [InputStep]_vars
  BY StepKeepsInput
<1> QED
  BY <1>1, InitIInv, NextKeeps, PTL DEF Spec, InputKept, InputStep

-----------------------------------------------------------------------------
(* The shapes of a feed whose shapes.txt was read.                         *)

\* Trips and shapes in memory do not lose a shape of the input.
FeedKept ==
    \A t \in Types :
        Resolves(start.names["in1"], start.stored["in1"], t)
            => Resolves(feed.names, feed.shapes, t)

NamesLoaded == feed.names = start.names["in1"]
ShapesLoaded == opt.evaluate => feed.shapes = start.stored["in1"]

\* What has been written of the feed in memory.
NamesWritten == \A t \in Types : names[OutDir][t] = feed.names[t]
ShapesWritten ==
    \A t \in Types : Named(feed.names, t) \in feed.shapes
                         => Named(feed.names, t) \in stored[OutDir]

Loading ==
    /\ pc \in {"args", "read", "mode", "match"} =>
         names = start.names /\ stored = start.stored
    /\ pc = "read" /\ feedAt = 1 /\ at > 4 => NamesLoaded
    /\ pc = "read" /\ feedAt = 1 /\ at > 8 => ShapesLoaded
    /\ pc = "read" /\ feedAt # 1 => NamesLoaded /\ ShapesLoaded
    /\ pc = "mode" /\ opt.feeds > 0 => NamesLoaded /\ ShapesLoaded

Storing ==
    /\ DOMAIN names = Dirs /\ DOMAIN stored = Dirs
    /\ pc \in {"match", "write"} /\ opt.evaluate => FeedKept
    /\ pc = "write" /\ ~full /\ at > 4 => NamesWritten
    /\ pc = "write" /\ ~full /\ at > 8 => ShapesWritten
    /\ pc # "end" => ret = None
    /\ pc = "end" => ReadShapesKept

KInv == Loading /\ Storing

\* A step that leaves all these variables alone.
Still == UNCHANGED <<opt, names, stored, feed, start, full>>

LEMMA StillKeeps ==
    Still => /\ FeedKept' = FeedKept /\ NamesLoaded' = NamesLoaded
             /\ ShapesLoaded' = ShapesLoaded /\ NamesWritten' = NamesWritten
             /\ ShapesWritten' = ShapesWritten /\ Filter' = Filter
BY DEF Still, FeedKept, NamesLoaded, ShapesLoaded, NamesWritten, ShapesWritten,
       Filter, Resolves, Named, OutDir

LEMMA InitKInv == Init => KInv
<1> SUFFICES ASSUME Init PROVE KInv
  OBVIOUS
<1>1. DOMAIN names = Dirs /\ DOMAIN stored = Dirs
  BY DEF Init
<1>2. start.names = names /\ start.stored = stored
  BY DEF Init, Snapshot
<1>3. pc = "args" /\ ret = None
  BY DEF Init
<1> QED
  BY <1>1, <1>2, <1>3 DEF KInv, Loading, Storing

\* A run that ends without SUCCESS, or in a filter mode, promises nothing.
LEMMA RefuseKeepsShapes ==
    ASSUME KInv, NEW code, Refuse(code), code # "SUCCESS" \/ Filter
    PROVE  KInv'
<1>1. Still /\ pc' = "end" /\ ret' = code
  BY DEF Refuse, Return, Still, diskVars
<1>2. ReadShapesKept'
  BY <1>1, StillKeeps DEF ReadShapesKept, WroteFeed
<1> QED
  BY <1>1, <1>2 DEF KInv, Loading, Storing, Still

LEMMA ReadTableKeepsShapes ==
    ASSUME IInv, KInv, ReadTable
    PROVE  KInv'
<1>1. /\ UNCHANGED <<opt, names, stored, start, full, ret>> /\ pc = "read"
      /\ pc' \in {"read", "mode"}
  BY DEF ReadTable, NextTable, diskVars
<1>2. /\ at \in 1..13 /\ feedAt \in Nat \ {0} /\ Len(Tables) = 13
      /\ opt.feeds > 0
  BY <1>1, TablesSequence DEF IInv, Progress, Shape
<1>3. names = start.names /\ stored = start.stored
  BY <1>1 DEF KInv, Loading
<1>4. Tables[at] = "trips" <=> at = 4
  BY <1>2 DEF Tables
<1>5. Tables[at] = "shapes" <=> at = 8
  BY <1>2 DEF Tables
<1>6. feedAt = 1 /\ at >= 4 => NamesLoaded'
  <2> SUFFICES ASSUME feedAt = 1, at >= 4 PROVE NamesLoaded'
    OBVIOUS
  <2>1. CASE at = 4
    BY <2>1, <1>1, <1>3, <1>4, <1>5 DEF ReadTable, NamesLoaded
  <2>2. CASE at # 4
    <3>1. NamesLoaded
      BY <2>2, <1>1, <1>2 DEF KInv, Loading
    <3>2. feed'.names = feed.names
      BY <2>2, <1>4 DEF ReadTable
    <3> QED
      BY <3>1, <3>2, <1>1 DEF NamesLoaded
  <2> QED
    BY <2>1, <2>2
<1>7. feedAt = 1 /\ at >= 8 => ShapesLoaded'
  <2> SUFFICES ASSUME feedAt = 1, at >= 8, opt.evaluate
               PROVE  feed'.shapes = start.stored["in1"]
    BY <1>1 DEF ShapesLoaded
  <2>1. CASE at = 8
    BY <2>1, <1>1, <1>3, <1>4, <1>5 DEF ReadTable
  <2>2. CASE at # 8
    <3>1. ShapesLoaded
      BY <2>2, <1>1, <1>2 DEF KInv, Loading
    <3>2. feed' = feed
      BY <2>2, <1>4, <1>5, <1>2 DEF ReadTable
    <3> QED
      BY <3>1, <3>2, <1>1 DEF ShapesLoaded
  <2> QED
    BY <2>1, <2>2
<1>8. feedAt # 1 => NamesLoaded' /\ ShapesLoaded'
  <2> SUFFICES ASSUME feedAt # 1 PROVE NamesLoaded' /\ ShapesLoaded'
    OBVIOUS
  <2>1. NamesLoaded /\ ShapesLoaded
    BY <1>1 DEF KInv, Loading
  <2>2. feed' = feed
    BY DEF ReadTable
  <2> QED
    BY <2>1, <2>2, <1>1 DEF NamesLoaded, ShapesLoaded
<1>9. CASE at < 13
  <2>1. at' = at + 1 /\ feedAt' = feedAt /\ pc' = "read"
    BY <1>1, <1>2, <1>9 DEF ReadTable, NextTable
  <2>2. Loading'
    BY <2>1, <1>1, <1>2, <1>3, <1>6, <1>7, <1>8 DEF Loading
  <2> QED
    BY <2>1, <2>2, <1>1 DEF KInv, Storing
<1>10. CASE ~(at < 13)
  <2>1. at = 13 /\ feedAt' = feedAt + 1
    BY <1>1, <1>2, <1>10 DEF ReadTable, NextTable
  <2>2. NamesLoaded' /\ ShapesLoaded' /\ feedAt' # 1
    BY <2>1, <1>2, <1>6, <1>7, <1>8
  <2>3. Loading'
    BY <2>2, <1>1, <1>3 DEF Loading
  <2> QED
    BY <2>3, <1>1 DEF KInv, Storing
<1> QED
  BY <1>9, <1>10

\* A type that keeps its shape loses none, one that is matched gets another.
LEMMA MatchKeepsShapes ==
    ASSUME IInv, KInv, MatchConfig
    PROVE  KInv'
<1>1. /\ UNCHANGED <<opt, names, stored, start, full, ret, pc>> /\ pc = "match"
  BY DEF MatchConfig, InMatching, diskVars
<1>2. opt.evaluate => FeedKept'
  <2> SUFFICES ASSUME opt.evaluate, NEW t \in Types,
                      Resolves(start.names["in1"], start.stored["in1"], t)
               PROVE  Resolves(feed'.names, feed'.shapes, t)
    BY <1>1 DEF FeedKept, Resolves, Named
  <2>1. Resolves(feed.names, feed.shapes, t)
    BY <1>1 DEF KInv, Storing, FeedKept
  <2>2. feed'.shapes = ShapesAfter
    BY DEF MatchConfig
  <2>3. CASE t \in Reshaped
    <3>1. feed'.names[t] = "new"
      BY <2>3 DEF MatchConfig
    <3>2. <<t, "new">> \in ShapesAfter
      BY <2>3 DEF ShapesAfter
    <3> QED
      BY <3>1, <3>2, <2>2 DEF Resolves, Named, None
  <2>4. CASE t \notin Reshaped
    <3>1. feed'.names[t] = feed.names[t]
      BY <2>4 DEF MatchConfig
    <3>2. \A u \in Reshaped : <<u, feed.names[u]>> # <<t, feed.names[t]>>
      BY <2>4
    <3>3. <<t, feed.names[t]>> \in feed.shapes
      BY <2>1 DEF Resolves, Named
    <3>4. <<t, feed.names[t]>> \in ShapesAfter
      BY <3>2, <3>3 DEF ShapesAfter, Named
    <3> QED
      BY <3>1, <3>4, <2>1, <2>2 DEF Resolves, Named
  <2> QED
    BY <2>3, <2>4
<1>3. Loading'
  BY <1>1 DEF KInv, Loading
<1> QED
  BY <1>1, <1>2, <1>3 DEF KInv, Storing

LEMMA WriteTableKeepsShapes ==
    ASSUME IInv, KInv, WriteTable
    PROVE  KInv'
<1>0. full' = full \/ full' = TRUE
  BY DEF WriteTable
<1>a. /\ UNCHANGED <<opt, feed, start, ret, pc>> /\ pc = "write" /\ at' = at + 1
      /\ at \in 1..13
  BY TablesSequence DEF WriteTable, Writing, IInv, Shape
<1>b. ~full' => ~full
  BY <1>0, Zenon
<1>1. /\ UNCHANGED <<opt, feed, start, ret, pc>> /\ pc = "write" /\ at' = at + 1
      /\ at \in 1..13 /\ (~full' => ~full)
  BY <1>a, <1>b
<1>2. FeedKept' = FeedKept
  BY <1>1 DEF FeedKept, Resolves, Named
<1>3. OutDir' = OutDir /\ OutDir \in Dirs
  BY <1>1 DEF OutDir, Dirs
<1>4. DOMAIN names' = Dirs /\ DOMAIN stored' = Dirs
  BY DEF WriteTable, KInv, Storing
<1>5. (Tables[at] = "trips" <=> at = 4) /\ (Tables[at] = "shapes" <=> at = 8)
  BY <1>1 DEF Tables
<1>6. ~full' /\ at >= 4 => NamesWritten'
  <2> SUFFICES ASSUME ~full', at >= 4 PROVE NamesWritten'
    OBVIOUS
  <2>1. CASE at = 4
    BY <2>1, <1>1, <1>3, <1>5 DEF WriteTable, NamesWritten, KInv, Storing
  <2>2. CASE at # 4
    <3>1. NamesWritten /\ names' = names
      BY <2>2, <1>1, <1>5 DEF KInv, Storing, WriteTable
    <3> QED
      BY <3>1, <1>1, <1>3 DEF NamesWritten
  <2> QED
    BY <2>1, <2>2
<1>7. ~full' /\ at >= 8 => ShapesWritten'
  <2> SUFFICES ASSUME ~full', at >= 8, NEW t \in Types,
                      <<t, feed.names[t]>> \in feed.shapes
               PROVE  <<t, feed.names[t]>> \in stored'[OutDir]
    BY <1>1, <1>3 DEF ShapesWritten, Named
  <2>1. CASE at = 8
    <3>1. stored'[OutDir] = {s \in feed.shapes : s[1] \in Types}
      BY <2>1, <1>3, <1>5 DEF WriteTable, KInv, Storing
    <3> QED
      BY <3>1
  <2>2. CASE at # 8
    BY <2>2, <1>1, <1>5 DEF KInv, Storing, WriteTable, ShapesWritten, Named
  <2> QED
    BY <2>1, <2>2
<1>8. Loading'
  BY <1>1 DEF Loading
<1>9. Storing'
  BY <1>1, <1>2, <1>4, <1>6, <1>7 DEF KInv, Storing
<1> QED
  BY <1>8, <1>9 DEF KInv

\* Steps that leave the shapes alone.
LEMMA MoveKeepsShapes ==
    ASSUME IInv, KInv,
           StartReading \/ NothingToRead \/ StartMatching \/ SkipConfig
           \/ StartWriting \/ SkipTable
    PROVE  KInv'
<1> USE DEF KInv
<1>1. Still /\ ret' = ret
  BY DEF StartReading, NothingToRead, StartMatching, SkipConfig,
         StartWriting, SkipTable, Still, diskVars
<1>2. CASE StartReading \/ NothingToRead
  <2>1. pc = "args" /\ pc' \in {"read", "mode"} /\ UNCHANGED <<at, feedAt>>
        /\ (pc' = "mode" => opt.feeds = 0)
    BY <1>2 DEF StartReading, NothingToRead, Accepted
  <2>2. at = 1 /\ feedAt = 1
    BY <2>1 DEF IInv, Shape
  <2> QED
    BY <2>1, <2>2, <1>1 DEF Loading, Storing, Still
<1>3. CASE StartMatching
  <2>1. pc = "mode" /\ pc' = "match" /\ opt.feeds > 0
    BY <1>3 DEF StartMatching, TripChecked, HasInput
  <2>2. opt.evaluate => FeedKept
    BY <2>1 DEF Loading, NamesLoaded, ShapesLoaded, FeedKept
  <2> QED
    BY <2>1, <2>2, <1>1, StillKeeps DEF Loading, Storing, Still
<1>4. CASE SkipConfig
  BY <1>4, <1>1, StillKeeps DEF SkipConfig, InMatching, Loading, Storing, Still
<1>5. CASE StartWriting
  BY <1>5, <1>1, StillKeeps DEF StartWriting, Loading, Storing, Still
<1>6. CASE SkipTable
  <2>1. pc = "write" /\ pc' = "write" /\ at' = at + 1 /\ at \in 1..13
    BY <1>6, TablesSequence DEF SkipTable, Writing, IInv, Shape
  <2>2. at # 4 /\ at # 8
    BY <1>6, <2>1 DEF SkipTable, Implemented, Tables
  <2> QED
    BY <2>1, <2>2, <1>1, StillKeeps DEF Loading, Storing, Still
<1> QED
  BY <1>2, <1>3, <1>4, <1>5, <1>6

\* The feed in memory was written completely.
LEMMA FeedWrittenKeepsShapes ==
    ASSUME IInv, KInv, FeedWritten
    PROVE  KInv'
<1>1. Still /\ pc = "write" /\ pc' = "end" /\ at = 14
  BY TablesSequence DEF FeedWritten, Refuse, Return, Still, diskVars
<1>2. ~full /\ opt.evaluate => FeedKept /\ NamesWritten /\ ShapesWritten
  BY <1>1 DEF KInv, Storing
<1>3. ~full /\ opt.evaluate => \A t \in Types : ShapeKept(t)
  BY <1>2 DEF FeedKept, NamesWritten, ShapesWritten, ShapeKept, Resolves, Named
<1>4. (\A t \in Types : ShapeKept(t)) => (\A t \in Types : ShapeKept(t))'
  BY <1>1 DEF Still, ShapeKept, Resolves, Named, OutDir
<1>5. ReadShapesKept'
  BY <1>1, <1>3, <1>4 DEF Still, ReadShapesKept
<1> QED
  BY <1>1, <1>5 DEF KInv, Loading, Storing, Still

LEMMA NextKeepsShapes == IInv /\ KInv /\ [Next]_vars => KInv'
<1> SUFFICES ASSUME IInv, KInv, [Next]_vars PROVE KInv'
  OBVIOUS
<1>1. CASE CheckOsm \/ CheckMotCfgs \/ CheckFeeds \/ RefuseTable \/ KilledByTable
  BY <1>1, RefuseKeepsShapes
     DEF CheckOsm, CheckMotCfgs, CheckFeeds, RefuseTable, KilledByTable
<1>2. CASE CheckTrip \/ WriteOsm \/ WriteOverpass \/ CheckInput \/ MatchDies
  BY <1>2, RefuseKeepsShapes
     DEF CheckTrip, WriteOsm, WriteOverpass, CheckInput, MatchDies, Filter
<1>3. CASE CannotOpen \/ FailAtTable
  BY <1>3, RefuseKeepsShapes DEF CannotOpen, FailAtTable
<1>4. CASE FeedWritten
  BY <1>4, FeedWrittenKeepsShapes
<1>5. CASE WritePath
  <2>1. Still /\ pc' = "end" /\ path'
    BY <1>5 DEF WritePath, Return, Still, diskVars
  <2>2. ReadShapesKept'
    BY <2>1 DEF ReadShapesKept, WroteFeed
  <2> QED
    BY <2>1, <2>2 DEF KInv, Loading, Storing, Still
<1>6. CASE ReadTable
  BY <1>6, ReadTableKeepsShapes
<1>7. CASE WriteTable
  BY <1>7, WriteTableKeepsShapes
<1>8. CASE MatchConfig
  BY <1>8, MatchKeepsShapes
<1>9. CASE StartReading \/ NothingToRead \/ StartMatching \/ SkipConfig
           \/ StartWriting \/ SkipTable
  BY <1>9, MoveKeepsShapes
<1>10. CASE RunAgain
  <2>1. pc' = "args" /\ ret' = None /\ names' = names /\ stored' = stored
    BY <1>10 DEF RunAgain, diskVars
  <2>2. start'.names = names' /\ start'.stored = stored'
    BY <1>10, <2>1 DEF RunAgain, Snapshot
  <2> QED
    BY <2>1, <2>2 DEF KInv, Loading, Storing
<1>11. CASE Ended \/ UNCHANGED vars
  <2>1. UNCHANGED vars
    BY <1>11 DEF Ended
  <2>2. Still /\ UNCHANGED <<pc, at, feedAt, ret, path>>
    BY <2>1 DEF vars, Still
  <2>3. ReadShapesKept' = ReadShapesKept
    BY <2>2 DEF Still, ReadShapesKept, WroteFeed, Filter, ShapeKept, Resolves,
                Named, OutDir
  <2> QED
    BY <2>2, <2>3, StillKeeps DEF KInv, Loading, Storing, Still
<1> QED
  BY <1>1, <1>2, <1>3, <1>4, <1>5, <1>6, <1>7, <1>8, <1>9, <1>10, <1>11 DEF Next

\* For all constants: when shapes.txt is read, no trip loses its shape between
\* the input and a completely written output (reader, matching, writer).
THEOREM ReadShapesKeptThm == Spec => []ReadShapesKept
<1>1. KInv => ReadShapesKept
  <2> SUFFICES ASSUME KInv, pc # "end" PROVE ReadShapesKept
    BY DEF KInv, Storing
  <2>1. ret = None
    BY DEF KInv, Storing
  <2> QED
    BY <2>1 DEF ReadShapesKept, WroteFeed, None
<1> QED
  BY <1>1, InitIInv, NextKeeps, InitKInv, NextKeepsShapes, PTL DEF Spec
-----------------------------------------------------------------------------
(* What a run that returns SUCCESS has written.                            *)

\* The given trip is of a type that the configuration k handles
ForTrip(k) == opt.trip \in opt.cfgs[k] \cap opt.mots

\* Each table before the one that is written now is in the output directory,
\* and each configuration before the one that is matched now was skipped when
\* a trip was given; a run that is over keeps its promises.
Output ==
    /\ \A d \in Dirs : DOMAIN files[d] = Range(Tables)
    /\ pc # "end" => ret = None /\ ~path
    /\ pc = "match" => at \in 1..(Len(opt.cfgs) + 1)
    /\ pc = "match" /\ opt.trip # None => \A k \in 1..(at - 1) : ~ForTrip(k)
    /\ pc = "write" /\ opt.trip # None => \A k \in DOMAIN opt.cfgs : ~ForTrip(k)
    /\ pc = "write" =>
         \A k \in 1..(at - 1) : Tables[k] \in Implemented =>
             files[OutDir][Tables[k]] \in {Written, Cut}
    /\ pc = "end" => SuccessMeansWritten /\ SingleTripOutputsPath

LEMMA CfgsSequence ==
    \A o \in Options : Len(o.cfgs) \in Nat /\ DOMAIN o.cfgs = 1..Len(o.cfgs)
BY AppAssumption DEF OptionRecord

LEMMA InitOutput == Init => Output
<1> SUFFICES ASSUME Init PROVE Output
  OBVIOUS
<1>1. \A d \in Dirs : DOMAIN files[d] = Range(Tables)
  <2>1. PICK disk \in InputDisks[opt] :
           files = [d \in Dirs |->
                CASE d = "in1" -> disk
                  [] d = "in2" -> [t \in Range(Tables) |-> Good]
                  [] d = "out" -> [t \in Range(Tables) |-> Absent]]
    BY DEF Init
  <2>2. DOMAIN disk = Range(Tables)
    <3>1. opt \in Options
      BY DEF Init
    <3>2. InputDisks[opt] \subseteq [Range(Tables) -> Content]
      BY <3>1, AppAssumption
    <3> QED BY <3>2
  <2> QED BY <2>1, <2>2 DEF Dirs
<1>2. pc = "args" /\ ret = None /\ path = FALSE
  BY DEF Init
<1> QED BY <1>1, <1>2 DEF Output

\* A run that ends without SUCCESS, or in a filter mode, promises no output.
LEMMA RefuseKeepsOutput ==
    ASSUME Output, NEW code, Refuse(code), code # "SUCCESS" \/ Filter
    PROVE  Output'
<1>1. UNCHANGED <<opt, files>> /\ pc' = "end" /\ ret' = code
  BY DEF Refuse, Return, diskVars
<1>2. Filter' = Filter
  BY <1>1 DEF Filter
<1>3. SuccessMeansWritten' /\ SingleTripOutputsPath'
  BY <1>1, <1>2 DEF SuccessMeansWritten, SingleTripOutputsPath, WroteFeed
<1> QED BY <1>1, <1>3 DEF Output

LEMMA WriteTableKeepsOutput ==
    ASSUME IInv, Output, WriteTable
    PROVE  Output'
<1>1. /\ UNCHANGED <<opt, path, ret, pc>> /\ pc = "write" /\ at' = at + 1 /\ at \in 1..13
  BY TablesSequence DEF WriteTable, Writing, IInv, Shape
<1>2. OutDir' = OutDir /\ OutDir \in Dirs /\ DOMAIN files = Dirs
  BY <1>1 DEF OutDir, Dirs, IInv, Shape
<1>3. Tables[at] \in Range(Tables) /\ DOMAIN files[OutDir] = Range(Tables)
  BY <1>1, <1>2, TablesSequence DEF Output
<1>4. PICK c \in {Written, Cut} : files' = [files EXCEPT ![OutDir][Tables[at]] = c]
  BY DEF WriteTable
<1>5. \A d \in Dirs : DOMAIN files'[d] = Range(Tables)
  BY <1>2, <1>4 DEF Output
<1>6. \A t \in Range(Tables) :
         files'[OutDir][t] = IF t = Tables[at] THEN c ELSE files[OutDir][t]
  BY <1>2, <1>3, <1>4
<1>7. ASSUME NEW k \in 1..at, Tables[k] \in Implemented
      PROVE  files'[OutDir][Tables[k]] \in {Written, Cut}
  <2>1. Tables[k] \in Range(Tables)
    BY <1>1, TablesSequence
  <2>2. CASE k = at
    BY <1>6, <2>1, <2>2
  <2>3. CASE k # at
    <3>1. k \in 1..(at - 1)
      BY <1>1, <2>3
    <3>2. files[OutDir][Tables[k]] \in {Written, Cut}
      BY <1>1, <1>7, <3>1 DEF Output
    <3> QED BY <1>6, <2>1, <3>2
  <2> QED BY <2>2, <2>3
<1>8. (at + 1) - 1 = at
  BY <1>1
<1> QED BY <1>1, <1>2, <1>5, <1>7, <1>8 DEF Output, ForTrip

\* The loop over the configurations, and the tables without a writer
LEMMA MoveKeepsOutput ==
    ASSUME IInv, Output,
           StartReading \/ NothingToRead \/ ReadTable \/ StartMatching \/ SkipConfig
           \/ MatchConfig \/ StartWriting \/ SkipTable
    PROVE  Output'
<1>1. UNCHANGED <<opt, files, ret, path>> /\ pc # "end" /\ pc' # "end"
  BY DEF StartReading, NothingToRead, ReadTable, NextTable, StartMatching, SkipConfig,
         MatchConfig, StartWriting, SkipTable, diskVars, Accepted, TripChecked,
         InMatching, Writing
<1>2. opt \in Options /\ Len(opt.cfgs) \in Nat /\ DOMAIN opt.cfgs = 1..Len(opt.cfgs)
  BY CfgsSequence DEF IInv, Shape
<1>3. OutDir' = OutDir
  BY <1>1 DEF OutDir
<1>4. CASE StartReading \/ NothingToRead \/ ReadTable
  <2>1. pc' \in {"read", "mode"}
    BY <1>4 DEF StartReading, NothingToRead, ReadTable, NextTable
  <2> QED BY <1>1, <2>1 DEF Output
<1>5. CASE StartMatching
  <2>1. pc' = "match" /\ at' = 1 /\ 1..(1 - 1) = {} /\ 1 \in 1..(Len(opt.cfgs) + 1)
    BY <1>2, <1>5 DEF StartMatching
  <2> QED BY <1>1, <2>1 DEF Output
<1>6. CASE SkipConfig \/ MatchConfig
  <2>1. /\ pc = "match" /\ pc' = "match" /\ at' = at + 1 /\ at <= Len(opt.cfgs)
        /\ at \in 1..(Len(opt.cfgs) + 1) /\ (opt.trip # None => ~ForTrip(at))
    BY <1>6 DEF SkipConfig, MatchConfig, InMatching, Output, NotForConfig, UsedMots, ForTrip
  <2>2. at + 1 \in 1..(Len(opt.cfgs) + 1) /\ (at + 1) - 1 = at
    BY <1>2, <2>1
  <2>3. opt.trip # None => \A k \in 1..at : ~ForTrip(k)
    <3> SUFFICES ASSUME opt.trip # None, NEW k \in 1..at PROVE ~ForTrip(k)
      OBVIOUS
    <3>1. k = at \/ k \in 1..(at - 1)
      BY <2>1
    <3> QED BY <2>1, <3>1 DEF Output
  <2> QED BY <1>1, <2>1, <2>2, <2>3 DEF Output, ForTrip
<1>7. CASE StartWriting
  <2>1. /\ pc = "match" /\ at = Len(opt.cfgs) + 1 /\ pc' = "write" /\ at' = 1
        /\ 1..(1 - 1) = {} /\ at - 1 = Len(opt.cfgs)
    BY <1>2, <1>7 DEF StartWriting
  <2> QED BY <1>1, <1>2, <2>1 DEF Output, ForTrip
<1>8. CASE SkipTable
  <2>1. /\ pc = "write" /\ pc' = "write" /\ at' = at + 1 /\ at \in 1..13
        /\ Tables[at] \notin Implemented
    BY <1>8, TablesSequence DEF SkipTable, Writing, IInv, Shape
  <2>2. (at + 1) - 1 = at
    BY <2>1
  <2>3. ASSUME NEW k \in 1..at, Tables[k] \in Implemented
        PROVE  files[OutDir][Tables[k]] \in {Written, Cut}
    <3>1. k \in 1..(at - 1)
      BY <2>1, <2>3
    <3> QED BY <2>1, <2>3, <3>1 DEF Output
  <2> QED BY <1>1, <1>3, <2>1, <2>2, <2>3 DEF Output, ForTrip
<1> QED BY <1>4, <1>5, <1>6, <1>7, <1>8

\* The two ends of the matching mode: path.json, or all tables
LEMMA EndKeepsOutput ==
    ASSUME IInv, Output, WritePath \/ FeedWritten
    PROVE  Output'
<1>1. UNCHANGED <<opt, files, start>> /\ pc' = "end" /\ pc \in {"match", "write"} /\ ~Filter
  BY DEF WritePath, FeedWritten, Refuse, Return, diskVars, InMatching, IInv, Progress,
         MatchingRun
<1>2. opt \in Options /\ Len(opt.cfgs) \in Nat /\ DOMAIN opt.cfgs = 1..Len(opt.cfgs)
  BY CfgsSequence DEF IInv, Shape
<1>3. CASE WritePath
  <2>1. pc = "match" /\ path' = TRUE /\ opt.trip # None
    BY <1>3 DEF WritePath, InMatching
  <2>2. ForTrip(at) /\ at \in DOMAIN opt.cfgs
    <3>1. at <= Len(opt.cfgs) /\ opt.trip \in UsedMots
      BY <1>3 DEF WritePath, InMatching, NotForConfig
    <3> QED BY <1>2, <2>1, <3>1 DEF Output, UsedMots, ForTrip
  <2>3. files = start.files
    BY <2>1 DEF IInv, Progress
  <2>4. SuccessMeansWritten' /\ SingleTripOutputsPath'
    BY <1>1, <2>1, <2>2, <2>3 DEF SuccessMeansWritten, SingleTripOutputsPath, WroteFeed, ForTrip
  <2> QED BY <1>1, <2>4 DEF Output
<1>4. CASE FeedWritten
  <2>1. pc = "write" /\ at = 14 /\ path' = path /\ ~path
    BY <1>4, TablesSequence DEF FeedWritten, Refuse, Output
  <2>2. \A t \in Implemented : files[OutDir][t] \in {Written, Cut}
    <3> SUFFICES ASSUME NEW t \in Implemented PROVE files[OutDir][t] \in {Written, Cut}
      OBVIOUS
    <3>1. PICK k \in 1..(at - 1) : t = Tables[k]
      BY <2>1 DEF Implemented, Tables
    <3> QED BY <2>1, <3>1 DEF Output
  <2>3. OutDir' = OutDir
    BY <1>1 DEF OutDir
  <2>4. SuccessMeansWritten'
    BY <1>1, <2>2, <2>3 DEF SuccessMeansWritten
  <2>5. SingleTripOutputsPath'
    BY <1>1, <2>1, <2>4 DEF SingleTripOutputsPath, Output, ForTrip
  <2> QED BY <1>1, <2>4, <2>5 DEF Output
<1> QED BY <1>3, <1>4

LEMMA NextKeepsOutput == IInv /\ Output /\ [Next]_vars => Output'
<1> SUFFICES ASSUME IInv, Output, [Next]_vars PROVE Output'
  OBVIOUS
<1>1. CASE CheckOsm \/ CheckMotCfgs \/ CheckFeeds \/ RefuseTable \/ KilledByTable
  BY <1>1, RefuseKeepsOutput
     DEF CheckOsm, CheckMotCfgs, CheckFeeds, RefuseTable, KilledByTable
<1>2. CASE CheckTrip \/ WriteOsm \/ WriteOverpass \/ CheckInput \/ MatchDies
  BY <1>2, RefuseKeepsOutput
     DEF CheckTrip, WriteOsm, WriteOverpass, CheckInput, MatchDies, Filter
<1>3. CASE CannotOpen \/ FailAtTable
  BY <1>3, RefuseKeepsOutput DEF CannotOpen, FailAtTable
<1>4. CASE WritePath \/ FeedWritten
  BY <1>4, EndKeepsOutput
<1>5. CASE StartReading \/ NothingToRead \/ ReadTable \/ StartMatching \/ SkipConfig
           \/ MatchConfig \/ StartWriting \/ SkipTable
  BY <1>5, MoveKeepsOutput
<1>6. CASE WriteTable
  BY <1>6, WriteTableKeepsOutput
<1>7. CASE RunAgain
  <2>1. pc' = "args" /\ ret' = None /\ path' = FALSE /\ files' = files
    BY <1>7 DEF RunAgain, diskVars
  <2> QED BY <2>1 DEF Output
<1>8. CASE Ended \/ UNCHANGED vars
  <2>1. UNCHANGED vars
    BY <1>8 DEF Ended
  <2>2. SuccessMeansWritten' = SuccessMeansWritten
    BY <2>1 DEF vars, SuccessMeansWritten, WroteFeed, Filter, OutDir
  <2>3. SingleTripOutputsPath' = SingleTripOutputsPath
    BY <2>1, <2>2 DEF vars, SingleTripOutputsPath, Filter
  <2> QED BY <2>1, <2>2, <2>3 DEF vars, Output, ForTrip, OutDir
<1> QED
  BY <1>1, <1>2, <1>3, <1>4, <1>5, <1>6, <1>7, <1>8 DEF Next

LEMMA OutputInvariant == Spec => []Output
BY InitIInv, NextKeeps, InitOutput, NextKeepsOutput, PTL DEF Spec

\* For all constants: SUCCESS of a matching run means that feed_writter::write
\* has been through every table that has a writer, in its output directory.
THEOREM SuccessMeansWrittenThm == Spec => []SuccessMeansWritten
<1>1. Output => SuccessMeansWritten
  BY DEF Output, SuccessMeansWritten, WroteFeed, None
<1> QED BY <1>1, OutputInvariant, PTL

\* For all constants: a run for a single trip writes path.json and no table
\* when a configuration handles the trip, and otherwise the whole feed.
THEOREM SingleTripOutputsPathThm == Spec => []SingleTripOutputsPath
<1>1. Output => SingleTripOutputsPath
  <2> SUFFICES ASSUME Output, pc # "end" PROVE SingleTripOutputsPath
    BY DEF Output
  <2>1. ret = None
    BY DEF Output
  <2> QED BY <2>1 DEF SingleTripOutputsPath, None
<1> QED BY <1>1, OutputInvariant, PTL

=============================================================================
