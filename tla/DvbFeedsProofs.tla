--------------------------- MODULE DvbFeedsProofs ---------------------------
(***************************************************************************)
(* Theorems about DvbFeeds, for every size of the ring, every width of the *)
(* feed counter and every number of feeds it can hold.                     *)
(***************************************************************************)
EXTENDS DvbFeeds, TLAPS

-----------------------------------------------------------------------------
(* The invariants.                                                         *)

Starting == {"reset", "index", "enable", "unmask", "go"}
Stopping == {"mask", "halt", "ungo"}

\* The feeds the adapter has counted: those of the demux, and the one of the
\* call in progress.
Counted == IF feedop \in Starting THEN filtering + 1
           ELSE IF feedop \in Stopping THEN filtering - 1 ELSE filtering

\* The counter is theirs modulo its width; the first one in and the last one out
\* are recognised although the counter may have wrapped in between.
CountInv ==
  /\ Counted \in 0 .. MaxFeeds
  /\ feeds = IF Counted = FeedWrap THEN 0 ELSE Counted

\* What is switched on at each step of a feed operation.
CtlInv ==
  /\ feedop \in {"reset", "index", "enable"} =>
       ~capturing /\ ~msi_enabled /\ filtering = 0
  /\ feedop \in {"index", "enable"} => ~failed
  /\ feedop = "unmask" => capturing /\ ~msi_enabled /\ ~failed
  /\ feedop = "go" => (capturing <=> msi_enabled) /\ (capturing <=> ~failed)
  /\ feedop = "mask" =>
       (capturing <=> msi_enabled) /\ (capturing <=> ~failed) /\ filtering = 1
  /\ feedop = "halt" => ~msi_enabled /\ filtering = 1
  /\ feedop = "ungo" =>
       (capturing <=> msi_enabled) /\ (capturing <=> filtering > 1 /\ ~failed)

FeedInv == TypeOK /\ CountInv /\ CtlInv /\ EngineFollowsFeeds

\* The number of places from slot i to slot j.
Dist(i, j) == IF j >= i THEN j - i ELSE j - i + FGPI_BUFFERS

\* The worker has handed the block at read_index over and not yet moved on.
Handed == tasklet \in {"advance", "store"}

\* The slots from read_index up to the engine's hold fresh blocks, the others
\* old ones; the worker's limit lies between them.
Ring ==
  /\ \A i \in Index :
       block[i] = IF Dist(read_index, i) < Dist(read_index, bam_index)
                     /\ ~(Handed /\ i = read_index)
                  THEN "fresh" ELSE "old"
  /\ tasklet # "idle" =>
       Dist(read_index, write_index) <= Dist(read_index, bam_index)
  /\ tasklet \in {"body", "advance", "store"} => write_index # read_index
  /\ tasklet = "store" => next_index = Inc(read_index)

\* It holds but for the moment in which the engine is back at the first slot and
\* the worker's index is not.
RingInv ==
  ~overrun /\ ~stray /\ ~failed =>
    IF feedop = "index"
    THEN bam_index = 0 /\ \A i \in Index : block[i] = "old"
    ELSE Ring

-----------------------------------------------------------------------------
(* Types and feeds.                                                        *)

\* The first slot, and the one after each, are slots of the ring.
LEMMA RingType ==
  /\ 0 \in Index
  /\ \A i \in Index : Inc(i) \in Index
BY FgpiBuffersAssumption DEF Index, Inc

\* The counter's arithmetic.
LEMMA UpDown ==
  ASSUME NEW n \in 0 .. FeedWrap - 1
  PROVE  /\ (n + 1) % FeedWrap = IF n + 1 = FeedWrap THEN 0 ELSE n + 1
         /\ (n + FeedWrap - 1) % FeedWrap = IF n = 0 THEN FeedWrap - 1 ELSE n - 1
BY FeedWrapAssumption

\* The flags stay flags.
LEMMA FlagsStep == FlagsOK /\ [Next]_vars => FlagsOK'
<1> SUFFICES ASSUME FlagsOK, [Next]_vars PROVE FlagsOK'
  OBVIOUS
<1> USE DEF FlagsOK, msiVars
<1>1. CASE StartFeed \/ StopFeed
  BY <1>1, Zenon DEF StartFeed, StopFeed
<1>2. CASE ResetChannel \/ ResetIndex \/ Enable \/ Unmask \/ Go
  BY <1>2, Zenon DEF ResetChannel, ResetIndex, Enable, Unmask, Go
<1>3. CASE Mask \/ Halt \/ Ungo
  BY <1>3, Zenon DEF Mask, Halt, Ungo
<1>4. CASE IrqHandler \/ TaskletStart \/ EngineBlock
  BY <1>4, Zenon DEF IrqHandler, TaskletStart, EngineBlock
<1>5. CASE Worker
  BY <1>5, Zenon DEF Worker, WorkerTest, WorkerFilter, WorkerLoad, WorkerStore
<1>6. CASE UNCHANGED vars
  BY <1>6, Zenon DEF vars
<1> QED
  BY <1>1, <1>2, <1>3, <1>4, <1>5, <1>6, Zenon DEF Next, FeedStep

\* No feed runs at the start.
LEMMA FeedInit == Init => FeedInv
<1> SUFFICES ASSUME Init PROVE FeedInv
  OBVIOUS
<1>1. DataOK
  BY RingType, FeedWrapAssumption, MaxFeedsAssumption
     DEF Init, DataOK, FeedSteps, TaskletStates, Blocks
<1>2. FlagsOK
  BY Zenon DEF Init, FlagsOK
<1>3. CountInv /\ CtlInv
  BY FeedWrapAssumption, MaxFeedsAssumption
     DEF Init, CountInv, Counted, Starting, Stopping, CtlInv
<1>4. EngineFollowsFeeds
  BY DEF Init, EngineFollowsFeeds
<1> QED
  BY <1>1, <1>2, <1>3, <1>4 DEF FeedInv, TypeOK

\* The feed operations keep the types, the count, and what is switched on.
LEMMA FeedOps ==
  ASSUME FeedInv, StartFeed \/ StopFeed \/ FeedStep
  PROVE  DataOK' /\ CountInv' /\ CtlInv' /\ EngineFollowsFeeds'
<1> USE FeedWrapAssumption, MaxFeedsAssumption, RingType
    DEF FeedInv, TypeOK, DataOK, CountInv, CtlInv, EngineFollowsFeeds, Counted,
        Starting, Stopping, FeedSteps, TaskletStates, Blocks, feedVars,
        taskletVars, msiVars
<1>1. CASE StartFeed
  BY <1>1, UpDown DEF StartFeed
<1>2. CASE StopFeed
  BY <1>2, UpDown DEF StopFeed
<1>3. CASE ResetChannel
  BY <1>3 DEF ResetChannel
<1>4. CASE ResetIndex
  BY <1>4 DEF ResetIndex
<1>5. CASE Enable
  BY <1>5 DEF Enable
<1>6. CASE Unmask
  BY <1>6 DEF Unmask
<1>7. CASE Go
  BY <1>7 DEF Go
<1>8. CASE Mask
  BY <1>8 DEF Mask
<1>9. CASE Halt
  BY <1>9 DEF Halt
<1>10. CASE Ungo
  BY <1>10 DEF Ungo
<1> QED
  BY <1>1, <1>2, <1>3, <1>4, <1>5, <1>6, <1>7, <1>8, <1>9, <1>10 DEF FeedStep

\* The interrupt, the tasklet and the engine have no part in them.
LEMMA FeedOthers ==
  ASSUME FeedInv, IrqHandler \/ TaskletStart \/ Worker \/ EngineBlock
  PROVE  DataOK' /\ CountInv' /\ CtlInv' /\ EngineFollowsFeeds'
<1>1. DataOK'
  <2> USE RingType
      DEF FeedInv, TypeOK, DataOK, TaskletStates, Blocks, feedVars,
          taskletVars, msiVars
  <2>1. CASE IrqHandler
    BY <2>1 DEF IrqHandler
  <2>2. CASE TaskletStart
    BY <2>2 DEF TaskletStart
  <2>3. CASE Worker
    BY <2>3 DEF Worker, WorkerTest, WorkerFilter, WorkerLoad, WorkerStore
  <2>4. CASE EngineBlock
    BY <2>4 DEF EngineBlock
  <2> QED
    BY <2>1, <2>2, <2>3, <2>4
<1>2. UNCHANGED <<filtering, feeds, feedop, capturing, msi_enabled, failed>>
  BY Zenon DEF IrqHandler, TaskletStart, Worker, WorkerTest, WorkerFilter,
               WorkerLoad, WorkerStore, EngineBlock, feedVars, msiVars
<1> QED
  BY <1>1, <1>2
     DEF FeedInv, CountInv, Counted, CtlInv, EngineFollowsFeeds

\* Starting and stopping feeds keeps the count and the engine together.
LEMMA FeedStepInv == FeedInv /\ [Next]_vars => FeedInv'
<1> SUFFICES ASSUME FeedInv, [Next]_vars PROVE FeedInv'
  OBVIOUS
<1>1. FlagsOK'
  BY FlagsStep DEF FeedInv, TypeOK
<1>2. CASE Next
  BY <1>1, <1>2, FeedOps, FeedOthers DEF Next, FeedInv, TypeOK
<1>3. CASE UNCHANGED vars
  BY <1>1, <1>3
     DEF vars, FeedInv, TypeOK, DataOK, CountInv, Counted, CtlInv,
         EngineFollowsFeeds
<1> QED
  BY <1>2, <1>3

\* Type correctness of the feeds, the engine and the worker (TypeOK).
THEOREM TypeCorrect == Spec => []TypeOK
<1>1. FeedInv => TypeOK
  BY DEF FeedInv
<1> QED
  BY <1>1, FeedInit, FeedStepInv, PTL DEF Spec

\* The engine runs exactly while there are feeds (EngineFollowsFeeds), whatever
\* the width of the counter, if it has as many values as there can be feeds.
THEOREM EngineOnDemand == Spec => []EngineFollowsFeeds
<1>1. FeedInv => EngineFollowsFeeds
  BY DEF FeedInv
<1> QED
  BY <1>1, FeedInit, FeedStepInv, PTL DEF Spec

-----------------------------------------------------------------------------
(* The ring.                                                               *)

\* How distances change when one end moves by a slot.
LEMMA DistStep ==
  ASSUME NEW i \in Index, NEW j \in Index
  PROVE  /\ Dist(i, j) \in Index
         /\ Dist(i, j) = 0 <=> i = j
         /\ Inc(j) # i => Dist(i, Inc(j)) = Dist(i, j) + 1
         /\ i # j => Dist(Inc(i), j) = Dist(i, j) - 1
BY FgpiBuffersAssumption DEF Index, Dist, Inc

\* Two slots at the same distance from a third are one.
LEMMA DistInjective ==
  ASSUME NEW i \in Index, NEW j \in Index, NEW k \in Index,
         Dist(i, j) = Dist(i, k)
  PROVE  j = k
BY FgpiBuffersAssumption DEF Index, Dist

\* No slot is nearer to a slot than the slot itself.
LEMMA DistNone ==
  ASSUME NEW i \in Index, NEW j \in Index
  PROVE  ~(Dist(i, j) < Dist(i, i)) /\ Dist(i, i) <= Dist(i, i)
BY FgpiBuffersAssumption DEF Index, Dist

\* Distances as numbers.
LEMMA DistNumber ==
  \A i, j \in Index : /\ Dist(i, j) \in Int
                      /\ 0 <= Dist(i, j)
                      /\ Dist(i, j) = 0 <=> i = j
BY FgpiBuffersAssumption DEF Index, Dist

\* The rings start empty.
LEMMA RingInit == Init => RingInv
<1> SUFFICES ASSUME Init PROVE RingInv
  OBVIOUS
<1>1. /\ read_index = 0 /\ bam_index = 0 /\ tasklet = "idle"
      /\ feedop # "index"
      /\ \A i \in Index : block[i] = "old"
  BY DEF Init
<1> QED
  BY <1>1, RingType, DistNone DEF RingInv, Ring, Handed

\* A step that leaves the worker, the engine and the blocks alone.
LEMMA RingFrame ==
  ASSUME Ring, UNCHANGED <<block, read_index, write_index, next_index, tasklet,
                           bam_index>>
  PROVE  Ring'
BY DEF Ring, Handed

\* The feed operations keep the ring.
LEMMA RingFeeds ==
  ASSUME FeedInv, RingInv, StartFeed \/ StopFeed \/ FeedStep
  PROVE  RingInv'
<1> USE DEF FeedInv, TypeOK, DataOK
<1>1. CASE ResetChannel
  BY <1>1 DEF ResetChannel, RingInv
<1>2. CASE ResetIndex
  <2> SUFFICES ASSUME ~overrun', ~stray', ~failed' PROVE Ring'
    BY <1>2 DEF ResetIndex, RingInv
  <2>1. /\ tasklet' = "idle" /\ read_index' = 0 /\ bam_index' = 0
        /\ block' = block /\ \A i \in Index : block[i] = "old"
    BY <1>2 DEF ResetIndex, RingInv, taskletVars
  <2> QED
    BY <2>1, RingType, DistNone DEF Ring, Handed
<1>3. CASE StartFeed \/ StopFeed \/ Enable \/ Unmask \/ Go \/ Mask \/ Halt \/ Ungo
  <2>1. /\ UNCHANGED <<block, read_index, write_index, next_index, tasklet,
                       bam_index, overrun, stray>>
        /\ failed => failed'
        /\ feedop # "index" /\ feedop' # "index"
    BY <1>3 DEF StartFeed, StopFeed, Enable, Unmask, Go, Mask, Halt, Ungo,
                taskletVars
  <2> QED
    BY <2>1, RingFrame DEF RingInv
<1> QED
  BY <1>1, <1>2, <1>3 DEF FeedStep

\* The worker and the engine keep the ring.
LEMMA RingMoves ==
  ASSUME FeedInv, Ring, ~overrun', ~stray', ~failed',
         TaskletStart \/ Worker \/ EngineBlock
  PROVE  Ring'
<1> USE RingType DEF FeedInv, TypeOK, DataOK
<1>i. read_index \in Index /\ write_index \in Index /\ bam_index \in Index
  OBVIOUS
<1>d. /\ Dist(read_index, bam_index) \in Int
      /\ Dist(read_index, write_index) \in Int
      /\ Dist(read_index, bam_index) = 0 <=> read_index = bam_index
      /\ Dist(read_index, write_index) = 0 <=> read_index = write_index
      /\ 0 <= Dist(read_index, write_index)
      /\ \A i \in Index : Dist(read_index, i) \in Int
  BY <1>i, DistNumber
<1>1. CASE TaskletStart
  <2>1. /\ tasklet = "idle" /\ tasklet' = "test" /\ write_index' = bam_index
        /\ UNCHANGED <<block, read_index, next_index, bam_index>>
    BY <1>1 DEF TaskletStart
  <2>2. Dist(read_index, bam_index) <= Dist(read_index, bam_index)
    BY <1>d
  <2> QED
    BY <2>1, <2>2 DEF Ring, Handed
<1>2. CASE WorkerTest
  BY <1>2 DEF WorkerTest, Ring, Handed
<1>3. CASE WorkerFilter
  <2>1. /\ block' = [block EXCEPT ![read_index] = "old"]
        /\ tasklet = "body" /\ tasklet' = "advance"
        /\ UNCHANGED <<read_index, write_index, next_index, bam_index>>
    BY <1>3 DEF WorkerFilter
  <2>2. ASSUME NEW i \in Index
        PROVE  block'[i] = IF Dist(read_index, i) < Dist(read_index, bam_index)
                              /\ i # read_index
                           THEN "fresh" ELSE "old"
    BY <2>1 DEF Ring, Handed
  <2>3. /\ Dist(read_index, write_index) <= Dist(read_index, bam_index)
        /\ write_index # read_index
    BY <2>1 DEF Ring
  <2> QED
    BY <2>1, <2>2, <2>3 DEF Ring, Handed
<1>4. CASE WorkerLoad
  BY <1>4 DEF WorkerLoad, Ring, Handed
<1>5. CASE WorkerStore
  <2> DEFINE d == Dist(read_index, bam_index)
  <2>1. /\ tasklet = "store" /\ tasklet' = "test"
        /\ read_index' = Inc(read_index) /\ read_index' \in Index
        /\ UNCHANGED <<block, write_index, bam_index>>
    BY <1>5 DEF WorkerStore, Ring
  <2>2. /\ write_index # read_index
        /\ Dist(read_index, write_index) <= d
        /\ \A i \in Index : block[i] = IF Dist(read_index, i) < d /\ i # read_index
                                        THEN "fresh" ELSE "old"
    BY <2>1 DEF Ring, Handed
  <2>3. bam_index # read_index
    BY ONLY <2>2, <1>d
  <2>4. ASSUME NEW i \in Index, i # read_index
        PROVE  Dist(read_index', i) = Dist(read_index, i) - 1
    BY <2>1, <2>4, DistStep
  <2>5. Dist(read_index', read_index) >= d - 1
    BY <2>1, <2>3, <2>4, FgpiBuffersAssumption DEF Index, Dist, Inc
  <2>6. Dist(read_index', bam_index) = d - 1
    BY <1>i, <2>3, <2>4
  <2>7. \A i \in Index : Dist(read_index, i) \in Int
    BY DistStep DEF Index
  <2>8. \A i \in Index : block[i] = IF Dist(read_index', i) < d - 1
                                    THEN "fresh" ELSE "old"
    <3> SUFFICES ASSUME NEW i \in Index
                 PROVE  block[i] = IF Dist(read_index', i) < d - 1
                                   THEN "fresh" ELSE "old"
      OBVIOUS
    <3>1. CASE i = read_index
      <4>1. ~(Dist(read_index', i) < d - 1)
        BY <3>1, <2>1, <2>5, <1>i, <1>d, DistNumber
      <4> QED
        BY <3>1, <4>1, <2>2
    <3>2. CASE i # read_index
      BY <3>2, <2>2, <2>4, <2>7
    <3> QED
      BY <3>1, <3>2
  <2>9. Dist(read_index', write_index) <= d - 1
    BY <2>2, <2>4, <2>7
  <2> QED
    BY <2>1, <2>6, <2>8, <2>9 DEF Ring, Handed
<1>6. CASE EngineBlock
  <2> DEFINE d == Dist(read_index, bam_index)
  <2>1. /\ UNCHANGED <<read_index, write_index, next_index, tasklet>>
        /\ bam_index' = Inc(bam_index)
        /\ Inc(bam_index) # read_index
        /\ block' = [block EXCEPT ![bam_index] =
                        IF @ = "old" THEN "fresh" ELSE "over"]
    BY <1>6, Zenon DEF EngineBlock, taskletVars
  <2>2. d' = d + 1 /\ d \in Int
    BY <2>1, DistStep DEF Index
  <2>3. bam_index = read_index => ~Handed
    BY <1>d DEF Ring, Handed
  <2>4. block[bam_index] = "old"
    BY <2>2 DEF Ring
  <2>5. ASSUME NEW i \in Index
        PROVE  block'[i] = IF Dist(read_index, i) < d + 1
                              /\ ~(Handed /\ i = read_index)
                           THEN "fresh" ELSE "old"
    <3>1. CASE i = bam_index
      BY <3>1, <2>1, <2>2, <2>3, <2>4
    <3>2. CASE i # bam_index
      <4>1. Dist(read_index, i) < d + 1 <=> Dist(read_index, i) < d
        <5>1. Dist(read_index, i) # d
          BY ONLY <3>2, <1>i, DistInjective
        <5> QED
          BY <5>1, <1>d
      <4> QED
        BY <3>2, <4>1, <2>1 DEF Ring
    <3> QED
      BY <3>1, <3>2
  <2>6. tasklet # "idle" => Dist(read_index, write_index) <= d + 1
    BY <1>d DEF Ring
  <2> QED
    BY <2>1, <2>2, <2>5, <2>6 DEF Ring, Handed
<1> QED
  BY <1>1, <1>2, <1>3, <1>4, <1>5, <1>6 DEF Worker

\* While the feed operation is between the reset of the channel and that of the
\* worker's index, the engine is off, and the worker only empties slots.
LEMMA RingReset ==
  ASSUME FeedInv, RingInv, feedop = "index", TaskletStart \/ Worker \/ EngineBlock
  PROVE  RingInv'
<1>1. ~capturing
  BY DEF FeedInv, CtlInv
<1>2. UNCHANGED <<feedop, bam_index, overrun, stray, failed>>
  BY <1>1, Zenon
     DEF TaskletStart, Worker, WorkerTest, WorkerFilter, WorkerLoad,
         WorkerStore, EngineBlock, feedVars, msiVars
<1>3. \/ block' = block
      \/ block' = [block EXCEPT ![read_index] = "old"]
  BY <1>1, Zenon
     DEF TaskletStart, Worker, WorkerTest, WorkerFilter, WorkerLoad,
         WorkerStore, EngineBlock, feedVars, msiVars
<1> SUFFICES ASSUME ~overrun, ~stray, ~failed, NEW i \in Index
             PROVE  bam_index' = 0 /\ block'[i] = "old"
  BY <1>2 DEF RingInv
<1> QED
  BY <1>2, <1>3 DEF RingInv, FeedInv, TypeOK, DataOK

\* Each step keeps the ring's invariant.
LEMMA RingStep == FeedInv /\ RingInv /\ [Next]_vars => RingInv'
<1> SUFFICES ASSUME FeedInv, RingInv, [Next]_vars PROVE RingInv'
  OBVIOUS
<1>1. CASE StartFeed \/ StopFeed \/ FeedStep
  BY <1>1, RingFeeds
<1>2. CASE IrqHandler \/ UNCHANGED vars
  <2>1. UNCHANGED <<block, read_index, write_index, next_index, tasklet,
                    bam_index, overrun, stray, failed, feedop>>
    BY <1>2, Zenon DEF IrqHandler, vars, taskletVars
  <2> QED
    BY <2>1, RingFrame DEF RingInv
<1>3. CASE TaskletStart \/ Worker \/ EngineBlock
  <2>1. CASE feedop = "index"
    BY <1>3, <2>1, RingReset
  <2>2. CASE feedop # "index"
    <3>0. UNCHANGED <<feedop, stray, failed>>
      BY <1>3, Zenon
         DEF TaskletStart, Worker, WorkerTest, WorkerFilter, WorkerLoad,
             WorkerStore, EngineBlock, feedVars, msiVars
    <3>1. ~overrun' => ~overrun
      <4>1. CASE TaskletStart \/ Worker
        BY <4>1, Zenon DEF TaskletStart, Worker, WorkerTest, WorkerFilter,
                           WorkerLoad, WorkerStore
      <4>2. CASE EngineBlock
        BY <4>2, Zenon DEF EngineBlock
      <4> QED
        BY <1>3, <4>1, <4>2
    <3> SUFFICES ASSUME ~overrun', ~stray', ~failed' PROVE Ring'
      BY <2>2, <3>0 DEF RingInv
    <3>2. Ring
      BY <2>2, <3>0, <3>1 DEF RingInv
    <3> QED
      BY <1>3, <3>2, RingMoves
  <2> QED
    BY <2>1, <2>2
<1> QED
  BY <1>1, <1>2, <1>3 DEF Next

\* What the worker hands to the demux is fresh (FreshBlock), whatever the size of
\* the ring and however often the engine is stopped and started.
THEOREM FreshBlocks == Spec => []FreshBlock
<1>1. FeedInv /\ RingInv => FreshBlock
  <2> SUFFICES ASSUME FeedInv, RingInv, tasklet = "body", filtering > 0,
                      ~failed, ~overrun, ~stray
               PROVE  block[read_index] = "fresh"
    BY DEF FreshBlock
  <2>1. Ring
    BY DEF RingInv, FeedInv, CtlInv
  <2>2. read_index \in Index /\ write_index \in Index /\ bam_index \in Index
    BY DEF FeedInv, TypeOK, DataOK
  <2>3. /\ write_index # read_index
        /\ Dist(read_index, write_index) <= Dist(read_index, bam_index)
        /\ ~Handed
    BY <2>1 DEF Ring, Handed
  <2>4. Dist(read_index, read_index) < Dist(read_index, bam_index)
    BY <2>2, <2>3, DistNumber
  <2> QED
    BY <2>1, <2>2, <2>3, <2>4 DEF Ring
<1> QED
  BY <1>1, FeedInit, FeedStepInv, RingInit, RingStep, PTL DEF Spec

=============================================================================
