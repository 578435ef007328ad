---------------------------- MODULE DriverProofs ----------------------------
(***************************************************************************)
(* Theorems about the drivers around the streams, for every size of their  *)
(* rings, every set of keys and timings and every bound on the calls. Each *)
(* driver has its inductive invariant.                                     *)
(***************************************************************************)
EXTENDS DeviceDrivers, ReceiverProofs, SequenceTheorems, TLAPS

-----------------------------------------------------------------------------
(* Sequences.                                                              *)

\* What is put at the end of a FIFO comes after what it held.
LEMMA FifoAppend ==
  ASSUME NEW S, NEW s \in Seq(S), NEW p \in S
  PROVE  /\ Append(s, p) # <<>> /\ Len(Append(s, p)) = Len(s) + 1 /\ Len(s) \in Nat
         /\ \A i \in 1 .. Len(s) : Append(s, p)[i] = s[i]
         /\ Append(s, p)[Len(s) + 1] = p
         /\ s # <<>> => Len(s) > 0
BY AppendProperties, EmptySeq

\* What is taken from its front moves the rest up.
LEMMA FifoTail ==
  ASSUME NEW S, NEW s \in Seq(S), s # <<>>
  PROVE  /\ Len(Tail(s)) = Len(s) - 1 /\ Len(s) \in Nat \ {0}
         /\ \A i \in 1 .. Len(s) - 1 : Tail(s)[i] = s[i + 1]
         /\ Tail(s) # <<>> => Len(s) > 1
<1>1. /\ Tail(s) \in Seq(S) /\ Len(s) \in Nat \ {0}
      /\ Len(Tail(s)) = Len(s) - 1
      /\ \A i \in 1 .. Len(Tail(s)) : Tail(s)[i] = s[i + 1]
  BY HeadTailProperties, EmptySeq
<1>2. Tail(s) # <<>> => Len(Tail(s)) # 0
  BY <1>1, EmptySeq
<1> QED
  BY <1>1, <1>2

-----------------------------------------------------------------------------
(* Audio capture.                                                          *)

\* The engine has filled the whole ring since the last start.
Lapped == \A i \in Slots : ring[i] = "new"

\* What lies before the engine is new, as is everything once it has lapped.
RingInv == Lapped \/ \A i \in Slots : i < aip.write => ring[i] = "new"

TriggerInv ==
  /\ pcm.prepared /\ ~pcm.running => pcm.hwptr = 0
  /\ trigger = "start" => pcm.prepared /\ ~pcm.running /\ copied = "none"
  /\ trigger \in {"stop", "stopIndex"} => ~pcm.running

\* Between a stop and the next start the tasklet rests and the index is 0.
TurnedInv ==
  ~pcm.running /\ trigger \in {"none", "start"} =>
    tasklet.step = "idle" /\ aip.read_index = 0

\* The tasklet works behind the engine, or has been lapped.
BehindEngine ==
  /\ aip.read_index <= aip.write
  /\ tasklet.step # "idle" =>
       aip.read_index < tasklet.write /\ tasklet.write <= aip.write

\* While the stream runs, the pointer is the index, or one ahead between the two
\* halves of the tasklet's turn.
RunningInv ==
  pcm.running =>
    /\ tasklet.step \in {"idle", "copy"} => pcm.hwptr = aip.read_index
    /\ tasklet.step \in {"elapsed", "advance"} => pcm.hwptr = NextSlot(aip.read_index)
    /\ copied # "old"
    /\ Lapped \/ BehindEngine

AlsaInv == AlsaTypeOK /\ RingInv /\ TriggerInv /\ (~skewed => TurnedInv /\ RunningInv)

\* The slot after one that is not the last is the next number.
LEMMA NextSlotFacts ==
  ASSUME NEW i \in Slots
  PROVE  /\ NextSlot(i) \in Slots
         /\ NextSlot(i) = IF i = AIP_BUFFERS - 1 THEN 0 ELSE i + 1
<1>1. CASE i = AIP_BUFFERS - 1
  BY <1>1, AipBuffersAssumption DEF NextSlot, Slots
<1>2. CASE i # AIP_BUFFERS - 1
  <2>1. i + 1 \in 0 .. AIP_BUFFERS - 1
    BY <1>2, AipBuffersAssumption DEF Slots
  <2>2. (i + 1) % AIP_BUFFERS = i + 1
    BY <2>1, AipBuffersAssumption
  <2> QED
    BY <1>2, <2>1, <2>2 DEF NextSlot, Slots
<1> QED
  BY <1>1, <1>2

\* The audio driver keeps its types.
LEMMA AlsaTypeStep == AlsaTypeOK /\ [AlsaNext]_alsaVars => AlsaTypeOK'
<1> SUFFICES ASSUME AlsaTypeOK, [AlsaNext]_alsaVars PROVE AlsaTypeOK'
  OBVIOUS
<1> USE AipBuffersAssumption, MaxPeriodsAssumption DEF AlsaTypeOK, TriggerSteps, AipSteps
<1>1. 0 \in Slots
  BY DEF Slots
<1>2. NextSlot(aip.read_index) \in Slots /\ NextSlot(aip.write) \in Slots
  BY NextSlotFacts
<1>3. CASE PcmOpenClose \/ PcmPrepare \/ TriggerRunning \/ TriggerStop
  BY <1>1, <1>3, ZenonT(60) DEF PcmOpenClose, PcmPrepare, TriggerRunning, TriggerStop
<1>4. CASE AipStart
  <2>1. PICK ok \in BOOLEAN : /\ aip' = [aip EXCEPT !.write = 0, !.capture = ok]
                             /\ trigger' = IF ok THEN "start" ELSE "none"
    BY <1>4 DEF AipStart
  <2>2. aip' \in [read_index : Slots, capture : BOOLEAN, write : Slots]
    BY <1>1, <2>1
  <2>3. ring' \in [Slots -> {"old", "new"}] /\ trigger' \in TriggerSteps
    BY <1>4, <2>1 DEF AipStart
  <2> QED
    BY <1>4, <2>2, <2>3 DEF AipStart
<1>11. CASE AipStopCapture \/ AipStopIndex
  BY <1>1, <1>11 DEF AipStopCapture, AipStopIndex
<1>5. CASE EnginePeriod
  <2>1. aip' \in [read_index : Slots, capture : BOOLEAN, write : Slots]
    BY <1>2, <1>5 DEF EnginePeriod
  <2>2. ring' \in [Slots -> {"old", "new"}] /\ periods' \in 0 .. MaxPeriods
    BY <1>5 DEF EnginePeriod
  <2> QED
    BY <1>5, <2>1, <2>2 DEF EnginePeriod
<1>6. CASE AipWorker
  <2>1. tasklet' \in [scheduled : BOOLEAN, step : AipSteps, write : Slots]
    <3>1. CASE aip.write = aip.read_index
      BY <1>6, <3>1 DEF AipWorker
    <3>2. CASE aip.write # aip.read_index
      <4>1. tasklet' = [scheduled |-> FALSE, step |-> "copy", write |-> aip.write]
        BY <1>6, <3>2 DEF AipWorker
      <4>2. aip.write \in Slots
        OBVIOUS
      <4> QED
        BY <4>1, <4>2
    <3> QED
      BY <3>1, <3>2
  <2>2. skewed' \in BOOLEAN
    BY <1>6 DEF AipWorker
  <2> QED
    BY <1>6, <2>1, <2>2 DEF AipWorker
<1>7. CASE AnnounceData
  BY <1>2, <1>7 DEF AnnounceData
<1>8. CASE PeriodElapsed
  BY <1>1, <1>8, ZenonT(60) DEF PeriodElapsed
<1>9. CASE AipAdvance
  BY <1>2, <1>9 DEF AipAdvance
<1>10. CASE UNCHANGED alsaVars
  BY <1>10 DEF alsaVars
<1> QED
  BY <1>3, <1>4, <1>5, <1>6, <1>7, <1>8, <1>9, <1>10, <1>11 DEF AlsaNext

\* At the start nothing is captured.
LEMMA AlsaInvInit == AlsaInit => AlsaInv
<1> SUFFICES ASSUME AlsaInit PROVE AlsaInv
  OBVIOUS
<1>1. 0 \in Slots
  BY AipBuffersAssumption DEF Slots
<1>2. AlsaTypeOK
  <2>1. /\ pcm \in [open : BOOLEAN, prepared : BOOLEAN, running : BOOLEAN, hwptr : Slots]
        /\ aip \in [read_index : Slots, capture : BOOLEAN, write : Slots]
        /\ tasklet \in [scheduled : BOOLEAN, step : AipSteps, write : Slots]
    BY <1>1 DEF AlsaInit, AipSteps
  <2>2. ring \in [Slots -> {"old", "new"}]
    BY DEF AlsaInit
  <2>3. trigger \in TriggerSteps /\ copied \in {"none", "old", "new"} /\ skewed \in BOOLEAN
    BY Zenon DEF AlsaInit, TriggerSteps
  <2>4. periods \in 0 .. MaxPeriods
    BY MaxPeriodsAssumption DEF AlsaInit
  <2> QED
    BY <2>1, <2>2, <2>3, <2>4 DEF AlsaTypeOK
<1> QED
  BY <1>2 DEF AlsaInit, AlsaInv, RingInv, TriggerInv, TurnedInv, RunningInv, Slots

\* Its invariant is kept: the engine's steps keep RingInv, the triggers TriggerInv.
LEMMA AlsaStep == AlsaInv /\ [AlsaNext]_alsaVars => AlsaInv'
<1> SUFFICES ASSUME AlsaInv, [AlsaNext]_alsaVars PROVE AlsaInv'
  OBVIOUS
<1>1. AlsaTypeOK /\ AlsaTypeOK'
  BY AlsaTypeStep DEF AlsaInv
<1>2. RingInv /\ TriggerInv /\ (~skewed => TurnedInv /\ RunningInv)
  BY DEF AlsaInv
<1>3. RingInv'
  <2> USE DEF RingInv, Lapped
  <2>1. CASE AipStart
    BY <1>1, <2>1 DEF AipStart, AlsaTypeOK, Slots
  <2>2. CASE EnginePeriod
    <3>1. aip.write \in Slots
          /\ aip'.write = NextSlot(aip.write)
          /\ \A i \in Slots : ring'[i] = IF i = aip.write THEN "new" ELSE ring[i]
      BY <1>1, <2>2 DEF EnginePeriod, AlsaTypeOK
    <3>2. NextSlot(aip.write) = IF aip.write = AIP_BUFFERS - 1 THEN 0 ELSE aip.write + 1
      BY <3>1, NextSlotFacts
    <3>3. CASE Lapped
      BY <3>1, <3>3, ZenonT(60)
    <3>4. ASSUME \A i \in Slots : i < aip.write => ring[i] = "new"
          PROVE  RingInv'
      <4>1. CASE aip.write = AIP_BUFFERS - 1
        <5>1. \A i \in Slots : i = aip.write \/ i < aip.write
          BY <4>1, AipBuffersAssumption DEF Slots
        <5>2. \A i \in Slots : ring'[i] = "new"
          BY <3>1, <3>4, <5>1
        <5> QED
          BY <5>2
      <4>2. CASE aip.write # AIP_BUFFERS - 1
        <5>1. \A i \in Slots : i < aip'.write => i = aip.write \/ i < aip.write
          BY <3>1, <3>2, <4>2 DEF Slots
        <5>2. \A i \in Slots : i < aip'.write => ring'[i] = "new"
          BY <3>1, <3>4, <5>1
        <5> QED
          BY <5>2
      <4> QED
        BY <4>1, <4>2
    <3> QED
      BY <1>2, <3>3, <3>4
  <2>3. CASE UNCHANGED <<ring, aip>>
    BY <1>2, <2>3
  <2>4. CASE UNCHANGED ring /\ aip'.write = aip.write
    BY <1>2, <2>4
  <2>5. (UNCHANGED ring /\ aip'.write = aip.write) \/ AipStart \/ EnginePeriod
    BY <1>1, ZenonT(60)
       DEF AlsaNext, alsaVars, PcmOpenClose, PcmPrepare, TriggerRunning, TriggerStop,
       AipStopCapture, AipStopIndex, AipWorker, AnnounceData, PeriodElapsed, AipAdvance,
       AlsaTypeOK
  <2> QED
    BY <2>1, <2>2, <2>4, <2>5
<1>4. TriggerInv'
  BY <1>1, <1>2, ZenonT(60)
     DEF TriggerInv, AlsaTypeOK, AlsaNext, alsaVars, PcmOpenClose, PcmPrepare,
     AipStart, TriggerRunning, TriggerStop, AipStopCapture, AipStopIndex, EnginePeriod,
     AipWorker, AnnounceData, PeriodElapsed, AipAdvance
<1>5. ASSUME ~skewed' PROVE TurnedInv'
  BY <1>1, <1>2, <1>5, ZenonT(60)
     DEF TriggerInv, TurnedInv, AlsaTypeOK, AlsaNext, alsaVars, PcmOpenClose, PcmPrepare,
         AipStart, TriggerRunning, TriggerStop, AipStopCapture, AipStopIndex,
         EnginePeriod, AipWorker, AnnounceData, PeriodElapsed, AipAdvance
<1>6. ASSUME ~skewed', pcm'.running PROVE RunningInv'
  <2> USE DEF AlsaTypeOK
  <2>1. trigger # "stopIndex"
    BY <1>1, <1>2, <1>6 DEF TriggerInv, AlsaNext, alsaVars, PcmOpenClose, PcmPrepare,
       AipStart, TriggerRunning, TriggerStop, AipStopCapture, AipStopIndex, EnginePeriod,
       AipWorker, AnnounceData, PeriodElapsed, AipAdvance
  <2>2. ~skewed
    BY <1>1, <1>6, <2>1 DEF AlsaNext, alsaVars, PcmOpenClose, PcmPrepare,
       AipStart, TriggerRunning, TriggerStop, AipStopCapture, AipStopIndex, EnginePeriod,
       AipWorker, AnnounceData, PeriodElapsed, AipAdvance
  <2>3. TurnedInv /\ RunningInv
    BY <1>2, <2>2
  <2>4. aip.read_index \in Slots /\ aip.write \in Slots /\ tasklet.write \in Slots
    BY <1>1
  <2>5. CASE TriggerRunning
    <3>1. tasklet.step = "idle" /\ aip.read_index = 0 /\ pcm.hwptr = 0 /\ copied = "none"
      BY <1>1, <1>2, <2>3, <2>5 DEF TriggerRunning, TriggerInv, TurnedInv
    <3> QED
      BY <1>1, <2>4, <2>5, <3>1 DEF TriggerRunning, RunningInv, BehindEngine, Slots
  <2>6. CASE EnginePeriod
    <3>1. /\ \A i \in Slots : ring'[i] = IF i = aip.write THEN "new" ELSE ring[i]
          /\ aip'.write = NextSlot(aip.write) /\ aip'.read_index = aip.read_index
          /\ tasklet'.step = tasklet.step /\ tasklet'.write = tasklet.write
          /\ UNCHANGED <<pcm, copied>>
      BY <1>1, <2>6 DEF EnginePeriod
    <3>2. NextSlot(aip.write) = IF aip.write = AIP_BUFFERS - 1 THEN 0 ELSE aip.write + 1
      BY <2>4, NextSlotFacts
    <3>3. Lapped' \/ BehindEngine'
      <4>1. CASE Lapped \/ aip.write = AIP_BUFFERS - 1
        BY <1>2, <3>1, <4>1, AipBuffersAssumption DEF Lapped, RingInv, Slots
      <4>2. CASE ~Lapped /\ aip.write # AIP_BUFFERS - 1
        <5>1. BehindEngine
          BY <1>6, <2>3, <3>1, <4>2 DEF RunningInv
        <5> QED
          BY <2>4, <3>1, <3>2, <4>2, <5>1 DEF BehindEngine, Slots
      <4> QED
        BY <4>1, <4>2
    <3> QED
      BY <1>6, <2>3, <3>1, <3>3 DEF RunningInv
  <2>7. CASE AipWorker
    BY <1>1, <2>3, <2>4, <2>7 DEF AipWorker, RunningInv, BehindEngine, Lapped, Slots
  <2>8. CASE AnnounceData
    <3>1. pcm.running
      BY <1>1, <1>6, <2>8 DEF AnnounceData
    <3>2. Lapped \/ BehindEngine
      BY <2>3, <3>1 DEF RunningInv
    <3>3. copied' = "new"
      BY <1>2, <2>4, <2>8, <3>1, <3>2 DEF AnnounceData, RingInv, Lapped, BehindEngine, Slots
    <3> QED
      BY <1>1, <2>8, <3>1, <3>2, <3>3 DEF AnnounceData, RunningInv, BehindEngine, Lapped
  <2>9. CASE PeriodElapsed
    BY <1>1, <1>6, <2>2, <2>3, <2>9 DEF PeriodElapsed, RunningInv, BehindEngine, Lapped
  <2>10. CASE AipAdvance
    <3>1. /\ pcm.running /\ pcm.hwptr = NextSlot(aip.read_index) /\ copied # "old"
          /\ Lapped \/ BehindEngine
      BY <1>6, <2>3, <2>10 DEF AipAdvance, RunningInv
    <3>2. /\ aip'.read_index = NextSlot(aip.read_index) /\ aip'.write = aip.write
          /\ tasklet'.step = IF NextSlot(aip.read_index) = tasklet.write
                             THEN "idle" ELSE "copy"
          /\ tasklet'.write = tasklet.write /\ UNCHANGED <<pcm, ring, copied>>
      BY <1>1, <2>10 DEF AipAdvance
    <3>3. BehindEngine => BehindEngine'
      <4>1. NextSlot(aip.read_index) = IF aip.read_index = AIP_BUFFERS - 1
                                       THEN 0 ELSE aip.read_index + 1
        BY <2>4, NextSlotFacts
      <4> QED
        BY <2>4, <2>10, <3>2, <4>1, AipBuffersAssumption DEF AipAdvance, BehindEngine, Slots
    <3> QED
      BY <3>1, <3>2, <3>3 DEF RunningInv, Lapped
  <2>11. CASE UNCHANGED <<aip, ring, tasklet, copied, pcm>>
    BY <2>3, <2>11 DEF RunningInv, BehindEngine, Lapped
  <2> QED
    BY <1>1, <1>2, <1>6, <2>1, <2>5, <2>6, <2>7, <2>8, <2>9, <2>10, <2>11, ZenonT(60)
       DEF AlsaNext, alsaVars, PcmOpenClose, PcmPrepare, AipStart, TriggerStop,
           AipStopCapture, AipStopIndex, TriggerInv
<1> QED
  BY <1>1, <1>3, <1>4, <1>5, <1>6 DEF AlsaInv, RunningInv

\* Every period the pointer of a running stream passes was captured since the
\* start, and the pointer is the ring's index whenever the tasklet rests: for any
\* number of periods in the ring, whatever the engine's and the tasklet's pace.
THEOREM PointerInStep == AlsaSpec => []PointerFollowsRing
<1>1. AlsaInv => PointerFollowsRing
  BY DEF AlsaInv, RunningInv, PointerFollowsRing
<1> QED
  BY <1>1, AlsaInvInit, AlsaStep, PTL DEF AlsaSpec

-----------------------------------------------------------------------------
(* Remote control.                                                         *)

\* What saa716x_ir_exit() has waited for is at rest from then on.
ClosedInv ==
  /\ irPriv => irState = "up"
  /\ irState = "off" => ~keyup /\ keyupFn = "idle" /\ irKeys = {}
  /\ irState \notin {"up", "kill"} => irTask.step = "idle"
  /\ irState \in {"input", "gone"} => ~keyup /\ keyupFn = "idle"
  /\ irState = "gone" => irKeys = {}

TaskKey == irTask.step # "idle" => irTask.key \in Keys

\* The keys that may be pressed: the last one, and the new one before it is stored.
Held == IF irTask.step = "store" THEN {last_key, irTask.key} ELSE {last_key}

\* A key that is pressed has a timer to release it, pending or in its function, or
\* a tasklet at a step that arms the timer yet.
HeldInv ==
  /\ irKeys \subseteq Held
  /\ last_key \in irKeys =>
       /\ irState \in {"up", "kill", "timer"} /\ irTask.step \in {"idle", "test"} =>
            keyup \/ keyupFn # "idle"
       /\ irTask.step = "press" => keyupFn # "idle"
       /\ irTask.step = "store" /\ last_key # irTask.key => keyupFn # "idle"

IrInv == IrTypeOK /\ ClosedInv /\ TaskKey /\ (~irRaced => HeldInv)

\* The input driver keeps its types; what its tasklet passes on is a key.
LEMMA IrTypeStep == IrTypeOK /\ TaskKey /\ [IrNext]_irVars => IrTypeOK' /\ TaskKey'
<1> SUFFICES ASSUME IrTypeOK, TaskKey, [IrNext]_irVars PROVE IrTypeOK' /\ TaskKey'
  OBVIOUS
<1> USE KeysAssumption, IrBoundsAssumption DEF IrTypeOK, TaskKey
<1>1. CASE IrCommand
  BY <1>1 DEF IrCommand
<1>9. CASE IrSchedule
  <2>1. irState' \in {irState, "oops"} /\ irCommand' \in Commands /\ irHandler' = FALSE
    BY <1>9 DEF IrSchedule
  <2>2. irTask' = irTask \/ irTask' = [irTask EXCEPT !.sched = TRUE]
    BY <1>9 DEF IrSchedule
  <2> QED
    BY <1>9, <2>1, <2>2 DEF IrSchedule
<1>2. CASE EmitBegin
  <2>1. irState' \in {irState, "oops"}
    BY <1>2 DEF EmitBegin
  <2>2. irCommand.key \in Keys \cup {NoKey} /\ irCommand.toggle \in {0, 1}
    BY DEF Commands
  <2>3. \/ irTask' = irTask /\ irTask.step = "idle"
        \/ irTask' = IdleTask
        \/ /\ irCommand.key # NoKey
           /\ irTask' = [sched |-> FALSE, step |-> "test", key |-> irCommand.key,
                         toggle |-> irCommand.toggle]
    BY <1>2 DEF EmitBegin
  <2>4. /\ irTask'.step # "idle" => irTask'.key \in Keys
        /\ irTask' \in [sched : BOOLEAN, key : Keys \cup {NoKey}, toggle : {0, 1},
                        step : {"idle", "test", "del", "change", "press", "store", "arm"}]
    <3>1. CASE irTask' = irTask /\ irTask.step = "idle"
      BY <3>1
    <3>2. CASE irTask' = IdleTask
      BY <3>2 DEF IdleTask
    <3>3. CASE /\ irCommand.key # NoKey
               /\ irTask' = [sched |-> FALSE, step |-> "test", key |-> irCommand.key,
                             toggle |-> irCommand.toggle]
      BY <2>2, <3>3
    <3> QED
      BY <2>3, <3>1, <3>2, <3>3
  <2> QED
    BY <1>2, <2>1, <2>4 DEF EmitBegin
<1>3. CASE EmitTest \/ EmitDel
  BY <1>3 DEF EmitTest, EmitDel, TaskStep
<1>4. CASE EmitChange \/ EmitPress
  BY <1>4, ZenonT(60) DEF EmitChange, EmitPress, TaskStep
<1>5. CASE EmitStore \/ EmitArm
  BY <1>5 DEF EmitStore, EmitArm, TaskStep, IdleTask
<1>6. CASE KeyupExpires \/ KeyupTest \/ KeyupReport \/ RepeatDelay
  BY <1>6 DEF KeyupExpires, KeyupTest, KeyupReport, RepeatDelay
<1>7. CASE IrInitCall \/ IrExit
  BY <1>7 DEF IrInitCall, IrExit
<1>8. CASE UNCHANGED irVars
  BY <1>8 DEF irVars
<1> QED
  BY <1>1, <1>2, <1>3, <1>4, <1>5, <1>6, <1>7, <1>8, <1>9 DEF IrNext

\* What saa716x_ir_exit() has waited for stays at rest.
LEMMA ClosedStep ==
  IrTypeOK /\ ClosedInv /\ [IrNext]_irVars => ClosedInv'
<1> SUFFICES ASSUME IrTypeOK, ClosedInv, [IrNext]_irVars PROVE ClosedInv'
  OBVIOUS
<1> USE DEF ClosedInv
<1>1. CASE IrCommand \/ IrSchedule
  BY <1>1 DEF IrCommand, IrSchedule, IrTypeOK
<1>2. CASE EmitBegin
  BY <1>2 DEF EmitBegin, IdleTask
<1>3. CASE EmitTest \/ EmitDel \/ EmitChange \/ EmitPress \/ EmitStore \/ EmitArm
  <2>1. irState \in {"up", "kill"} /\ UNCHANGED <<irState, irPriv>>
    BY <1>3 DEF EmitTest, EmitDel, EmitChange, EmitPress, EmitStore, EmitArm
  <2> QED
    BY <2>1
<1>4. CASE KeyupExpires \/ KeyupTest \/ KeyupReport \/ RepeatDelay
  BY <1>4 DEF KeyupExpires, KeyupTest, KeyupReport, RepeatDelay
<1>5. CASE IrInitCall \/ IrExit
  BY <1>5 DEF IrInitCall, IrExit, IdleTask
<1>6. CASE UNCHANGED irVars
  BY <1>6 DEF irVars
<1> QED
  BY <1>1, <1>2, <1>3, <1>4, <1>5, <1>6 DEF IrNext

\* A key that is down has its release coming: by timer, tasklet or removal.
LEMMA HeldStep ==
  /\ IrTypeOK /\ ClosedInv /\ TaskKey /\ (~irRaced => HeldInv) /\ [IrNext]_irVars
  => (~irRaced' => HeldInv')
<1> SUFFICES ASSUME IrTypeOK, ClosedInv, TaskKey, ~irRaced => HeldInv, [IrNext]_irVars,
                    ~irRaced'
             PROVE  HeldInv'
  OBVIOUS
<1>1. ~irRaced /\ HeldInv
  <2>1. CASE EmitStore
    BY <2>1 DEF EmitStore
  <2>2. CASE ~EmitStore
    BY <2>2 DEF IrNext, irVars, IrCommand, IrSchedule, EmitBegin, EmitTest, EmitDel,
       EmitChange, EmitPress, EmitArm, KeyupExpires, KeyupTest, KeyupReport, RepeatDelay,
       IrInitCall, IrExit
  <2> QED
    BY <2>1, <2>2
<1> USE <1>1 DEF HeldInv, Held, IrTypeOK, TaskKey
<1>2. CASE IrCommand \/ IrSchedule
  BY <1>2 DEF IrCommand, IrSchedule
<1>3. CASE EmitBegin
  BY <1>3 DEF EmitBegin, IdleTask
<1>4. CASE EmitTest
  BY <1>4 DEF EmitTest, TaskStep, ClosedInv
<1>16. CASE EmitDel
  BY <1>16 DEF EmitDel, TaskStep
<1>5. CASE EmitChange
  BY <1>5 DEF EmitChange, TaskStep
<1>6. CASE EmitPress
  BY <1>6 DEF EmitPress, TaskStep
<1>7. CASE EmitStore
  BY <1>7 DEF EmitStore, TaskStep
<1>8. CASE EmitArm
  BY <1>8 DEF EmitArm, IdleTask
<1>9. CASE KeyupExpires
  BY <1>9 DEF KeyupExpires
<1>10. CASE KeyupTest
  BY <1>10 DEF KeyupTest
<1>11. CASE KeyupReport
  BY <1>11 DEF KeyupReport
<1>12. CASE RepeatDelay
  BY <1>12 DEF RepeatDelay
<1>13. CASE IrInitCall
  BY <1>13 DEF IrInitCall, ClosedInv
<1>14. CASE IrExit
  BY <1>14 DEF IrExit, ClosedInv
<1>15. CASE UNCHANGED irVars
  BY <1>15 DEF irVars
<1> QED
  BY <1>2, <1>3, <1>4, <1>5, <1>6, <1>7, <1>8, <1>9, <1>10, <1>11, <1>12, <1>13, <1>14,
     <1>15, <1>16 DEF IrNext

\* The input driver keeps its invariant.
LEMMA IrStep == IrInv /\ [IrNext]_irVars => IrInv'
BY IrTypeStep, ClosedStep, HeldStep DEF IrInv

\* At the start no key is down.
LEMMA IrInvInit == IrInit => IrInv
<1> SUFFICES ASSUME IrInit PROVE IrInv
  OBVIOUS
<1>1. irTask = IdleTask /\ irCommand = [key |-> NoKey, toggle |-> 0]
  BY DEF IrInit
<1>2. IrTypeOK
  <2>1. irTask \in [sched : BOOLEAN, key : Keys \cup {NoKey}, toggle : {0, 1},
                    step : {"idle", "test", "del", "change", "press", "store", "arm"}]
    BY <1>1 DEF IdleTask
  <2>2. irCommand \in Commands
    BY <1>1 DEF Commands
  <2>3. {irPriv, delay_timer_finished, keyup, irHandler, irRaced} \subseteq BOOLEAN
    BY Zenon DEF IrInit
  <2>4. /\ irState \in {"off", "up", "kill", "timer", "input", "gone", "oops"}
        /\ last_key \in Keys \cup {NoKey} /\ last_toggle \in {0, 1}
        /\ keyupFn \in {"idle", "test", "report"} /\ irKeys \subseteq Keys
        /\ irCommands \in 0 .. MaxIrCommands
    BY IrBoundsAssumption DEF IrInit
  <2> QED
    BY <2>1, <2>2, <2>3, <2>4 DEF IrTypeOK
<1> QED
  BY <1>1, <1>2 DEF IrInit, IrInv, ClosedInv, TaskKey, HeldInv, Held, IdleTask

\* No key stays pressed behind the driver's back, for any set of keys and however
\* commands, tasklet, key-up timer and removal interleave, but for the race that
\* irRaced marks.
THEOREM KeysReleased == IrSpec => []NoStuckKey
<1>1. IrInv => NoStuckKey
  BY DEF IrInv, NoStuckKey, HeldInv, Held, ClosedInv, IrTypeOK
<1> QED
  BY <1>1, IrInvInit, IrStep, PTL DEF IrSpec

-----------------------------------------------------------------------------
(* Capture format and timings.                                             *)

AllTimings == {"480p", "720p60", "720p24", "1080i60", "1080p30"}

VipType    == [samples : Nat, lines : Nat, type2 : BOOLEAN, flags : SUBSET VipFlags]
FormatType == [width : Nat, height : Nat, field : Fields, sizeimage : Nat]
StreamType == [input : {0, 1}, std : {"525", "625"}, timings : CfgTimings,
               receiver : {"TDA19978", "ADV7611"}, format : FormatType, vip : VipType]
EngineType == [vip : VipType, derived : BOOLEAN]
DerivType  == [at : 0 .. 5, timings : CfgTimings \cup {"none"}, alone : BOOLEAN]

CfgTypeInv == /\ CfgTypeOK /\ stream \in StreamType /\ engine \in EngineType
              /\ deriv \in [Derivers -> DerivType]

\* The format is the one filled in for input, standard and timings, but between
\* the two last steps of S_DV_TIMINGS.
FormatOf(s) == s.format = FillPixFormat(s, s.format.field)
FormatInv   == sent # stream.timings => FormatOf(stream)

\* The flags that the timings v ask for.
BaseFlags(v) == IF Interlaced(v) THEN {"INTERLACED", "HD"} ELSE {"HD"}

\* The parameters v are the ones for stream s, up to the flags that standard
\* definition leaves as they were.
ParamsOf(v, s) ==
  /\ Supported(s.timings)
  /\ v.samples = Width(s.timings) /\ v.lines = Height(s.timings)
  /\ HighDef(s.timings) =>
       v.flags = BaseFlags(s.timings) \cup FieldFlags(s.format.field)

ParamsInv == derived => ParamsOf(stream.vip, stream)

\* What a derivation that is about to make its k-th store has left in v.
StoresMade(k, v, timings) ==
  /\ k > 1 => Supported(timings)
  /\ k > 2 => v.samples = Width(timings)
  /\ k > 3 => v.lines = Height(timings)
  /\ k > 4 => (HighDef(timings) => v.flags = BaseFlags(timings))

\* A derivation that nothing crossed works for the present timings, is the only one,
\* and its stores are as it made them.
DerivInv ==
  \A p \in Derivers :
    /\ deriv[p].at > 1 => Supported(deriv[p].timings)
    /\ Deriving(p) /\ deriv[p].alone =>
         /\ deriv[p].timings = stream.timings
         /\ ~Deriving(OtherDeriver(p))
         /\ StoresMade(deriv[p].at, stream.vip, stream.timings)

\* What the engine is given by start_streaming() are parameters for the settings.
EngineInv ==
  /\ streaming = "starting" /\ engine.derived =>
       engine.vip.samples = Width(stream.timings) /\ engine.vip.lines = Height(stream.timings)
  /\ streaming = "on" /\ engine.derived => ParamsOf(engine.vip, stream)

\* Buffers are of the format's size, and keep the settings from being changed.
BufsInv ==
  /\ Busy => bufs = stream.format.sizeimage
  /\ streaming # "off" => Busy
  /\ sent # "none" => ~Busy /\ ~Deriving("ioctl")
  /\ Deriving("ioctl") => ~Busy

\* The receiver has the stream's timings, or the ones about to become them.
ReceiverInv ==
  subdev = "done" /\ ~crossed => rxTimings = IF sent = "none" THEN stream.timings ELSE sent

CfgInv == CfgTypeInv /\ FormatInv /\ ParamsInv /\ DerivInv /\ EngineInv /\ BufsInv /\ ReceiverInv

\* "none" stands for no timings; no timings are called so.
LEMMA TimingsKnown == CfgTimings \subseteq AllTimings /\ "none" \notin CfgTimings
BY CfgTimingsAssumption DEF AllTimings

\* What a format filled in is, whatever field is asked for.
LEMMA FormatFilled ==
  ASSUME NEW s \in StreamType, NEW f
  PROVE  /\ FillPixFormat(s, f) \in FormatType
         /\ FillPixFormat(s, FillPixFormat(s, f).field) = FillPixFormat(s, f)
<1>1. Width(s.timings) \in {720, 1280, 1920} /\ Height(s.timings) \in {480, 720, 1080}
  BY DEF Width, Height
<1>2. CASE s.input = 1
  BY <1>2 DEF FillPixFormat, Pix, FormatType, Fields
<1>3. CASE s.input = 0 /\ ~Interlaced(s.timings)
  BY <1>1, <1>3 DEF FillPixFormat, Pix, FormatType, Fields
<1>4. CASE s.input = 0 /\ Interlaced(s.timings)
  <2>1. Width(s.timings) = 1920 /\ Height(s.timings) = 1080
    BY <1>4 DEF Interlaced, Width, Height
  <2>2. CASE f = "alternate"
    BY <1>4, <2>1, <2>2 DEF FillPixFormat, Pix, FormatType, Fields
  <2>3. CASE f # "alternate"
    BY <1>4, <2>1, <2>3 DEF FillPixFormat, Pix, FormatType, Fields
  <2> QED
    BY <2>2, <2>3
<1> QED
  BY <1>2, <1>3, <1>4 DEF StreamType

\* The format depends on input, standard and timings only.
LEMMA FormatDepends ==
  ASSUME NEW s, NEW t, NEW f,
         s.input = t.input, s.std = t.std, s.timings = t.timings
  PROVE  FillPixFormat(s, f) = FillPixFormat(t, f)
BY DEF FillPixFormat

\* A stream whose format is filled in, for the field f.
LEMMA FilledStream ==
  ASSUME NEW s \in StreamType, NEW f, NEW r, r = [s EXCEPT !.format = FillPixFormat(s, f)]
  PROVE  /\ r \in StreamType /\ FormatOf(r)
         /\ r.input = s.input /\ r.timings = s.timings /\ r.vip = s.vip
<1> DEFINE g == FillPixFormat(s, f)
<1>2. g \in FormatType /\ FillPixFormat(s, g.field) = g
  BY FormatFilled
<1>1. r = [s EXCEPT !.format = g]
  OBVIOUS
<1> HIDE DEF g
<1>3. /\ r \in StreamType /\ r.format = g
      /\ r.input = s.input /\ r.timings = s.timings /\ r.vip = s.vip /\ r.std = s.std
  BY <1>1, <1>2 DEF StreamType
<1>4. FillPixFormat(r, g.field) = FillPixFormat(s, g.field)
  <2>1. r.input = s.input /\ r.std = s.std /\ r.timings = s.timings
    BY <1>3
  <2> QED
    BY <2>1, FormatDepends, Zenon
<1> QED
  BY <1>2, <1>3, <1>4 DEF FormatOf

\* The types of what a derivation stores.
LEMMA StoredType ==
  ASSUME NEW s \in StreamType, NEW v, NEW k \in 1 .. 5
  PROVE  StoredParams(k, v, s) \in VipType
<1>1. /\ s.vip \in VipType /\ FieldFlags(s.format.field) \subseteq VipFlags
      /\ Width(v) \in Nat /\ Height(v) \in Nat
      /\ BaseFlags(v) \subseteq VipFlags
      /\ Tda19978Type2(v) \in BOOLEAN /\ Adv7611Type2(v) \in BOOLEAN
  BY DEF StreamType, FieldFlags, VipFlags, Width, Height, BaseFlags, Tda19978Type2,
         Adv7611Type2
<1>2. CASE k = 1
  BY <1>1, <1>2 DEF StoredParams, VipType
<1>3. CASE k = 2
  BY <1>1, <1>3 DEF StoredParams, VipType
<1>4. CASE k = 3
  BY <1>1, <1>4 DEF StoredParams, VipType
<1>5. CASE k = 4
  <2>1. StoredParams(k, v, s) = [s.vip EXCEPT !.flags = IF ~HighDef(v) THEN @ ELSE BaseFlags(v)]
    BY <1>5 DEF StoredParams, BaseFlags
  <2> QED
    BY <1>1, <2>1 DEF VipType
<1>6. CASE k = 5
  BY <1>1, <1>6 DEF StoredParams, VipType
<1> QED
  BY <1>2, <1>3, <1>4, <1>5, <1>6

\* The store after k of them adds itself to what they left; the fifth completes the
\* parameters.
LEMMA StoresAdd ==
  ASSUME NEW s \in StreamType, NEW k \in 1 .. 5, NEW w, w = StoredParams(k, s.timings, s),
         StoresMade(k, s.vip, s.timings), k > 1 \/ Supported(s.timings)
  PROVE  /\ k < 5 => StoresMade(k + 1, w, s.timings)
         /\ k = 5 => ParamsOf(w, s)
<1> DEFINE v == s.timings
<1>1. s.vip \in VipType /\ Supported(v)
  BY DEF StreamType, StoresMade
<1>2. CASE k = 1
  BY <1>1, <1>2 DEF StoresMade
<1>3. CASE k = 2
  <2>1. w.samples = Width(v)
    BY <1>1, <1>3 DEF StoredParams, VipType
  <2> QED
    BY <1>1, <1>3, <2>1 DEF StoresMade
<1>4. CASE k = 3
  <2>1. w.samples = s.vip.samples /\ w.lines = Height(v)
    BY <1>1, <1>4 DEF StoredParams, VipType
  <2> QED
    BY <1>1, <1>4, <2>1 DEF StoresMade
<1>5. CASE k = 4
  <2>1. w = [s.vip EXCEPT !.flags = IF ~HighDef(v) THEN @ ELSE BaseFlags(v)]
    BY <1>5 DEF StoredParams, BaseFlags
  <2>2. /\ w.samples = s.vip.samples /\ w.lines = s.vip.lines
        /\ HighDef(v) => w.flags = BaseFlags(v)
    BY <1>1, <2>1 DEF VipType
  <2> QED
    BY <1>1, <1>5, <2>2 DEF StoresMade
<1>6. CASE k = 5
  <2>1. /\ w.samples = s.vip.samples /\ w.lines = s.vip.lines
        /\ w.flags = s.vip.flags \cup FieldFlags(s.format.field)
    BY <1>1, <1>6 DEF StoredParams, VipType
  <2> QED
    BY <1>1, <1>6, <2>1 DEF StoresMade, ParamsOf
<1> QED
  BY <1>2, <1>3, <1>4, <1>5, <1>6

\* Settings changed without the parameters.
LEMMA SettingsStep ==
  ASSUME CfgInv, NEW s \in StreamType, s.vip = stream.vip, SetStream(s),
         ~Deriving("ioctl")
  PROVE  /\ ParamsInv' /\ DerivInv' /\ stream' = s /\ derived' \in BOOLEAN
         /\ deriv' \in [Derivers -> DerivType] /\ ~Deriving("ioctl")'
<1> DEFINE same == Setting(s) = Setting(stream)
<1>1. /\ derived' = (derived /\ same) /\ stream' = s
      /\ deriv' = IF same THEN deriv ELSE [deriv EXCEPT !["init"].alone = ~Deriving("init")]
  BY DEF SetStream
<1>2. same => s.timings = stream.timings /\ s.format = stream.format
  BY DEF Setting
<1> HIDE DEF same
<1>3. derived \in BOOLEAN /\ deriv \in [Derivers -> DerivType]
  BY DEF CfgInv, CfgTypeInv, CfgTypeOK
<1>4. ParamsInv'
  <2> SUFFICES ASSUME derived' PROVE ParamsOf(stream.vip, stream)'
    BY DEF ParamsInv
  <2>1. derived /\ same
    BY <1>1, <1>3
  <2> QED
    BY <1>1, <1>2, <2>1 DEF CfgInv, ParamsInv, ParamsOf
<1>5. /\ deriv' \in [Derivers -> DerivType]
      /\ \A p \in Derivers : deriv'[p].at = deriv[p].at /\ deriv'[p].timings = deriv[p].timings
      /\ ~same => (deriv'["init"].alone <=> ~Deriving("init"))
  <2>1. Deriving("init") \in BOOLEAN /\ "init" \in Derivers
    BY DEF Deriving, Derivers
  <2>2. CASE same
    BY <1>1, <1>3, <2>2
  <2>3. CASE ~same
    BY <1>1, <1>3, <2>1, <2>3 DEF DerivType
  <2> QED
    BY <2>2, <2>3
<1>6. \A p \in Derivers : Deriving(p)' <=> Deriving(p)
  BY <1>5 DEF Deriving
<1>7. ASSUME NEW p \in Derivers, Deriving(p)', deriv'[p].alone
      PROVE  /\ deriv'[p].timings = s.timings /\ ~Deriving(OtherDeriver(p))'
             /\ StoresMade(deriv'[p].at, s.vip, s.timings)
  <2>1. p = "init" /\ Deriving(p)
    BY <1>6, <1>7 DEF Derivers
  <2>2. same
    BY <1>5, <1>7, <2>1
  <2>3. deriv' = deriv /\ s.timings = stream.timings
    BY <1>1, <1>2, <2>2
  <2> QED
    BY <1>7, <2>1, <2>3 DEF CfgInv, DerivInv, Deriving
<1>8. DerivInv'
  <2>1. \A p \in Derivers : deriv'[p].at > 1 => Supported(deriv'[p].timings)
    BY <1>5 DEF CfgInv, DerivInv
  <2> QED
    BY <1>1, <1>7, <2>1 DEF DerivInv
<1> QED
  BY <1>1, <1>3, <1>4, <1>5, <1>6, <1>8 DEF Derivers

\* The settings ioctls.
LEMMA IoctlStep ==
  ASSUME CfgInv, SInput \/ SStd \/ SDvTimingsStore \/ SDvTimingsEnd
  PROVE  CfgInv'
<1>1. PICK r \in StreamType :
        /\ SetStream(r) /\ r.vip = stream.vip
        /\ \/ /\ sent = "none" /\ sent' = "none"
              /\ r.timings = stream.timings /\ FormatOf(r)
           \/ /\ sent # "none" /\ r.timings = sent
              /\ sent' = sent \/ (sent' = "none" /\ FormatOf(r))
  <2> USE DEF CfgInv, CfgTypeInv
  <2>1. CASE SInput
    <3>1. PICK i \in {0, 1} : SetStream(Refilled([stream EXCEPT !.input = i]))
      BY <2>1 DEF SInput
    <3> DEFINE s == [stream EXCEPT !.input = i]
               r == Refilled(s)
    <3>2. s \in StreamType /\ s.timings = stream.timings /\ s.vip = stream.vip
      BY DEF StreamType
    <3>3. r = [s EXCEPT !.format = FillPixFormat(s, s.format.field)] /\ SetStream(r)
      BY <3>1 DEF Refilled
    <3> HIDE DEF s, r
    <3>4. r \in StreamType /\ FormatOf(r) /\ r.timings = s.timings /\ r.vip = s.vip
      BY <3>2, <3>3, FilledStream
    <3> QED
      BY <2>1, <3>2, <3>3, <3>4 DEF SInput, Unlocked
  <2>2. CASE SStd
    <3>1. PICK std \in {"525", "625"} : SetStream(Refilled([stream EXCEPT !.std = std]))
      BY <2>2 DEF SStd
    <3> DEFINE s == [stream EXCEPT !.std = std]
               r == Refilled(s)
    <3>2. s \in StreamType /\ s.timings = stream.timings /\ s.vip = stream.vip
      BY DEF StreamType
    <3>3. r = [s EXCEPT !.format = FillPixFormat(s, s.format.field)] /\ SetStream(r)
      BY <3>1 DEF Refilled
    <3> HIDE DEF s, r
    <3>4. r \in StreamType /\ FormatOf(r) /\ r.timings = s.timings /\ r.vip = s.vip
      BY <3>2, <3>3, FilledStream
    <3> QED
      BY <2>2, <3>2, <3>3, <3>4 DEF SStd, Unlocked
  <2>3. CASE SDvTimingsStore
    <3>1. sent \in CfgTimings /\ sent # "none" /\ sent' = sent
      BY <2>3 DEF SDvTimingsStore, CfgTypeOK
    <3> DEFINE s == [stream EXCEPT !.timings = sent]
    <3>2. s \in StreamType /\ s.timings = sent /\ s.vip = stream.vip /\ SetStream(s)
      BY <2>3, <3>1 DEF StreamType, SDvTimingsStore
    <3> HIDE DEF s
    <3> QED
      BY <3>1, <3>2
  <2>4. CASE SDvTimingsEnd
    <3>1. sent = stream.timings /\ sent # "none" /\ sent' = "none"
      BY <2>4, TimingsKnown DEF SDvTimingsEnd, StreamType
    <3> DEFINE r == Refilled(stream)
    <3>2. r = [stream EXCEPT !.format = FillPixFormat(stream, stream.format.field)]
          /\ SetStream(r)
      BY <2>4 DEF Refilled, SDvTimingsEnd
    <3> HIDE DEF r
    <3>3. r \in StreamType /\ FormatOf(r) /\ r.timings = stream.timings /\ r.vip = stream.vip
      BY <3>2, FilledStream
    <3> QED
      BY <3>1, <3>2, <3>3
  <2> QED
    BY <2>1, <2>2, <2>3, <2>4
<1>2. /\ UNCHANGED <<rxTimings, bufs, streaming, engine, subdev, crossed>> /\ ~Busy
      /\ cfgCalls' \in 0 .. MaxCfgCalls /\ ~Deriving("ioctl")
  <2>1. CASE SInput \/ SStd
    <3>1. /\ UNCHANGED <<rxTimings, bufs, streaming, engine, subdev, crossed>> /\ ~Busy
          /\ Unlocked /\ Count
      BY <2>1 DEF SInput, SStd
    <3> QED
      BY <3>1, CfgCallsAssumption DEF CfgInv, CfgTypeInv, CfgTypeOK, Count, Unlocked
  <2>2. CASE SDvTimingsStore \/ SDvTimingsEnd
    <3>1. /\ UNCHANGED <<rxTimings, bufs, streaming, engine, subdev, crossed, cfgCalls>>
          /\ sent # "none"
      BY <2>2, TimingsKnown
         DEF SDvTimingsStore, SDvTimingsEnd, CfgInv, CfgTypeInv, StreamType
    <3> QED
      BY <3>1 DEF CfgInv, CfgTypeInv, CfgTypeOK, BufsInv
  <2> QED
    BY <2>1, <2>2
<1>3. /\ ParamsInv' /\ DerivInv' /\ stream' = r /\ derived' \in BOOLEAN
      /\ deriv' \in [Derivers -> DerivType] /\ ~Deriving("ioctl")'
  BY <1>1, <1>2, SettingsStep
<1>4. "none" \notin CfgTimings /\ r.timings \in CfgTimings /\ sent \in CfgTimings \cup {"none"}
  BY TimingsKnown DEF StreamType, CfgInv, CfgTypeInv, CfgTypeOK
<1>5. FormatInv'
  BY <1>1, <1>3, <1>4 DEF FormatInv, FormatOf
<1>6. BufsInv' /\ EngineInv' /\ ReceiverInv'
  <2>1. streaming = "off" /\ streaming' = "off" /\ ~Busy'
    BY <1>2 DEF CfgInv, BufsInv, Busy
  <2>2. BufsInv'
    BY <1>3, <2>1 DEF BufsInv
  <2>3. EngineInv'
    BY <2>1 DEF EngineInv
  <2>4. ReceiverInv'
    BY <1>1, <1>2, <1>3, <1>4 DEF CfgInv, ReceiverInv
  <2> QED
    BY <2>2, <2>3, <2>4
<1>7. CfgTypeInv'
  <2>1. sent' \in CfgTimings \cup {"none"}
    BY <1>1, <1>4
  <2> QED
    BY <1>2, <1>3, <2>1
       DEF CfgInv, CfgTypeInv, CfgTypeOK, StreamType, FormatType, VipType, VipOK, DerivType
<1> QED
  BY <1>3, <1>5, <1>6, <1>7 DEF CfgInv

\* A derivation begins, of an ioctl that has stored the format s or of
\* saa716x_subdev_init().
LEMMA DeriveBegins ==
  ASSUME CfgInv, SFmt \/ SubdevParams
  PROVE  CfgInv'
<1>1. PICK p \in Derivers :
        /\ deriv' = DeriveStarted(p) /\ ~derived' /\ derived' \in BOOLEAN
        /\ p = "ioctl" => SFmt
        /\ p = "init" => SubdevParams
  <2>1. CASE SFmt
    BY <2>1 DEF SFmt, Derivers
  <2>2. CASE SubdevParams
    BY <2>2 DEF SubdevParams, Derivers
  <2> QED
    BY <2>1, <2>2
<1> DEFINE o == OtherDeriver(p)
<1>2. /\ p # o /\ o \in Derivers /\ Derivers = {p, o} /\ OtherDeriver(o) = p
  BY DEF OtherDeriver, Derivers
<1>3. /\ deriv'[p] = [at |-> 1, timings |-> stream.timings, alone |-> ~Deriving(o)]
      /\ deriv'[o] = [deriv[o] EXCEPT !.alone = ~Deriving(o)]
      /\ DOMAIN deriv' = Derivers
      /\ deriv' = [c \in Derivers |-> deriv'[c]]
  BY <1>1, <1>2 DEF DeriveStarted
<1> HIDE DEF o
<1>4. stream.timings \in CfgTimings /\ deriv[o] \in DerivType /\ Deriving(o) \in BOOLEAN
  BY <1>2 DEF CfgInv, CfgTypeInv, StreamType, Deriving
<1>5. deriv'[p] \in DerivType /\ deriv'[o] \in DerivType /\ deriv'[o].at = deriv[o].at
      /\ (deriv'[o].alone <=> ~Deriving(o)) /\ deriv'[p].at = 1 /\ (deriv'[p].alone <=> ~Deriving(o))
      /\ deriv'[p].timings = stream.timings
  <2>1. (~Deriving(o)) \in BOOLEAN /\ 1 \in 0 .. 5
    OBVIOUS
  <2> DEFINE b == ~Deriving(o)
  <2>2. /\ deriv'[p] = [at |-> 1, timings |-> stream.timings, alone |-> b]
        /\ deriv'[o] = [deriv[o] EXCEPT !.alone = b] /\ b \in BOOLEAN
    BY <1>3, <2>1
  <2>3. b <=> ~Deriving(o)
    OBVIOUS
  <2> HIDE DEF b
  <2> QED
    BY <1>4, <2>2, <2>3 DEF DerivType
<1>6. /\ deriv' \in [Derivers -> DerivType]
      /\ Deriving(p)' /\ (Deriving(o)' <=> Deriving(o))
  BY <1>2, <1>3, <1>5 DEF Deriving
<1>7. /\ stream' \in StreamType /\ stream'.timings = stream.timings
      /\ stream'.vip = stream.vip
      /\ SubdevParams => stream' = stream
      /\ (SFmt \/ FormatOf(stream)) => FormatOf(stream')
  <2>1. CASE SFmt
    <3>1. PICK f \in Fields : stream' = [stream EXCEPT !.format = FillPixFormat(stream, f)]
      BY <2>1 DEF SFmt
    <3>2. /\ stream' \in StreamType /\ FormatOf(stream')
          /\ stream'.timings = stream.timings /\ stream'.vip = stream.vip
      BY <3>1, FilledStream DEF CfgInv, CfgTypeInv
    <3>3. SubdevParams => stream' = stream
      BY DEF SubdevParams
    <3> QED
      BY <3>2, <3>3
  <2>2. CASE SubdevParams /\ ~SFmt
    <3>1. stream' = stream
      BY <2>2 DEF SubdevParams
    <3> QED
      BY <2>2, <3>1 DEF CfgInv, CfgTypeInv
  <2> QED
    BY <2>1, <2>2
<1>8. DerivInv'
  <2>2. \A q \in Derivers : deriv'[q].at > 1 => Supported(deriv'[q].timings)
    <3>1. deriv'[o].at = deriv[o].at /\ deriv'[o].timings = deriv[o].timings
      BY <1>3, <1>4 DEF DerivType
    <3>2. deriv[o].at > 1 => Supported(deriv[o].timings)
      BY <1>2 DEF CfgInv, DerivInv
    <3> QED
      BY <1>2, <1>5, <3>1, <3>2
  <2> SUFFICES ASSUME NEW q \in Derivers, Deriving(q)', deriv'[q].alone
               PROVE  /\ deriv'[q].timings = stream'.timings
                      /\ ~Deriving(OtherDeriver(q))'
                      /\ StoresMade(deriv'[q].at, stream'.vip, stream'.timings)
    BY <2>2 DEF DerivInv
  <2>1. q = p
    BY <1>2, <1>5, <1>6
  <2> QED
    BY <1>5, <1>6, <1>7, <2>1 DEF StoresMade, o
<1>9. /\ UNCHANGED <<rxTimings, bufs, streaming, engine, sent, crossed>>
      /\ cfgCalls' \in 0 .. MaxCfgCalls
      /\ subdev' \in {"none", "probed", "params", "done", "failed"}
      /\ subdev' = "done" => subdev = "done"
  <2>1. CASE SFmt
    <3>1. UNCHANGED <<rxTimings, bufs, streaming, engine, sent, subdev, crossed>> /\ Count
      BY <2>1 DEF SFmt
    <3> QED
      BY <3>1, CfgCallsAssumption DEF CfgInv, CfgTypeInv, CfgTypeOK, Count
  <2>2. CASE SubdevParams
    BY <2>2 DEF CfgInv, CfgTypeInv, CfgTypeOK, SubdevParams
  <2> QED
    BY <2>1, <2>2
<1>10. CASE p = "ioctl"
  <2>1. ~Busy /\ sent = "none"
    BY <1>1, <1>10 DEF SFmt, Unlocked
  <2>2. streaming' = "off" /\ ~Busy'
    BY <1>9, <2>1 DEF CfgInv, BufsInv, Busy
  <2>3. BufsInv'
    BY <1>9, <2>1, <2>2 DEF BufsInv
  <2>4. EngineInv'
    BY <2>2 DEF EngineInv
  <2>5. FormatInv'
    BY <1>1, <1>7, <1>10 DEF FormatInv, FormatOf
  <2> QED
    BY <1>1, <1>6, <1>7, <1>8, <1>9, <2>3, <2>4, <2>5
       DEF CfgInv, CfgTypeInv, CfgTypeOK, StreamType, FormatType, VipType, VipOK, DerivType,
           ParamsInv, ReceiverInv
<1>11. CASE p = "init"
  <2>1. stream' = stream /\ o = "ioctl"
    BY <1>1, <1>7, <1>11 DEF o, OtherDeriver
  <2>2. BufsInv'
    BY <1>6, <1>9, <2>1 DEF CfgInv, BufsInv, Busy
  <2>3. EngineInv'
    BY <1>9, <2>1 DEF CfgInv, EngineInv, ParamsOf
  <2>5. FormatInv'
    BY <1>9, <2>1 DEF CfgInv, FormatInv, FormatOf
  <2> QED
    BY <1>1, <1>6, <1>7, <1>8, <1>9, <2>1, <2>2, <2>3, <2>5
       DEF CfgInv, CfgTypeInv, CfgTypeOK, StreamType, FormatType, VipType, VipOK, DerivType,
           ParamsInv, ReceiverInv
<1> QED
  BY <1>10, <1>11 DEF Derivers

\* A derivation makes its next store.
LEMMA DeriveStep ==
  ASSUME CfgInv, NEW p \in Derivers, DeriveStore(p)
  PROVE  CfgInv'
<1> DEFINE o == OtherDeriver(p)
           d == deriv[p]
           w == StoredParams(d.at, d.timings, stream)
<1>1. p # o /\ o \in Derivers /\ Derivers = {p, o} /\ OtherDeriver(o) = p
  BY DEF OtherDeriver, Derivers
<1>2. /\ Deriving(p) /\ stream' = [stream EXCEPT !.vip = w]
      /\ deriv' = [deriv EXCEPT ![p] = IF d.at = LastStore(d.timings) THEN NotDeriving
                                       ELSE [d EXCEPT !.at = d.at + 1]]
      /\ derived' = (d.at = 5 /\ d.alone)
      /\ UNCHANGED <<rxTimings, bufs, streaming, engine, sent, subdev, cfgCalls, crossed>>
  BY DEF DeriveStore
<1>3. /\ d \in DerivType /\ d.at \in 1 .. 5 /\ deriv \in [Derivers -> DerivType]
      /\ stream \in StreamType
  BY <1>2 DEF CfgInv, CfgTypeInv, DerivType, Deriving
<1>4. w \in VipType
  BY <1>3, StoredType
<1>5. Deriving(p) /\ d.alone => /\ d.timings = stream.timings /\ ~Deriving(o)
                              /\ StoresMade(d.at, stream.vip, stream.timings)
  BY DEF CfgInv, DerivInv
<1> HIDE DEF o, w
<1>6. /\ stream' \in StreamType /\ stream'.vip = w /\ stream'.timings = stream.timings
      /\ stream'.format = stream.format /\ stream'.input = stream.input
      /\ stream'.std = stream.std
  BY <1>2, <1>3, <1>4 DEF StreamType
<1>7. /\ deriv'[o] = deriv[o] /\ deriv' \in [Derivers -> DerivType]
      /\ d.at = LastStore(d.timings) => deriv'[p] = NotDeriving
      /\ d.at # LastStore(d.timings) => deriv'[p] = [d EXCEPT !.at = d.at + 1]
  <2>1. NotDeriving \in DerivType
    BY DEF NotDeriving, DerivType
  <2>2. d.at # LastStore(d.timings) => d.at < 5 /\ [d EXCEPT !.at = d.at + 1] \in DerivType
    <3>1. d.at > 1 => Supported(d.timings)
      BY DEF CfgInv, DerivInv
    <3>2. d.at # LastStore(d.timings) => d.at < 5
      BY <1>3, <3>1 DEF LastStore
    <3> QED
      BY <1>3, <3>2 DEF DerivType
  <2> HIDE DEF d
  <2> QED
    BY <1>1, <1>2, <1>3, <2>1, <2>2
<1>8. deriv'[p].at > 1 => Supported(deriv'[p].timings)
  <2>1. d.at > 1 => Supported(d.timings)
    BY DEF CfgInv, DerivInv
  <2>2. CASE d.at = LastStore(d.timings)
    BY <1>7, <2>2 DEF NotDeriving
  <2>3. CASE d.at # LastStore(d.timings)
    <3>1. Supported(d.timings)
      BY <1>3, <2>1, <2>3 DEF LastStore
    <3>2. deriv'[p].timings = d.timings
      BY <1>3, <1>7, <2>3 DEF DerivType
    <3> QED
      BY <3>1, <3>2
  <2> QED
    BY <2>2, <2>3
<1>9. /\ w = StoredParams(d.at, d.timings, stream)
      /\ Deriving(p)' => /\ deriv'[p].at = d.at + 1 /\ d.at < 5
                        /\ deriv'[p].timings = d.timings /\ deriv'[p].alone = d.alone
                        /\ Supported(d.timings)
      /\ d.at = 5 => Supported(d.timings)
  <2>1. d.at > 1 => Supported(d.timings)
    BY DEF CfgInv, DerivInv
  <2>2. d.at # LastStore(d.timings) => d.at < 5 /\ Supported(d.timings)
    BY <1>3, <2>1 DEF LastStore
  <2>3. d.at # LastStore(d.timings) =>
          /\ deriv'[p].at = d.at + 1
          /\ deriv'[p].timings = d.timings /\ deriv'[p].alone = d.alone
    BY <1>3, <1>7 DEF DerivType
  <2>4. Deriving(p)' => d.at # LastStore(d.timings)
    BY <1>7 DEF Deriving, NotDeriving
  <2> QED
    BY <1>3, <2>1, <2>2, <2>3, <2>4 DEF w
<1> HIDE DEF d
<1>10. d.alone =>
         /\ Deriving(p)' => StoresMade(d.at + 1, w, stream.timings)
         /\ d.at = 5 => ParamsOf(w, stream)
  <2> SUFFICES ASSUME d.alone, Deriving(p)' \/ d.at = 5
               PROVE  /\ d.at < 5 => StoresMade(d.at + 1, w, stream.timings)
                      /\ d.at = 5 => ParamsOf(w, stream)
    BY <1>9
  <2>1. Supported(stream.timings) /\ d.timings = stream.timings
        /\ StoresMade(d.at, stream.vip, stream.timings)
    BY <1>2, <1>5, <1>9
  <2>2. w = StoredParams(d.at, stream.timings, stream)
    BY <1>9, <2>1
  <2> QED
    BY <1>3, <2>1, <2>2, StoresAdd
<1>11. DerivInv'
  <2> SUFFICES ASSUME NEW q \in Derivers
               PROVE  /\ deriv'[q].at > 1 => Supported(deriv'[q].timings)
                      /\ Deriving(q)' /\ deriv'[q].alone =>
                           /\ deriv'[q].timings = stream'.timings
                           /\ ~Deriving(OtherDeriver(q))'
                           /\ StoresMade(deriv'[q].at, stream'.vip, stream'.timings)
    BY DEF DerivInv
  <2>1. CASE q = p
    <3>1. Deriving(o)' <=> Deriving(o)
      BY <1>7 DEF Deriving
    <3>2. OtherDeriver(p) = o
      BY DEF o
    <3> QED
      BY <1>2, <1>5, <1>6, <1>8, <1>9, <1>10, <2>1, <3>1, <3>2
  <2>2. CASE q = o
    <3>1. /\ deriv[o].at > 1 => Supported(deriv[o].timings)
          /\ Deriving(o) /\ deriv[o].alone => ~Deriving(OtherDeriver(o))
      BY <1>1 DEF CfgInv, DerivInv
    <3>2. Deriving(o)' => Deriving(o)
      BY <1>7 DEF Deriving
    <3> QED
      BY <1>1, <1>2, <1>7, <2>2, <3>1, <3>2
  <2> QED
    BY <1>1, <2>1, <2>2
<1>12. ParamsInv'
  <2>1. derived' => d.at = 5 /\ d.alone
    BY <1>2
  <2> QED
    BY <1>6, <1>10, <2>1 DEF ParamsInv, ParamsOf
<1>13. FormatInv' /\ EngineInv'
  <2>1. FillPixFormat(stream', stream.format.field) = FillPixFormat(stream, stream.format.field)
    BY <1>6, FormatDepends
  <2>2. FormatInv'
    BY <1>2, <1>6, <2>1 DEF CfgInv, FormatInv, FormatOf
  <2>3. EngineInv'
    BY <1>2, <1>6 DEF CfgInv, EngineInv, ParamsOf
  <2> QED
    BY <2>2, <2>3
<1>14. BufsInv' /\ ReceiverInv'
  <2>1. Deriving("ioctl")' => Deriving("ioctl")
    <3>1. Deriving(p)' => Deriving(p)
      BY <1>2
    <3>2. Deriving(o)' => Deriving(o)
      BY <1>7 DEF Deriving
    <3>3. "ioctl" \in {p, o}
      BY <1>1 DEF Derivers
    <3> QED
      BY <3>1, <3>2, <3>3
  <2> QED
    BY <1>2, <1>6, <2>1 DEF CfgInv, BufsInv, ReceiverInv, Busy
<1>15. CfgTypeInv'
  <2>1. derived' \in BOOLEAN
    <3>1. d.alone \in BOOLEAN /\ (d.at = 5) \in BOOLEAN
      BY <1>3 DEF DerivType
    <3> QED
      BY <1>2, <3>1
  <2> QED
    BY <1>2, <1>6, <1>7, <2>1
       DEF CfgInv, CfgTypeInv, CfgTypeOK, StreamType, FormatType, VipType, VipOK, DerivType
<1> QED
  BY <1>11, <1>12, <1>13, <1>14, <1>15 DEF CfgInv

\* The steps that leave the stream alone.
LEMMA StreamKept ==
  ASSUME CfgInv,
         \/ SDvTimingsBegin \/ ReqBufs \/ StreamOn \/ StreamGo \/ StreamOff
         \/ SubdevProbe \/ SubdevTimings
  PROVE  CfgInv'
<1>1. UNCHANGED <<stream, derived, deriv>>
  BY DEF SDvTimingsBegin, ReqBufs, StreamOn, StreamGo, StreamOff, SubdevProbe, SubdevTimings
<1>2. ParamsInv' /\ DerivInv' /\ (Deriving("ioctl")' <=> Deriving("ioctl"))
  BY <1>1 DEF CfgInv, ParamsInv, ParamsOf, DerivInv, Deriving
<1>3. NotStreaming \in EngineType /\ ~NotStreaming.derived
  BY DEF NotStreaming, EngineType, VipType
<1>4. /\ engine' \in EngineType /\ EngineInv'
      /\ streaming' \in {"off", "starting", "on"}
  <2>1. CASE StreamOn
    <3>1. engine' = [vip |-> stream.vip, derived |-> derived] /\ streaming' = "starting"
      BY <2>1 DEF StreamOn
    <3>2. stream.vip \in VipType /\ derived \in BOOLEAN
      BY DEF CfgInv, CfgTypeInv, CfgTypeOK, StreamType
    <3> QED
      BY <1>1, <3>1, <3>2 DEF EngineType, EngineInv, CfgInv, ParamsInv, ParamsOf
  <2>2. CASE StreamGo
    <3>1. CASE streaming' = "off" /\ engine' = NotStreaming
      BY <1>3, <3>1 DEF EngineInv
    <3>2. CASE streaming' = "on"
      <4>1. PICK w \in {engine.vip.samples, stream.vip.samples},
                 h \in {engine.vip.lines, stream.vip.lines} :
              engine' = [vip |-> [stream.vip EXCEPT !.samples = w, !.lines = h],
                         derived |-> engine.derived /\ derived]
        BY <2>2, <3>2 DEF StreamGo
      <4> DEFINE v == [stream.vip EXCEPT !.samples = w, !.lines = h]
                 b == engine.derived /\ derived
      <4>2. /\ stream.vip \in VipType /\ b \in BOOLEAN /\ w \in Nat /\ h \in Nat
        BY DEF CfgInv, CfgTypeInv, CfgTypeOK, StreamType, EngineType, VipType
      <4>3. v \in VipType /\ v.samples = w /\ v.lines = h /\ v.flags = stream.vip.flags
        BY <4>2 DEF VipType
      <4>4. b => ParamsOf(v, stream)
        <5>1. streaming = "starting"
          BY <2>2 DEF StreamGo
        <5>2. b => /\ w = Width(stream.timings) /\ h = Height(stream.timings)
                   /\ ParamsOf(stream.vip, stream)
          BY <5>1 DEF CfgInv, EngineInv, ParamsInv, ParamsOf
        <5> HIDE DEF b, v
        <5> QED
          BY <4>3, <5>2 DEF ParamsOf
      <4>5. engine' = [vip |-> v, derived |-> b]
        BY <4>1
      <4> HIDE DEF v, b
      <4>6. engine' \in EngineType /\ engine'.vip = v /\ engine'.derived = b
        BY <4>2, <4>3, <4>5 DEF EngineType
      <4> QED
        BY <1>1, <3>2, <4>4, <4>6 DEF EngineInv, ParamsOf
    <3> QED
      BY <2>2, <3>1, <3>2 DEF StreamGo
  <2>3. CASE StreamOff
    BY <1>3, <2>3 DEF StreamOff, EngineInv
  <2>4. CASE SDvTimingsBegin \/ ReqBufs \/ SubdevProbe \/ SubdevTimings
    <3>1. UNCHANGED <<stream, streaming, engine>>
      BY <2>4 DEF SDvTimingsBegin, ReqBufs, SubdevProbe, SubdevTimings
    <3> QED
      BY <3>1 DEF CfgInv, CfgTypeInv, CfgTypeOK, EngineInv, ParamsOf
  <2> QED
    BY <2>1, <2>2, <2>3, <2>4
<1>5. FormatInv' /\ BufsInv' /\ ReceiverInv'
  <2> USE <1>1, <1>2, TimingsKnown
      DEF CfgInv, CfgTypeInv, CfgTypeOK, StreamType, BufsInv, ReceiverInv, Busy, Unlocked,
          FormatInv, FormatOf
  <2>1. CASE SDvTimingsBegin
    <3>1. PICK v \in CfgTimings \ {stream.timings} : rxTimings' = v /\ sent' = v
      BY <2>1 DEF SDvTimingsBegin
    <3>2. /\ UNCHANGED <<bufs, streaming, subdev>> /\ ~Busy /\ sent = "none" /\ ~Deriving("ioctl")
          /\ crossed' = (crossed \/ subdev # "done")
      BY <2>1 DEF SDvTimingsBegin
    <3> QED
      BY <3>1, <3>2
  <2>2. CASE ReqBufs
    BY <2>2 DEF ReqBufs
  <2>3. CASE StreamOn \/ StreamGo \/ StreamOff
    <3>1. /\ UNCHANGED <<rxTimings, bufs, sent, subdev, crossed>>
          /\ streaming' # "off" => Busy
      BY <2>3 DEF StreamOn, StreamGo, StreamOff
    <3> QED
      BY <3>1
  <2>4. CASE SubdevProbe
    BY <2>4 DEF SubdevProbe
  <2>5. CASE SubdevTimings
    BY <2>5 DEF SubdevTimings
  <2> QED
    BY <2>1, <2>2, <2>3, <2>4, <2>5
<1>6. CfgTypeInv'
  <2>1. /\ cfgCalls' \in 0 .. MaxCfgCalls /\ sent' \in CfgTimings \cup {"none"}
        /\ rxTimings' \in CfgTimings \cup {"1080p30"} /\ crossed' \in BOOLEAN
        /\ bufs' \in Nat
        /\ subdev' \in {"none", "probed", "params", "done", "failed"}
    <3> USE DEF CfgInv, CfgTypeInv, CfgTypeOK
    <3>1. CASE SDvTimingsBegin
      BY <3>1, CfgCallsAssumption DEF SDvTimingsBegin, Count
    <3>2. CASE ReqBufs
      BY <3>2 DEF ReqBufs
    <3>3. CASE StreamOn \/ StreamGo \/ StreamOff \/ SubdevProbe
      BY <3>3 DEF StreamOn, StreamGo, StreamOff, SubdevProbe
    <3>4. CASE SubdevTimings
      BY <3>4 DEF SubdevTimings
    <3> QED
      BY <3>1, <3>2, <3>3, <3>4
  <2> QED
    BY <1>1, <1>4, <2>1
       DEF CfgInv, CfgTypeInv, CfgTypeOK, StreamType, FormatType, VipType, VipOK, EngineType
<1> QED
  BY <1>2, <1>4, <1>5, <1>6 DEF CfgInv

\* The capture configuration keeps its invariant, ioctls, streaming and
\* saa716x_subdev_init() alike.
LEMMA CfgStep == CfgInv /\ [CfgNext]_cfgVars => CfgInv'
<1> SUFFICES ASSUME CfgInv, [CfgNext]_cfgVars PROVE CfgInv'
  OBVIOUS
<1>1. CASE UNCHANGED cfgVars
  BY <1>1 DEF cfgVars, CfgInv, CfgTypeInv, CfgTypeOK, FormatInv, FormatOf, ParamsInv, ParamsOf,
     DerivInv, Deriving, EngineInv, BufsInv, ReceiverInv, Busy, VipOK
<1>2. "ioctl" \in Derivers /\ "init" \in Derivers
  BY DEF Derivers
<1> QED
  BY <1>1, <1>2, IoctlStep, DeriveBegins, DeriveStep, StreamKept DEF CfgNext

\* It holds at the start.
LEMMA CfgInvInit == CfgInit => CfgInv
<1> SUFFICES ASSUME CfgInit PROVE CfgInv
  OBVIOUS
<1>1. PICK s \in StreamType : stream = Refilled(s)
  <2>1. PICK r \in {"TDA19978", "ADV7611"} :
          stream = Refilled([input |-> 0, std |-> "625", timings |-> "720p60",
                             receiver |-> r, format |-> Pix(0, 0, "none"),
                             vip |-> NotStreaming.vip])
    BY DEF CfgInit
  <2>2. Pix(0, 0, "none") \in FormatType
    BY DEF Pix, FormatType, Fields
  <2>3. NotStreaming.vip \in VipType
    BY DEF NotStreaming, VipType
  <2>4. [input |-> 0, std |-> "625", timings |-> "720p60", receiver |-> r,
         format |-> Pix(0, 0, "none"), vip |-> NotStreaming.vip] \in StreamType
    BY <2>2, <2>3, CfgTimingsAssumption DEF StreamType
  <2> QED
    BY <2>1, <2>4
<1>2. stream \in StreamType /\ FormatOf(stream)
  <2>1. stream = [s EXCEPT !.format = FillPixFormat(s, s.format.field)]
    BY <1>1 DEF Refilled
  <2> QED
    BY <2>1, FilledStream
<1>3. /\ rxTimings = "1080p30" /\ bufs = 0 /\ streaming = "off" /\ sent = "none"
      /\ engine = NotStreaming /\ deriv = [p \in Derivers |-> NotDeriving]
      /\ subdev = "none" /\ ~derived /\ cfgCalls = 0 /\ ~crossed
      /\ {crossed, derived} \subseteq BOOLEAN
  BY Zenon DEF CfgInit
<1>4. /\ engine \in EngineType /\ deriv \in [Derivers -> DerivType]
      /\ \A p \in Derivers : deriv[p].at = 0 /\ ~Deriving(p)
  BY <1>3 DEF NotStreaming, EngineType, VipType, NotDeriving, DerivType, Deriving
<1>5. CfgTypeOK
  BY <1>2, <1>3, <1>4, CfgCallsAssumption
     DEF CfgTypeOK, StreamType, FormatType, VipType, VipOK, EngineType, DerivType
<1> QED
  BY <1>2, <1>3, <1>4, <1>5
     DEF CfgInv, CfgTypeInv, FormatInv, ParamsInv, DerivInv, EngineInv, BufsInv, ReceiverInv,
         Busy, Derivers

\* What the engine writes for a buffer, with the parameters v for the stream.
LEMMA BytesOf ==
  ASSUME stream \in StreamType, FormatOf(stream), stream.input = 0,
         NEW v, ParamsOf(v, stream)
  PROVE  /\ EngineBytes(v) <= stream.format.sizeimage
         /\ HighDef(stream.timings) => EngineBytes(v) = stream.format.sizeimage
<1> DEFINE t == stream.timings
           n == stream.format.sizeimage
<1>1. t \in AllTimings
  BY TimingsKnown DEF StreamType
<1>2. t # "720p24" /\ v.samples = Width(t) /\ v.lines = Height(t)
  BY DEF ParamsOf, Supported
<1>3. CASE t = "480p"
  <2>1. n = 720 * 2 * 480
    BY <1>3 DEF FormatOf, FillPixFormat, Interlaced, Width, Height, Pix
  <2>2. v.samples = 720 /\ v.lines = 480
    BY <1>2, <1>3 DEF Width, Height
  <2> QED
    BY <1>3, <2>1, <2>2 DEF EngineBytes, HighDef
<1>4. CASE t \in {"720p60", "1080p30"}
  <2>1. stream.format.field = "none" /\ n = Width(t) * 2 * Height(t)
    BY <1>4 DEF FormatOf, FillPixFormat, Interlaced, Pix
  <2>2. v.flags = {"HD"}
    BY <1>4, <2>1 DEF ParamsOf, HighDef, Interlaced, BaseFlags, FieldFlags
  <2> QED
    BY <1>2, <2>1, <2>2, <1>4 DEF EngineBytes, Width, Height
<1>5. CASE t = "1080i60"
  <2>1. v.flags = {"INTERLACED", "HD"} \cup FieldFlags(stream.format.field)
    BY <1>5 DEF ParamsOf, HighDef, Interlaced, BaseFlags
  <2>2. v.samples = 1920 /\ v.lines = 1080
    BY <1>2, <1>5 DEF Width, Height
  <2>3. CASE stream.format.field = "alternate"
    <3>1. n = 1920 * 2 * 540
      BY <1>5, <2>3 DEF FormatOf, FillPixFormat, Interlaced, Width, Height, Pix
    <3>2. {"INTERLACED", "ALTERNATE"} \subseteq v.flags
      BY <2>1, <2>3 DEF FieldFlags
    <3> QED
      BY <2>2, <3>1, <3>2 DEF EngineBytes
  <2>4. CASE stream.format.field # "alternate"
    <3>1. n = 1920 * 2 * 1080
      BY <1>5, <2>4 DEF FormatOf, FillPixFormat, Interlaced, Width, Height, Pix
    <3>2. "ALTERNATE" \notin v.flags
      BY <2>1, <2>4 DEF FieldFlags
    <3> QED
      BY <2>2, <3>1, <3>2 DEF EngineBytes
  <2> QED
    BY <2>3, <2>4
<1> QED
  BY <1>1, <1>2, <1>3, <1>4, <1>5 DEF AllTimings

\* Through any sequence of input, standard, timings and format ioctls, and with
\* saa716x_subdev_init() storing the same parameters field by field beside them,
\* buffers are of the format's size, and parameters of a derivation that no other call
\* crossed, for settings that have not changed, keep the engine within them.
THEOREM EngineWithinBuffers == CfgSpec => []EngineMatchesFormat
<1>1. CfgInv => EngineMatchesFormat
  <2> SUFFICES ASSUME CfgInv PROVE EngineMatchesFormat
    OBVIOUS
  <2>1. Busy => bufs = stream.format.sizeimage
    BY DEF CfgInv, BufsInv
  <2>2. ASSUME streaming = "on", stream.input = 0, engine.derived
        PROVE  /\ EngineBytes(engine.vip) <= bufs
               /\ HighDef(stream.timings) => EngineBytes(engine.vip) = bufs
    <3>1. ParamsOf(engine.vip, stream) /\ stream \in StreamType
      BY <2>2 DEF CfgInv, CfgTypeInv, EngineInv
    <3>2. Busy /\ sent = "none"
      BY <2>2 DEF CfgInv, BufsInv
    <3>3. FormatOf(stream)
      BY <3>1, <3>2, TimingsKnown DEF CfgInv, FormatInv, StreamType
    <3> QED
      BY <2>1, <2>2, <3>1, <3>2, <3>3, BytesOf
  <2> QED
    BY <2>1, <2>2 DEF EngineMatchesFormat
<1> QED
  BY <1>1, CfgInvInit, CfgStep, PTL DEF CfgSpec

\* The receiver has the stream's timings between calls, unless S_DV_TIMINGS and
\* saa716x_subdev_init() have crossed.
THEOREM ReceiverInStep == CfgSpec => []ReceiverFollows
<1>1. CfgInv => ReceiverFollows
  BY DEF CfgInv, ReceiverInv, ReceiverFollows
<1> QED
  BY <1>1, CfgInvInit, CfgStep, PTL DEF CfgSpec

-----------------------------------------------------------------------------
(* TS output.                                                              *)

\* The ring holds what was written after the last packet moved.
TsRingInv ==
  /\ Avail = written - moved /\ flushed <= moved
  /\ \A k \in 0 .. Avail - 1 :
       tsout.data[(tsout.pread + k) % TsoutLen] = moved + 1 + k

\* What each actor may be doing. The work item moves no more than there is.
ActorsInv ==
  /\ Step("writer") \in {"idle", "write", "test", "read", "kick"}
  /\ Step("worker") \in {"idle", "copy", "lock", "run", "read", "kick"}
  /\ Step("irq") \in {"idle", "read", "mask"}
  /\ Step("ioctl") \in {"idle", "stat", "cancel", "start", "flush", "fill"}
  /\ Step("writer") = "write" =>
       written + act["writer"].left <= MaxPackets /\ act["writer"].left <= MaxWrite
  /\ Step("worker") = "copy" => act["worker"].left \in 1 .. Avail

WorkerHolds == Step("worker") \in {"run", "read", "kick"}
IoctlHolds  == Step("ioctl") = "stat" /\ source = "memory"

\* Who holds the lock; and an ioctl that has set RESET under it keeps the work item
\* away, and has it at rest once it has cancelled it.
TsLockInv ==
  /\ tsLock <=> WorkerHolds \/ IoctlHolds
  /\ ~(WorkerHolds /\ IoctlHolds)
  /\ Step("ioctl") \in {"cancel", "start", "flush", "fill"} =>
       source = "memory" /\ tsout_stat = "RESET" /\ ~WorkerHolds
  /\ Step("ioctl") \in {"start", "flush", "fill"} => Step("worker") = "idle"

\* The FIFO is empty from its reset to the flush, and ends with the last packet
\* moved.
FifoInv ==
  /\ "reset" \in ctrl => fifo = <<>>
  /\ Step("ioctl") \in {"stat", "cancel", "start"} => "reset" \in ctrl
  /\ Step("ioctl") = "flush" => fifo = <<>>
  /\ fifo # <<>> => fifo[Len(fifo)] = moved
  /\ \A i \in 1 .. Len(fifo) : fifo[i] > flushed
  /\ \A i \in 2 .. Len(fifo) : fifo[i] = fifo[i - 1] + 1
  /\ source = "demux" /\ Step("ioctl") = "idle" => tsout_stat = "RESET"

\* Someone will turn the interrupt on, or find the FIFO empty and fill it.
Woken == \/ "irq" \in ctrl \/ Step("worker") # "idle" \/ Step("irq") # "idle"
         \/ fifo_work /\ fifo = <<>>

\* Otherwise the ring was found empty, and what it holds now is what the write in
\* progress has written; or it is filled and not a third full.
KickInv ==
  Step("ioctl") = "idle" =>
    /\ tsout_stat = "RUN" =>
         \/ Woken \/ Avail = 0 \/ Step("writer") \in {"test", "read", "kick"}
         \/ Step("writer") = "write" /\ Avail <= MaxWrite - act["writer"].left
    /\ tsout_stat = "FILL" /\ ~early =>
         Woken \/ Avail <= TsoutLen \div 3 \/ Step("writer") # "idle"

TsInv == /\ TsTypeOK /\ TsRingInv /\ ActorsInv /\ TsLockInv
         /\ ~tsRaced => FifoInv /\ KickInv

\* Positions in the ring.
LEMMA ModFacts ==
  ASSUME NEW n \in Nat \ {0}, NEW x \in 0 .. 2 * n - 1
  PROVE  x % n = IF x < n THEN x ELSE x - n
<1>1. x % n \in 0 .. n - 1 /\ x = n * (x \div n) + (x % n) /\ x \div n \in Nat
  OBVIOUS
<1>2. x \div n \in {0, 1}
  <2> DEFINE d == x \div n
  <2>1. SUFFICES ASSUME d >= 2 PROVE FALSE
    BY <1>1
  <2>2. d \in Nat /\ n * d >= n * 2
    BY <1>1, <2>1
  <2> HIDE DEF d
  <2> QED
    BY <1>1, <2>2 DEF d
<1>3. CASE x \div n = 0
  BY <1>1, <1>3
<1>4. CASE x \div n = 1
  BY <1>1, <1>4
<1> QED
  BY <1>2, <1>3, <1>4

\* The packets between two places of the ring, and the k-th place behind one.
LEMMA RingPlaces ==
  ASSUME NEW p \in 0 .. TsoutLen - 1, NEW q \in 0 .. TsoutLen - 1
  PROVE  /\ (q - p + TsoutLen) % TsoutLen = IF q >= p THEN q - p ELSE q - p + TsoutLen
         /\ \A k \in 0 .. TsoutLen - 1 :
              (p + k) % TsoutLen = IF p + k < TsoutLen THEN p + k ELSE p + k - TsoutLen
<1>1. TsoutLen \in Nat \ {0}
  BY TsoutLenAssumption
<1>2. (q - p + TsoutLen) % TsoutLen = IF q >= p THEN q - p ELSE q - p + TsoutLen
  <2>1. q - p + TsoutLen \in 0 .. 2 * TsoutLen - 1
    BY <1>1
  <2> DEFINE x == q - p + TsoutLen
  <2> HIDE DEF x
  <2>2. x % TsoutLen = IF x < TsoutLen THEN x ELSE x - TsoutLen
    BY <1>1, <2>1, ModFacts DEF x
  <2> QED
    BY <1>1, <2>1, <2>2 DEF x
<1>3. ASSUME NEW k \in 0 .. TsoutLen - 1
      PROVE  (p + k) % TsoutLen = IF p + k < TsoutLen THEN p + k ELSE p + k - TsoutLen
  <2>1. p + k \in 0 .. 2 * TsoutLen - 1
    BY <1>1
  <2> DEFINE x == p + k
  <2> HIDE DEF x
  <2>2. x % TsoutLen = IF x < TsoutLen THEN x ELSE x - TsoutLen
    BY <1>1, <2>1, ModFacts DEF x
  <2> QED
    BY <1>1, <2>1, <2>2 DEF x
<1> QED
  BY <1>2, <1>3

\* The packets in the ring are fewer than its places.
LEMMA RingFacts ==
  ASSUME TsTypeOK
  PROVE  /\ Avail \in 0 .. TsoutLen - 1
         /\ tsout.pread \in 0 .. TsoutLen - 1 /\ tsout.pwrite \in 0 .. TsoutLen - 1
<1>1. tsout.pread \in 0 .. TsoutLen - 1 /\ tsout.pwrite \in 0 .. TsoutLen - 1
  BY DEF TsTypeOK
<1> QED
  BY <1>1, RingPlaces, TsoutLenAssumption DEF Avail

\* A packet written.
LEMMA RingWrite ==
  ASSUME TsTypeOK, TsTypeOK', TsRingInv, Free > 0, UNCHANGED <<moved, flushed>>,
         tsout' = [tsout EXCEPT !.data[tsout.pwrite] = written + 1,
                                !.pwrite = (@ + 1) % TsoutLen],
         written' = written + 1
  PROVE  TsRingInv' /\ Avail' = Avail + 1
<1> DEFINE p == tsout.pread
           q == tsout.pwrite
           N == TsoutLen
<1>1. /\ N \in Nat \ {0} /\ N >= 2 /\ p \in 0 .. N - 1 /\ q \in 0 .. N - 1
      /\ written \in Nat /\ moved \in Nat
  BY TsoutLenAssumption DEF TsTypeOK
<1>2. /\ tsout'.pread = p /\ tsout'.pwrite = (q + 1) % N
      /\ \A i \in 0 .. N - 1 : tsout'.data[i] = IF i = q THEN written + 1 ELSE tsout.data[i]
  BY DEF TsTypeOK
<1>3. (q + 1) % N = IF q + 1 < N THEN q + 1 ELSE q + 1 - N
  <2>1. 1 \in 0 .. N - 1
    BY <1>1
  <2> QED
    BY <1>1, <2>1, RingPlaces
<1>4. /\ Avail \in 0 .. N - 1 /\ Avail = IF q >= p THEN q - p ELSE q - p + N
      /\ \A k \in 0 .. N - 1 : (p + k) % N = IF p + k < N THEN p + k ELSE p + k - N
  BY RingFacts, RingPlaces DEF Avail
<1>5. Avail' = IF tsout'.pwrite >= p THEN tsout'.pwrite - p ELSE tsout'.pwrite - p + N
  <2> DEFINE w == tsout'.pwrite
  <2>1. w \in 0 .. N - 1
    BY DEF TsTypeOK
  <2>2. Avail' = (w - p + N) % N
    BY <1>2 DEF Avail
  <2> HIDE DEF w, p
  <2>3. (w - p + N) % N = IF w >= p THEN w - p ELSE w - p + N
    BY <1>1, <2>1, RingPlaces
  <2> QED
    BY <2>2, <2>3 DEF w
<1>6. Avail < N - 1
  BY <1>4, <1>1 DEF Free
<1> HIDE DEF p, q, N
<1>7. Avail' = Avail + 1
  BY <1>1, <1>2, <1>3, <1>4, <1>5, <1>6
<1>8. Avail = written - moved
      /\ \A k \in 0 .. Avail - 1 : tsout.data[(p + k) % N] = moved + 1 + k
  BY DEF TsRingInv, p, N
<1>9. ASSUME NEW k \in 0 .. Avail PROVE tsout'.data[(p + k) % N] = moved + 1 + k
  <2>1. CASE k = Avail
    <3>1. (p + k) % N = q
      BY <1>1, <1>4, <2>1
    <3> QED
      BY <1>1, <1>2, <1>8, <2>1, <3>1
  <2>2. CASE k # Avail
    <3>1. k \in 0 .. Avail - 1 /\ (p + k) % N \in 0 .. N - 1 /\ (p + k) % N # q
      BY <1>1, <1>4, <2>2
    <3> QED
      BY <1>2, <1>8, <3>1
  <2> QED
    BY <2>1, <2>2
<1> QED
  BY <1>1, <1>2, <1>4, <1>7, <1>8, <1>9 DEF TsRingInv, p, N

\* A packet moved.
LEMMA RingMove ==
  ASSUME TsTypeOK, TsTypeOK', TsRingInv, Avail > 0, UNCHANGED <<written, flushed>>,
         tsout' = [tsout EXCEPT !.pread = (@ + 1) % TsoutLen],
         moved' = tsout.data[tsout.pread]
  PROVE  TsRingInv' /\ Avail' = Avail - 1 /\ moved' = moved + 1
<1> DEFINE p == tsout.pread
           q == tsout.pwrite
           N == TsoutLen
           r == tsout'.pread
<1>1. /\ N \in Nat \ {0} /\ N >= 2 /\ p \in 0 .. N - 1 /\ q \in 0 .. N - 1
      /\ written \in Nat /\ moved \in Nat /\ flushed \in Nat
  BY TsoutLenAssumption DEF TsTypeOK
<1>2. r = (p + 1) % N /\ tsout'.pwrite = q /\ tsout'.data = tsout.data
  BY DEF TsTypeOK
<1>3. (p + 1) % N = IF p + 1 < N THEN p + 1 ELSE p + 1 - N
  <2>1. 1 \in 0 .. N - 1
    BY <1>1
  <2> QED
    BY <1>1, <2>1, RingPlaces
<1>4. /\ Avail \in 0 .. N - 1 /\ Avail = IF q >= p THEN q - p ELSE q - p + N
      /\ \A k \in 0 .. N - 1 : (p + k) % N = IF p + k < N THEN p + k ELSE p + k - N
  BY RingFacts, RingPlaces DEF Avail
<1>5. /\ Avail' = IF q >= r THEN q - r ELSE q - r + N
      /\ \A k \in 0 .. N - 1 : (r + k) % N = IF r + k < N THEN r + k ELSE r + k - N
  <2>1. r \in 0 .. N - 1
    BY DEF TsTypeOK
  <2>2. Avail' = (q - r + N) % N
    BY <1>2 DEF Avail
  <2> HIDE DEF r, q
  <2> QED
    BY <1>1, <2>1, <2>2, RingPlaces
<1> HIDE DEF p, q, N, r
<1>7. Avail' = Avail - 1
  BY <1>1, <1>2, <1>3, <1>4, <1>5
<1>8. Avail = written - moved /\ flushed <= moved
      /\ \A k \in 0 .. Avail - 1 : tsout.data[(p + k) % N] = moved + 1 + k
  BY DEF TsRingInv, p, N
<1>9. moved' = moved + 1
  <2>1. (p + 0) % N = p /\ 0 \in 0 .. Avail - 1
    BY <1>1, <1>4
  <2>2. tsout.data[p] = moved + 1 + 0
    BY <1>8, <2>1
  <2> QED
    BY <1>1, <2>2 DEF p
<1>10. ASSUME NEW k \in 0 .. Avail - 2 PROVE tsout'.data[(r + k) % N] = moved' + 1 + k
  <2>1. k + 1 \in 0 .. Avail - 1 /\ (r + k) % N = (p + (k + 1)) % N
    <3>1. k \in 0 .. N - 1 /\ k + 1 \in 0 .. N - 1 /\ k + 1 \in 0 .. Avail - 1
      BY <1>1, <1>4
    <3>2. (r + k) % N = IF r + k < N THEN r + k ELSE r + k - N
      BY <1>5, <3>1
    <3>3. (p + (k + 1)) % N = IF p + (k + 1) < N THEN p + (k + 1) ELSE p + (k + 1) - N
      BY <1>4, <3>1
    <3> QED
      BY <1>1, <1>2, <1>3, <3>1, <3>2, <3>3
  <2>2. tsout.data[(p + (k + 1)) % N] = moved + 1 + (k + 1)
    BY <1>8, <2>1
  <2> QED
    BY <1>1, <1>2, <1>9, <2>1, <2>2
<1> QED
  BY <1>1, <1>4, <1>7, <1>8, <1>9, <1>10 DEF TsRingInv, r, N

\* The first packet in the ring is the one after the last moved.
LEMMA FirstPacket ==
  ASSUME TsTypeOK, TsRingInv, Avail > 0
  PROVE  tsout.data[tsout.pread] = moved + 1 /\ moved + 1 \in 1 .. MaxPackets
<1>1. Avail \in 0 .. TsoutLen - 1 /\ tsout.pread \in 0 .. TsoutLen - 1
  BY RingFacts
<1>2. 0 \in 0 .. TsoutLen - 1 /\ 0 \in 0 .. Avail - 1
  BY <1>1, TsoutLenAssumption
<1>3. (tsout.pread + 0) % TsoutLen = tsout.pread
  BY <1>1, <1>2, RingPlaces, TsoutLenAssumption
<1>4. tsout.data[(tsout.pread + 0) % TsoutLen] = moved + 1 + 0
  BY <1>2 DEF TsRingInv
<1>5. /\ moved \in Nat /\ written \in 0 .. MaxPackets /\ MaxPackets \in Nat
      /\ Avail = written - moved
  BY TsBoundsAssumption DEF TsTypeOK, TsRingInv
<1> QED
  BY <1>1, <1>3, <1>4, <1>5

ActType == [Actors -> [step : ActSteps, left : 0 .. TsoutLen + MaxWrite,
                       read : SUBSET Bits]]

\* Each step of the output device keeps the types.
LEMMA TsTypeStep ==
  ASSUME TsTypeOK, TsRingInv, ActorsInv, TsNext
  PROVE  TsTypeOK'
<1> USE TsoutLenAssumption, MaxWriteAssumption, TsBoundsAssumption
<1>1. /\ TsoutLen \in Nat /\ MaxWrite \in Nat /\ MaxPackets \in Nat /\ MaxClears \in Nat
      /\ Resting \in [step : ActSteps, left : 0 .. TsoutLen + MaxWrite, read : SUBSET Bits]
  BY DEF Resting, ActSteps
<1>2. ASSUME NEW a \in Actors, NEW s \in ActSteps, Goto(a, s) PROVE act' \in ActType
  BY <1>2 DEF Goto, ActType, TsTypeOK
<1>3. CASE WriteBegin
  <2>1. PICK n \in 1 .. MaxWrite :
          act' = [act EXCEPT !["writer"] = [Resting EXCEPT !.step = "write", !.left = n]]
    BY <1>3 DEF WriteBegin
  <2>2. [Resting EXCEPT !.step = "write", !.left = n]
          \in [step : ActSteps, left : 0 .. TsoutLen + MaxWrite, read : SUBSET Bits]
    <3>1. n \in 0 .. TsoutLen + MaxWrite /\ "write" \in ActSteps
      BY <1>1 DEF ActSteps
    <3> QED
      BY <1>1, <3>1
  <2>3. act' \in ActType
    BY <2>1, <2>2 DEF TsTypeOK, ActType
  <2> QED
    BY <1>3, <2>3 DEF WriteBegin, TsTypeOK, ActType
<1>4. CASE WritePacket
  <2>1. /\ Step("writer") = "write" /\ act["writer"].left > 0 /\ written' = written + 1
        /\ tsout' = [tsout EXCEPT !.data[tsout.pwrite] = written + 1,
                                  !.pwrite = (@ + 1) % TsoutLen]
        /\ act' = [act EXCEPT !["writer"].left = @ - 1]
        /\ UNCHANGED <<tsout_stat, tsLock, fifo, ctrl, fifo_work, moved, flushed, source,
                       early, tsRaced, clears>>
    BY <1>4 DEF WritePacket
  <2>2. /\ act["writer"].left \in 0 .. TsoutLen + MaxWrite /\ "writer" \in Actors
        /\ written + act["writer"].left <= MaxPackets /\ written \in 0 .. MaxPackets
    BY <2>1 DEF TsTypeOK, ActorsInv, Actors
  <2>3. written + 1 \in 0 .. MaxPackets
    BY <1>1, <2>1, <2>2
  <2>4. tsout' \in [data : [0 .. TsoutLen - 1 -> 0 .. MaxPackets],
                    pread : 0 .. TsoutLen - 1, pwrite : 0 .. TsoutLen - 1]
    <3>1. (tsout.pwrite + 1) % TsoutLen \in 0 .. TsoutLen - 1
      BY SMTT(30) DEF TsTypeOK
    <3>2. [tsout.data EXCEPT ![tsout.pwrite] = written + 1]
            \in [0 .. TsoutLen - 1 -> 0 .. MaxPackets]
      BY <2>3 DEF TsTypeOK
    <3>3. tsout' = [data |-> [tsout.data EXCEPT ![tsout.pwrite] = written + 1],
                    pread |-> tsout.pread, pwrite |-> (tsout.pwrite + 1) % TsoutLen]
      BY <2>1 DEF TsTypeOK
    <3> QED
      BY <3>1, <3>2, <3>3 DEF TsTypeOK
  <2>5. act' \in ActType
    <3>1. act["writer"].left - 1 \in 0 .. TsoutLen + MaxWrite
      BY <2>1, <2>2
    <3> QED
      BY <2>1, <2>2, <3>1 DEF TsTypeOK, ActType
  <2> QED
    BY <2>1, <2>3, <2>4, <2>5 DEF TsTypeOK, ActType
<1>5. CASE WriteEnough \/ WriteTest
  <2>1. act' \in ActType
    BY <1>5, <1>2 DEF WriteEnough, WriteTest, Actors, ActSteps
  <2> QED
    BY <1>5, <2>1 DEF WriteEnough, WriteTest, TsTypeOK, ActType
<1>6. ASSUME NEW a \in Actors, ReadCtrl(a) PROVE TsTypeOK'
  <2>1. act' \in ActType
    BY <1>6, ZenonT(60) DEF ReadCtrl, TsTypeOK, ActType, ActSteps
  <2> QED
    BY <1>6, <2>1 DEF ReadCtrl, TsTypeOK, ActType
<1>7. ASSUME NEW a \in Actors, NEW bits \in SUBSET Bits, WriteBack(a, bits),
             tsLock' \in BOOLEAN, fifo_work' \in BOOLEAN
      PROVE  TsTypeOK'
  <2>1. act' \in ActType
    BY <1>1, <1>7 DEF WriteBack, TsTypeOK, ActType
  <2>2. tsRaced' \in BOOLEAN
    BY <1>7 DEF WriteBack
  <2> QED
    BY <1>7, <2>1, <2>2 DEF WriteBack, TsTypeOK, ActType
<1>8. ASSUME NEW a \in {"writer", "worker"}, Kick(a) PROVE TsTypeOK'
  <2>1. /\ a \in Actors /\ act[a].read \cup {"irq"} \in SUBSET Bits
        /\ tsLock' \in BOOLEAN /\ fifo_work' \in BOOLEAN
        /\ WriteBack(a, act[a].read \cup {"irq"})
    BY <1>8 DEF Kick, Actors, TsTypeOK, Bits
  <2> QED
    BY <2>1, <1>7
<1>9. CASE FifoEmptyIrq
  <2>1. act' \in ActType
    BY <1>9, <1>2 DEF FifoEmptyIrq, Actors, ActSteps
  <2> QED
    BY <1>9, <2>1 DEF FifoEmptyIrq, TsTypeOK, ActType
<1>10. CASE FifoEmptyMask
  <2>1. /\ act["irq"].read \ {"irq"} \in SUBSET Bits
        /\ tsLock' \in BOOLEAN /\ fifo_work' \in BOOLEAN /\ "irq" \in Actors
        /\ WriteBack("irq", act["irq"].read \ {"irq"})
    BY <1>10 DEF FifoEmptyMask, Actors, TsTypeOK, Bits
  <2> QED
    BY <2>1, <1>7
<1>11. CASE WorkBegin
  <2>1. Avail \in 0 .. TsoutLen - 1 /\ FifoLen - Len(fifo) \in Int
    BY RingFacts, FifoLenAssumption DEF TsTypeOK
  <2> DEFINE room == FifoLen - Len(fifo)
             len == IF Avail > room THEN room ELSE Avail
  <2>2. /\ len \in Int /\ len <= Avail
        /\ act' = act \/ (len > 0 /\ act' = [act EXCEPT !["worker"] =
                            [Resting EXCEPT !.step = "copy", !.left = len]])
    <3>1. act' = IF tsout_stat = "RESET" \/ len <= 0 THEN act
                 ELSE [act EXCEPT !["worker"] = [Resting EXCEPT !.step = "copy",
                                                                !.left = len]]
      BY <1>11 DEF WorkBegin
    <3>2. len \in Int /\ len <= Avail
      BY <2>1
    <3> HIDE DEF len
    <3> QED
      BY <3>1, <3>2
  <2> HIDE DEF len
  <2>3. len > 0 => [Resting EXCEPT !.step = "copy", !.left = len]
          \in [step : ActSteps, left : 0 .. TsoutLen + MaxWrite, read : SUBSET Bits]
    <3>1. len > 0 => len \in 0 .. TsoutLen + MaxWrite
      BY <1>1, <2>1, <2>2
    <3>2. "copy" \in ActSteps
      BY DEF ActSteps
    <3> QED
      BY <1>1, <3>1, <3>2
  <2>4. act' \in ActType
    BY <2>2, <2>3 DEF TsTypeOK, ActType
  <2> QED
    BY <1>11, <2>4 DEF WorkBegin, TsTypeOK, ActType
<1>12. CASE WorkCopy
  <2>1. act["worker"].left \in 1 .. Avail /\ Avail \in 0 .. TsoutLen - 1
    BY <1>12, RingFacts DEF WorkCopy, ActorsInv, Step
  <2>2. tsout.data[tsout.pread] \in 1 .. MaxPackets
    BY <2>1, FirstPacket
  <2>3. tsout' \in [data : [0 .. TsoutLen - 1 -> 0 .. MaxPackets],
                    pread : 0 .. TsoutLen - 1, pwrite : 0 .. TsoutLen - 1]
    <3>1. (tsout.pread + 1) % TsoutLen \in 0 .. TsoutLen - 1
      BY SMTT(30) DEF TsTypeOK
    <3> QED
      BY <1>12, <3>1 DEF WorkCopy, TsTypeOK
  <2>4. fifo' \in Seq(1 .. MaxPackets) /\ moved' \in 0 .. MaxPackets
    <3>1. fifo' \in {fifo, Append(fifo, tsout.data[tsout.pread])}
          /\ moved' = tsout.data[tsout.pread]
      BY <1>12 DEF WorkCopy
    <3>2. fifo \in Seq(1 .. MaxPackets)
      BY DEF TsTypeOK
    <3>3. Append(fifo, tsout.data[tsout.pread]) \in Seq(1 .. MaxPackets)
      BY <2>2, <3>2
    <3>4. moved' \in 0 .. MaxPackets
      BY <1>1, <2>2, <3>1
    <3> QED
      BY <3>1, <3>2, <3>3, <3>4
  <2>5. act' \in ActType
    <3> DEFINE s == IF act["worker"].left = 1 THEN "lock" ELSE "copy"
    <3>1. /\ act["worker"].left - 1 \in 0 .. TsoutLen + MaxWrite
          /\ s \in ActSteps /\ "worker" \in Actors
      BY <1>1, <2>1 DEF ActSteps, Actors
    <3>2. act' = [act EXCEPT !["worker"].left = act["worker"].left - 1,
                             !["worker"].step = s]
      BY <1>12, <3>1 DEF WorkCopy, TsTypeOK
    <3> HIDE DEF s
    <3>3. act \in ActType
      BY DEF TsTypeOK, ActType
    <3>4. [act["worker"] EXCEPT !.left = act["worker"].left - 1, !.step = s]
            \in [step : ActSteps, left : 0 .. TsoutLen + MaxWrite, read : SUBSET Bits]
      BY <3>1, <3>3 DEF ActType
    <3>5. act' = [act EXCEPT !["worker"] = [act["worker"] EXCEPT
                                             !.left = act["worker"].left - 1, !.step = s]]
      BY <3>1, <3>2, <3>3 DEF ActType
    <3> QED
      BY <3>1, <3>3, <3>4, <3>5 DEF ActType
  <2> QED
    BY <1>12, <2>3, <2>4, <2>5 DEF WorkCopy, TsTypeOK, ActType
<1>13. CASE WorkLock
  <2>1. act' \in ActType
    BY <1>1, <1>13, <1>2, ZenonT(60) DEF WorkLock, Actors, ActSteps, ActType, TsTypeOK
  <2>2. tsLock' \in BOOLEAN
    BY <1>13 DEF WorkLock
  <2> QED
    BY <1>13, <2>1, <2>2 DEF WorkLock, TsTypeOK, ActType
<1>14. CASE WorkRun
  <2>1. act' \in ActType
    BY <1>14, <1>2 DEF WorkRun, Actors, ActSteps
  <2>2. tsRaced' \in BOOLEAN
    BY <1>14 DEF WorkRun
  <2> QED
    BY <1>14, <2>1, <2>2 DEF WorkRun, TsTypeOK, ActType
<1>15. CASE ResetFifo
  <2>1. act' \in ActType
    BY <1>15, <1>2 DEF ResetFifo, Actors, ActSteps
  <2>2. source' \in {"memory", "demux"} /\ tsLock' \in BOOLEAN
    BY <1>15 DEF ResetFifo
  <2>3. clears' \in 0 .. MaxClears /\ fifo' \in Seq(1 .. MaxPackets) /\ ctrl' \subseteq Bits
    BY <1>15 DEF ResetFifo, TsTypeOK, Bits
  <2> QED
    BY <1>15, <2>1, <2>2, <2>3 DEF ResetFifo, TsTypeOK, ActType
<1>16. CASE ResetStat
  <2>1. act' \in ActType
    BY <1>16, <1>2 DEF ResetStat, Actors, ActSteps
  <2>2. tsLock' \in BOOLEAN
    BY <1>16 DEF ResetStat
  <2> QED
    BY <1>16, <2>1, <2>2 DEF ResetStat, TsTypeOK, ActType
<1>17. CASE CancelWork \/ StartFifo
  <2>1. act' \in ActType
    BY <1>17, <1>2 DEF CancelWork, StartFifo, Actors, ActSteps
  <2> QED
    BY <1>17, <2>1 DEF CancelWork, StartFifo, TsTypeOK, ActType, Bits
<1>18. CASE FlushRing
  <2>1. act' \in ActType
    BY <1>18, <1>2 DEF FlushRing, Actors, ActSteps
  <2> QED
    BY <1>18, <2>1 DEF FlushRing, TsTypeOK, ActType
<1>19. CASE FillRing
  <2>1. act' \in ActType
    BY <1>19, <1>2 DEF FillRing, Actors, ActSteps
  <2>2. early' \in BOOLEAN
    BY <1>19 DEF FillRing
  <2> QED
    BY <1>19, <2>1, <2>2 DEF FillRing, TsTypeOK, ActType
<1>20. CASE FifoPlays
  <2>1. fifo' \in Seq(1 .. MaxPackets)
    BY <1>20 DEF FifoPlays, TsTypeOK
  <2> QED
    BY <1>20, <2>1 DEF FifoPlays, TsTypeOK, ActType
<1> QED
  BY <1>3, <1>4, <1>5, <1>6, <1>8, <1>9, <1>10, <1>11, <1>12, <1>13, <1>14, <1>15, <1>16,
     <1>17, <1>18, <1>19, <1>20 DEF TsNext, Actors

\* Steps that leave the ring alone.
Still == UNCHANGED <<tsout, written, moved, flushed>>

\* The steps that leave the ring alone leave what it holds.
LEMMA StillFacts == Still => Avail' = Avail /\ Free' = Free /\ (TsRingInv => TsRingInv')
BY DEF Still, Avail, Free, TsRingInv

\* What each action does to the ring.
LEMMA RingSteps ==
  ASSUME TsTypeOK, TsTypeOK', TsRingInv, ActorsInv, TsNext
  PROVE  /\ TsRingInv'
         /\ WritePacket => Avail' = Avail + 1
         /\ WorkCopy => Avail' = Avail - 1 /\ moved' = moved + 1
         /\ FlushRing => Avail' = 0
         /\ WritePacket \/ WorkCopy \/ FlushRing \/ Still
<1>1. CASE WritePacket
  <2>1. /\ Free > 0 /\ UNCHANGED <<moved, flushed>> /\ written' = written + 1
        /\ tsout' = [tsout EXCEPT !.data[tsout.pwrite] = written + 1,
                                  !.pwrite = (@ + 1) % TsoutLen]
        /\ Step("writer") = "write" /\ Step("writer")' = "write"
    BY <1>1 DEF WritePacket, TsTypeOK, Actors, Step
  <2>2. TsRingInv' /\ Avail' = Avail + 1
    BY <2>1, RingWrite
  <2>3. ~WorkCopy /\ ~FlushRing
    <3>1. written + 1 # written
      BY SMTT(30) DEF TsTypeOK
    <3> QED
      BY <2>1, <3>1 DEF WorkCopy, FlushRing
  <2> QED
    BY <1>1, <2>2, <2>3
<1>2. CASE WorkCopy
  <2>1. /\ UNCHANGED <<written, flushed>> /\ act["worker"].left \in 1 .. Avail
        /\ tsout' = [tsout EXCEPT !.pread = (@ + 1) % TsoutLen]
        /\ moved' = tsout.data[tsout.pread]
        /\ UNCHANGED clears /\ Step("worker") = "copy" /\ Step("worker")' # "idle"
    BY <1>2 DEF WorkCopy, ActorsInv, TsTypeOK, Actors, Step
  <2>2. Avail \in Nat /\ Avail > 0
    BY <2>1, RingFacts, TsoutLenAssumption
  <2>3. TsRingInv' /\ Avail' = Avail - 1 /\ moved' = moved + 1
    BY <2>1, <2>2, RingMove
  <2>4. ~WritePacket
    <3>1. WritePacket => written' = written + 1
      BY DEF WritePacket
    <3>2. written \in Nat /\ written' = written
      BY <2>1 DEF TsTypeOK
    <3> QED
      BY <3>1, <3>2
  <2>5. ~FlushRing
    <3>1. FlushRing => Avail' = 0 /\ moved' = written
      <4>1. FlushRing => tsout'.pwrite = tsout.pwrite /\ tsout'.pread = tsout.pwrite
                         /\ moved' = written
        BY DEF FlushRing, TsTypeOK
      <4> QED
        BY <4>1, RingPlaces, RingFacts DEF Avail
    <3>2. FlushRing => act'["worker"] = act["worker"]
      BY DEF FlushRing, Goto, TsTypeOK, Actors
    <3>3. act'["worker"].left = act["worker"].left - 1 /\ act["worker"].left \in Int
      BY <1>2, <2>1, <2>2 DEF WorkCopy, TsTypeOK, Actors
    <3> QED
      BY <3>2, <3>3
  <2> QED
    BY <1>2, <2>3, <2>4, <2>5
<1>3. CASE FlushRing
  <2>1. /\ tsout'.pwrite = tsout.pwrite /\ tsout'.pread = tsout.pwrite
        /\ moved' = written /\ flushed' = written /\ written' = written
        /\ written \in Nat /\ act'["worker"] = act["worker"]
    BY <1>3 DEF FlushRing, TsTypeOK, Goto, Actors
  <2>2. Avail' = 0
    <3>1. Avail' = (tsout.pwrite - tsout.pwrite + TsoutLen) % TsoutLen
      BY <2>1 DEF Avail
    <3> QED
      BY <3>1, RingPlaces, RingFacts
  <2>3. TsRingInv'
    BY <2>1, <2>2 DEF TsRingInv
  <2>4. ~WritePacket
    BY <2>1 DEF WritePacket
  <2>5. ~WorkCopy
    <3>1. WorkCopy => act'["worker"].left = act["worker"].left - 1
                      /\ act["worker"].left \in Int
      BY DEF WorkCopy, TsTypeOK, Actors
    <3> QED
      BY <2>1, <3>1
  <2> QED
    BY <1>3, <2>2, <2>3, <2>4, <2>5
<1>4. CASE ~WritePacket /\ ~WorkCopy /\ ~FlushRing
  <2>1. Still
    BY <1>4 DEF TsNext, Still, WriteBegin, WriteEnough, WriteTest, ReadCtrl, Kick, WriteBack,
       FifoEmptyIrq, FifoEmptyMask, WorkBegin, WorkLock, WorkRun, ResetFifo, ResetStat,
       CancelWork, StartFifo, FillRing, FifoPlays
  <2> QED
    BY <1>4, <2>1, StillFacts
<1> QED
  BY <1>1, <1>2, <1>3, <1>4

\* One actor moves to another step, and keeps what it has left and has read.
LEMMA GotoFacts ==
  ASSUME TsTypeOK, NEW a \in Actors, NEW s, Goto(a, s)
  PROVE  /\ act'[a].step = s /\ act'[a].left = act[a].left /\ act'[a].read = act[a].read
         /\ \A b \in Actors \ {a} : act'[b] = act[b]
BY DEF Goto, TsTypeOK

\* Writer, worker, interrupt and ioctl keep to their steps.
LEMMA ActorsStep ==
  ASSUME TsTypeOK, TsTypeOK', TsRingInv, TsRingInv', ActorsInv, TsLockInv, TsNext
  PROVE  ActorsInv'
<1>1. /\ Avail \in Nat /\ Avail' \in Nat
      /\ WritePacket => Avail' = Avail + 1
      /\ WorkCopy => Avail' = Avail - 1
      /\ WritePacket \/ WorkCopy \/ FlushRing \/ (Avail' = Avail /\ written' = written)
  <2>1. Avail \in Nat
    BY RingFacts, TsoutLenAssumption
  <2>2. Avail' \in Nat
    <3>1. tsout'.pread \in 0 .. TsoutLen - 1 /\ tsout'.pwrite \in 0 .. TsoutLen - 1
      BY DEF TsTypeOK
    <3>2. tsout'.pwrite - tsout'.pread + TsoutLen \in Int
      BY <3>1, TsoutLenAssumption
    <3> QED
      BY <3>2, TsoutLenAssumption DEF Avail
  <2> QED
    BY <2>1, <2>2, RingSteps, StillFacts DEF Still
<1>2. /\ \A a \in Actors : act[a].left \in Nat /\ act'[a].left \in Nat
      /\ written \in Nat /\ MaxPackets \in Nat /\ MaxWrite \in Nat
      /\ "writer" \in Actors /\ "worker" \in Actors /\ "irq" \in Actors /\ "ioctl" \in Actors
  <2>1. MaxPackets \in Nat /\ MaxWrite \in Nat /\ TsoutLen \in Nat
    BY TsBoundsAssumption, MaxWriteAssumption, TsoutLenAssumption
  <2>2. \A a \in Actors : act[a].left \in 0 .. TsoutLen + MaxWrite
                        /\ act'[a].left \in 0 .. TsoutLen + MaxWrite
    BY DEF TsTypeOK
  <2>3. written \in 0 .. MaxPackets
    BY DEF TsTypeOK
  <2> QED
    BY <2>1, <2>2, <2>3 DEF Actors
<1> USE DEF ActorsInv, Step
<1>3. CASE WriteBegin
  <2>1. PICK n \in 1 .. MaxWrite :
          /\ written + n <= MaxPackets
          /\ act' = [act EXCEPT !["writer"] = [Resting EXCEPT !.step = "write", !.left = n]]
    BY <1>3 DEF WriteBegin
  <2>2. /\ act'["writer"].step = "write" /\ act'["writer"].left = n
        /\ \A b \in Actors \ {"writer"} : act'[b] = act[b]
    BY <2>1, <1>2 DEF TsTypeOK, Resting
  <2>3. ~WritePacket /\ ~WorkCopy /\ ~FlushRing
    BY <1>3, <2>2, <1>2 DEF WriteBegin, WritePacket, WorkCopy, FlushRing, Goto, TsTypeOK
  <2> QED
    BY <1>1, <1>2, <2>1, <2>2, <2>3 DEF Actors
<1>4. CASE WritePacket
  <2>1. /\ act'["writer"].step = "write" /\ act["writer"].step = "write"
        /\ act["writer"].left > 0 /\ act'["writer"].left = act["writer"].left - 1
        /\ \A b \in Actors \ {"writer"} : act'[b] = act[b]
        /\ written' = written + 1
    BY <1>4, <1>2 DEF WritePacket, TsTypeOK
  <2> QED
    BY <1>1, <1>2, <1>4, <2>1 DEF Actors
<1>5. CASE WorkCopy
  <2>1. /\ act["worker"].step = "copy" /\ act'["worker"].left = act["worker"].left - 1
        /\ act'["worker"].step = IF act["worker"].left = 1 THEN "lock" ELSE "copy"
        /\ \A b \in Actors \ {"worker"} : act'[b] = act[b]
        /\ written' = written
    BY <1>5, <1>2 DEF WorkCopy, TsTypeOK
  <2> QED
    BY <1>1, <1>2, <1>5, <2>1 DEF Actors
<1>6. CASE FlushRing
  <2>1. /\ act'["ioctl"].step = "fill" /\ \A b \in Actors \ {"ioctl"} : act'[b] = act[b]
        /\ written' = written /\ act["ioctl"].step = "flush"
    BY <1>6, <1>2, GotoFacts DEF FlushRing
  <2>2. act["worker"].step = "idle"
    BY <2>1 DEF TsLockInv
  <2> QED
    BY <1>2, <2>1, <2>2 DEF Actors
<1>7. ASSUME Avail' = Avail, written' = written, NEW a \in Actors,
             \A b \in Actors \ {a} : act'[b] = act[b],
             act'[a].step \in {"idle", "read", "kick", "test", "lock", "run", "mask", "stat",
                               "cancel", "start", "flush", "fill"},
             a = "writer" => act'[a].step \in {"idle", "test", "read", "kick"},
             a = "worker" => act'[a].step \in {"idle", "lock", "run", "read", "kick"},
             a = "irq" => act'[a].step \in {"idle", "read", "mask"},
             a = "ioctl" => act'[a].step \in {"idle", "stat", "cancel", "start", "flush",
                                              "fill"}
      PROVE  ActorsInv'
  BY <1>2, <1>7 DEF Actors
<1>8. CASE Avail' = Avail /\ written' = written
  <2> USE <1>2, <1>8
  <2>1. CASE WriteEnough \/ WriteTest
    <3>1. PICK s \in {"idle", "test", "read"} : Goto("writer", s)
      BY <2>1 DEF WriteEnough, WriteTest
    <3>2. act'["writer"].step = s /\ \A b \in Actors \ {"writer"} : act'[b] = act[b]
      BY <3>1, GotoFacts
    <3> QED
      BY <3>2, <1>7
  <2>2. ASSUME NEW a \in {"writer", "worker", "irq"}, ReadCtrl(a) PROVE ActorsInv'
    <3>1. /\ a \in Actors /\ act'[a].step = IF a = "irq" THEN "mask" ELSE "kick"
          /\ \A b \in Actors \ {a} : act'[b] = act[b]
      BY <2>2, ZenonT(60) DEF ReadCtrl, TsTypeOK, Actors
    <3> QED
      BY <3>1, <1>7
  <2>3. ASSUME NEW a \in {"writer", "worker", "irq"}, act' = [act EXCEPT ![a] = Resting]
        PROVE  ActorsInv'
    <3>1. /\ a \in Actors /\ act'[a].step = "idle"
          /\ \A b \in Actors \ {a} : act'[b] = act[b]
      BY <2>3 DEF TsTypeOK, Actors, Resting
    <3> QED
      BY <3>1, <1>7
  <2>4. ASSUME NEW a \in {"writer", "worker"}, Kick(a) PROVE ActorsInv'
    BY <2>3, <2>4 DEF Kick, WriteBack
  <2>5. CASE FifoEmptyMask
    BY <2>3, <2>5 DEF FifoEmptyMask, WriteBack
  <2>6. CASE FifoEmptyIrq
    <3>1. act'["irq"].step = "read" /\ \A b \in Actors \ {"irq"} : act'[b] = act[b]
      BY <2>6, GotoFacts DEF FifoEmptyIrq
    <3> QED
      BY <3>1, <1>7
  <2>7. CASE WorkBegin
    <3> DEFINE room == FifoLen - Len(fifo)
               len == IF Avail > room THEN room ELSE Avail
    <3>1. act' = IF tsout_stat = "RESET" \/ len <= 0 THEN act
                 ELSE [act EXCEPT !["worker"] = [Resting EXCEPT !.step = "copy",
                                                                !.left = len]]
      BY <2>7 DEF WorkBegin
    <3>2. len \in Int /\ len <= Avail
      BY <1>1, FifoLenAssumption DEF TsTypeOK
    <3> HIDE DEF len
    <3>3. CASE act' = act
      BY <3>3 DEF Actors
    <3>4. CASE len > 0 /\ act' = [act EXCEPT !["worker"] = [Resting EXCEPT !.step = "copy",
                                                                      !.left = len]]
      <4>1. /\ act'["worker"].step = "copy" /\ act'["worker"].left = len
            /\ \A b \in Actors \ {"worker"} : act'[b] = act[b]
        BY <3>4 DEF TsTypeOK, Resting
      <4> QED
        BY <1>1, <3>2, <3>4, <4>1 DEF Actors
    <3> QED
      BY <3>1, <3>2, <3>3, <3>4
  <2>8. CASE WorkLock
    <3>1. CASE tsout_stat = "RESET"
      BY <2>3, <2>8, <3>1 DEF WorkLock
    <3>2. CASE tsout_stat # "RESET"
      <4>1. act'["worker"].step = "run" /\ \A b \in Actors \ {"worker"} : act'[b] = act[b]
        BY <2>8, <3>2, GotoFacts DEF WorkLock
      <4> QED
        BY <4>1, <1>7
    <3> QED
      BY <3>1, <3>2
  <2>9. CASE WorkRun
    <3>1. act'["worker"].step = "read" /\ \A b \in Actors \ {"worker"} : act'[b] = act[b]
      BY <2>9, GotoFacts DEF WorkRun
    <3> QED
      BY <3>1, <1>7
  <2>10. CASE ResetFifo \/ ResetStat \/ CancelWork \/ StartFifo \/ FillRing
    <3>1. PICK s \in {"idle", "stat", "cancel", "start", "flush"} : Goto("ioctl", s)
      BY <2>10 DEF ResetFifo, ResetStat, CancelWork, StartFifo, FillRing
    <3>2. act'["ioctl"].step = s /\ \A b \in Actors \ {"ioctl"} : act'[b] = act[b]
      BY <3>1, GotoFacts
    <3> QED
      BY <3>2, <1>7
  <2>11. CASE FifoPlays
    BY <2>11 DEF FifoPlays, Actors
  <2> QED
    BY <1>3, <1>4, <1>5, <1>6, <2>1, <2>2, <2>4, <2>5, <2>6, <2>7, <2>8, <2>9, <2>10, <2>11
       DEF TsNext
<1> QED
  BY <1>1, <1>4, <1>5, <1>6, <1>8

\* Who is inside the ring's lock is alone there.
LEMMA TsLockStep ==
  ASSUME TsTypeOK, ActorsInv, TsLockInv, TsNext
  PROVE  TsLockInv'
<1> USE DEF TsLockInv, WorkerHolds, IoctlHolds, Step
<1>1. "writer" \in Actors /\ "worker" \in Actors /\ "irq" \in Actors /\ "ioctl" \in Actors
  BY DEF Actors
<1>2. ASSUME UNCHANGED <<tsLock, source, tsout_stat>>,
             act'["worker"].step = act["worker"].step,
             act'["ioctl"].step = act["ioctl"].step
      PROVE  TsLockInv'
  BY <1>2
<1>3. CASE WriteBegin \/ WritePacket
  <2>1. act'["worker"] = act["worker"] /\ act'["ioctl"] = act["ioctl"]
    BY <1>1, <1>3 DEF WriteBegin, WritePacket, TsTypeOK
  <2> QED
    BY <1>2, <1>3, <2>1 DEF WriteBegin, WritePacket
<1>4. CASE WriteEnough \/ WriteTest \/ FifoEmptyIrq
  <2>1. act'["worker"] = act["worker"] /\ act'["ioctl"] = act["ioctl"]
    BY <1>1, <1>4, GotoFacts DEF WriteEnough, WriteTest, FifoEmptyIrq
  <2> QED
    BY <1>2, <1>4, <2>1 DEF WriteEnough, WriteTest, FifoEmptyIrq
<1>5. ASSUME NEW a \in {"writer", "worker", "irq"}, ReadCtrl(a) PROVE TsLockInv'
  <2>1. /\ act'["ioctl"] = act["ioctl"] /\ act[a].step = "read"
        /\ a # "worker" => act'["worker"] = act["worker"]
        /\ a = "worker" => act'["worker"].step = "kick"
        /\ UNCHANGED <<tsLock, source, tsout_stat>>
    BY <1>1, <1>5 DEF ReadCtrl, TsTypeOK
  <2> QED
    BY <2>1
<1>6. ASSUME NEW a \in {"writer", "worker"}, Kick(a) PROVE TsLockInv'
  <2>1. /\ act'["ioctl"] = act["ioctl"] /\ act[a].step = "kick"
        /\ a # "worker" => act'["worker"] = act["worker"]
        /\ a = "worker" => act'["worker"].step = "idle"
        /\ UNCHANGED <<source, tsout_stat>>
        /\ tsLock' <=> tsLock /\ a # "worker"
    BY <1>1, <1>6 DEF Kick, WriteBack, TsTypeOK, Resting
  <2> QED
    BY <2>1
<1>7. CASE FifoEmptyMask
  <2>1. act'["ioctl"] = act["ioctl"] /\ act'["worker"] = act["worker"]
        /\ UNCHANGED <<tsLock, source, tsout_stat>>
    BY <1>1, <1>7 DEF FifoEmptyMask, WriteBack, TsTypeOK
  <2> QED
    BY <1>2, <2>1
<1>8. CASE WorkBegin
  <2>1. /\ act'["ioctl"] = act["ioctl"] /\ act["worker"].step = "idle"
        /\ act'["worker"].step \in {"idle", "copy"}
        /\ tsout_stat = "RESET" => act' = act
        /\ UNCHANGED <<tsLock, source, tsout_stat>>
    BY <1>1, <1>8 DEF WorkBegin, TsTypeOK, Resting
  <2> QED
    BY <2>1
<1>9. CASE WorkCopy
  <2>1. /\ act'["ioctl"] = act["ioctl"] /\ act["worker"].step = "copy"
        /\ act'["worker"].step \in {"lock", "copy"}
        /\ UNCHANGED <<tsLock, source, tsout_stat>>
    BY <1>1, <1>9 DEF WorkCopy, TsTypeOK
  <2> QED
    BY <2>1
<1>10. CASE WorkLock
  <2>1. act["worker"].step = "lock" /\ ~tsLock /\ UNCHANGED <<source, tsout_stat>>
    BY <1>10 DEF WorkLock
  <2>2. CASE tsout_stat = "RESET"
    <3>1. ~tsLock' /\ act'["worker"].step = "idle" /\ act'["ioctl"] = act["ioctl"]
      BY <1>1, <1>10, <2>2 DEF WorkLock, TsTypeOK, Resting
    <3> QED
      BY <2>1, <3>1
  <2>3. CASE tsout_stat # "RESET"
    <3>1. tsLock' /\ act'["worker"].step = "run" /\ act'["ioctl"] = act["ioctl"]
      BY <1>1, <1>10, <2>3, GotoFacts DEF WorkLock
    <3> QED
      BY <2>1, <2>3, <3>1
  <2> QED
    BY <2>2, <2>3
<1>11. CASE WorkRun
  <2>1. /\ act'["ioctl"] = act["ioctl"] /\ act["worker"].step = "run"
        /\ act'["worker"].step = "read" /\ UNCHANGED <<tsLock, source>>
    BY <1>1, <1>11, GotoFacts DEF WorkRun
  <2> QED
    BY <2>1
<1>12. CASE ResetFifo
  <2>1. PICK s \in {"memory", "demux"} :
          /\ source' = s /\ (s = "memory" => ~tsLock) /\ tsLock' = (tsLock \/ s = "memory")
    BY <1>12 DEF ResetFifo
  <2>2. /\ act'["worker"] = act["worker"] /\ act["ioctl"].step = "idle"
        /\ act'["ioctl"].step = "stat" /\ UNCHANGED tsout_stat
    BY <1>1, <1>12, GotoFacts DEF ResetFifo
  <2>3. tsLock' <=> tsLock \/ s = "memory"
    BY <2>1
  <2> QED
    BY <2>1, <2>2, <2>3
<1>13. CASE ResetStat
  <2>1. /\ act'["worker"] = act["worker"] /\ act["ioctl"].step = "stat"
        /\ act'["ioctl"].step = IF source = "demux" THEN "idle" ELSE "cancel"
        /\ tsout_stat' = "RESET" /\ UNCHANGED source
        /\ source \in {"memory", "demux"}
    BY <1>1, <1>13, GotoFacts DEF ResetStat, TsTypeOK
  <2>2. tsLock' <=> tsLock /\ source = "demux"
    BY <1>13 DEF ResetStat
  <2> QED
    BY <2>1, <2>2
<1>14. CASE CancelWork \/ StartFifo \/ FlushRing \/ FillRing
  <2>1. /\ act'["worker"] = act["worker"] /\ UNCHANGED <<tsLock, source>>
        /\ act["ioctl"].step \in {"cancel", "start", "flush", "fill"}
        /\ act'["ioctl"].step \in {"start", "flush", "fill", "idle"}
        /\ act'["ioctl"].step # "idle" => tsout_stat' = tsout_stat
        /\ act["ioctl"].step = "cancel" => act["worker"].step = "idle"
    BY <1>1, <1>14, GotoFacts DEF CancelWork, StartFifo, FlushRing, FillRing
  <2> QED
    BY <2>1
<1>15. CASE FifoPlays
  BY <1>2, <1>15 DEF FifoPlays
<1> QED
  BY <1>3, <1>4, <1>5, <1>6, <1>7, <1>8, <1>9, <1>10, <1>11, <1>12, <1>13, <1>14, <1>15
     DEF TsNext

\* A race is not forgotten, and a write that makes none changes no bit but "irq".
LEMMA RaceFacts ==
  ASSUME TsTypeOK, TsNext, ~tsRaced'
  PROVE  /\ ~tsRaced
         /\ \A a \in {"writer", "worker"} :
              Kick(a) => ctrl' \ {"irq"} = ctrl \ {"irq"} /\ "irq" \in ctrl'
         /\ FifoEmptyMask => ctrl' \ {"irq"} = ctrl \ {"irq"} /\ fifo = <<>>
         /\ WorkRun => tsout_stat # "RESET"
<1>1. WorkRun => ~tsRaced
  BY DEF WorkRun
<1>2. ASSUME NEW a, NEW bits, WriteBack(a, bits)
      PROVE  /\ ~tsRaced /\ ctrl' = bits /\ ctrl \ {"irq"} = act[a].read \ {"irq"}
             /\ a = "irq" => fifo = <<>>
  BY <1>2 DEF WriteBack
<1>3. \A a \in {"writer", "worker"} : Kick(a) =>
        ctrl' \ {"irq"} = ctrl \ {"irq"} /\ "irq" \in ctrl'
  BY <1>2 DEF Kick
<1>4. FifoEmptyMask => ctrl' \ {"irq"} = ctrl \ {"irq"} /\ fifo = <<>>
  BY <1>2 DEF FifoEmptyMask
<1>5. WorkRun => tsout_stat # "RESET"
  BY DEF WorkRun
<1>6. ~tsRaced
  <2>1. CASE \E a \in {"writer", "worker"} : Kick(a)
    BY <1>2, <2>1 DEF Kick
  <2>2. CASE FifoEmptyMask
    BY <1>2, <2>2 DEF FifoEmptyMask
  <2>3. CASE ~(\E a \in {"writer", "worker"} : Kick(a)) /\ ~FifoEmptyMask /\ ~WorkRun
    BY <2>3 DEF TsNext, WriteBegin, WritePacket, WriteEnough, WriteTest, ReadCtrl,
       FifoEmptyIrq, WorkBegin, WorkCopy, WorkLock, ResetFifo, ResetStat, CancelWork,
       StartFifo, FlushRing, FillRing, FifoPlays
  <2> QED
    BY <1>1, <2>1, <2>2, <2>3
<1> QED
  BY <1>3, <1>4, <1>5, <1>6

\* What was written and not yet sent is in the ring and in the FIFO, in order.
LEMMA FifoStep ==
  ASSUME TsTypeOK, TsRingInv, ActorsInv, TsLockInv, FifoInv, TsNext, ~tsRaced'
  PROVE  FifoInv'
<1> USE DEF Step
<1>1. "writer" \in Actors /\ "worker" \in Actors /\ "irq" \in Actors /\ "ioctl" \in Actors
  BY DEF Actors
<1>2. ASSUME UNCHANGED <<fifo, moved, flushed, source, tsout_stat>>,
             act'["ioctl"] = act["ioctl"], ctrl' \ {"irq"} = ctrl \ {"irq"}
      PROVE  FifoInv'
  BY <1>2 DEF FifoInv
<1>3. CASE WriteBegin \/ WritePacket \/ WorkBegin
  <2>1. act'["ioctl"] = act["ioctl"]
    BY <1>1, <1>3 DEF WriteBegin, WritePacket, WorkBegin, TsTypeOK
  <2> QED
    BY <1>2, <1>3, <2>1 DEF WriteBegin, WritePacket, WorkBegin
<1>4. CASE WriteEnough \/ WriteTest \/ FifoEmptyIrq
  <2>1. act'["ioctl"] = act["ioctl"]
    BY <1>1, <1>4, GotoFacts DEF WriteEnough, WriteTest, FifoEmptyIrq
  <2> QED
    BY <1>2, <1>4, <2>1 DEF WriteEnough, WriteTest, FifoEmptyIrq
<1>5. ASSUME NEW a \in {"writer", "worker", "irq"}, ReadCtrl(a) PROVE FifoInv'
  <2>1. act'["ioctl"] = act["ioctl"]
    BY <1>1, <1>5 DEF ReadCtrl, TsTypeOK
  <2> QED
    BY <1>2, <1>5, <2>1 DEF ReadCtrl
<1>6. ASSUME NEW a \in {"writer", "worker"}, Kick(a) PROVE FifoInv'
  <2>1. act'["ioctl"] = act["ioctl"] /\ UNCHANGED <<fifo, moved, flushed, source, tsout_stat>>
    BY <1>1, <1>6 DEF Kick, WriteBack, TsTypeOK
  <2> QED
    BY <1>2, <1>6, <2>1, RaceFacts
<1>7. CASE FifoEmptyMask
  <2>1. act'["ioctl"] = act["ioctl"] /\ UNCHANGED <<fifo, moved, flushed, source, tsout_stat>>
    BY <1>1, <1>7 DEF FifoEmptyMask, WriteBack, TsTypeOK
  <2> QED
    BY <1>2, <1>7, <2>1, RaceFacts
<1>8. CASE WorkCopy
  <2> DEFINE p == tsout.data[tsout.pread]
  <2>1. /\ Avail > 0 /\ act["worker"].step = "copy"
        /\ moved \in Nat /\ flushed \in Nat /\ flushed <= moved
        /\ fifo \in Seq(1 .. MaxPackets)
    <3>1. act["worker"].step = "copy"
      BY <1>8 DEF WorkCopy
    <3>2. act["worker"].left \in 1 .. Avail
      BY <3>1 DEF ActorsInv
    <3>3. Avail \in 0 .. TsoutLen - 1 /\ TsoutLen \in Nat
      BY RingFacts, TsoutLenAssumption
    <3>4. Avail > 0
      BY <3>2, <3>3
    <3>5. moved \in 0 .. MaxPackets /\ flushed \in 0 .. MaxPackets
          /\ fifo \in Seq(1 .. MaxPackets)
      BY DEF TsTypeOK
    <3>6. flushed <= moved
      BY DEF TsRingInv
    <3> QED
      BY <3>1, <3>4, <3>5, <3>6
  <2>2. p = moved + 1 /\ p \in 1 .. MaxPackets
    BY <2>1, FirstPacket
  <2>3. act'["ioctl"] = act["ioctl"]
    BY <1>1, <1>8 DEF WorkCopy, TsTypeOK
  <2>4. /\ fifo' = IF "reset" \in ctrl THEN fifo ELSE Append(fifo, p)
        /\ moved' = p
        /\ UNCHANGED <<tsout_stat, ctrl, flushed, source>>
    BY <1>8 DEF WorkCopy
  <2> HIDE DEF p
  <2>5. act["ioctl"].step # "flush"
    BY <2>1 DEF TsLockInv
  <2>6. CASE "reset" \in ctrl
    BY <2>3, <2>4, <2>6 DEF FifoInv
  <2>7. CASE "reset" \notin ctrl
    <3> DEFINE n == Len(fifo)
    <3>1. /\ fifo' # <<>> /\ Len(fifo') = n + 1 /\ n \in Nat
          /\ \A i \in 1 .. n : fifo'[i] = fifo[i]
          /\ fifo'[n + 1] = p
          /\ fifo # <<>> => n > 0
      BY <2>1, <2>2, <2>4, <2>7, FifoAppend
    <3>2. \A i \in 1 .. n : fifo[i] > flushed
      BY DEF FifoInv
    <3>3. \A i \in 2 .. n : fifo[i] = fifo[i - 1] + 1
      BY DEF FifoInv
    <3>4. n > 0 => fifo[n] = moved
      <4>1. fifo = <<>> => n = 0
        OBVIOUS
      <4> QED
        BY <4>1 DEF FifoInv
    <3> HIDE DEF n
    <3>5. \A i \in 1 .. n + 1 : fifo'[i] > flushed
      BY <2>1, <2>2, <3>1, <3>2
    <3>6. \A i \in 2 .. n + 1 : fifo'[i] = fifo'[i - 1] + 1
      <4>1. SUFFICES ASSUME NEW i \in 2 .. n + 1 PROVE fifo'[i] = fifo'[i - 1] + 1
        OBVIOUS
      <4>2. CASE i = n + 1
        <5>1. n \in 1 .. n /\ i - 1 = n /\ n > 0
          BY <3>1, <4>2
        <5>2. fifo'[i] = p /\ fifo'[i - 1] = moved
          BY <3>1, <3>4, <4>2, <5>1
        <5> QED
          BY <2>2, <5>2
      <4>3. CASE i # n + 1
        <5>1. i \in 1 .. n /\ i - 1 \in 1 .. n /\ i \in 2 .. n
          BY <3>1, <4>3
        <5> QED
          BY <3>1, <3>3, <5>1
      <4> QED
        BY <4>2, <4>3
    <3> QED
      BY <2>3, <2>4, <2>5, <2>7, <3>1, <3>5, <3>6 DEF FifoInv
  <2> QED
    BY <2>6, <2>7
<1>9. CASE WorkLock
  <2>1. act'["ioctl"] = act["ioctl"]
    BY <1>1, <1>9, GotoFacts DEF WorkLock, TsTypeOK
  <2> QED
    BY <1>2, <1>9, <2>1 DEF WorkLock
<1>10. CASE WorkRun
  <2>1. act'["ioctl"] = act["ioctl"] /\ tsout_stat # "RESET"
        /\ UNCHANGED <<fifo, moved, flushed, source, ctrl>>
    BY <1>1, <1>10, GotoFacts, RaceFacts DEF WorkRun
  <2> QED
    BY <2>1 DEF FifoInv
<1>11. CASE ResetFifo
  <2>1. /\ act'["ioctl"].step = "stat" /\ fifo' = <<>> /\ ctrl' = {"reset"}
        /\ UNCHANGED <<moved, flushed>>
    BY <1>1, <1>11, GotoFacts DEF ResetFifo
  <2>2. Len(fifo') = 0
    BY <2>1
  <2> QED
    BY <2>1, <2>2 DEF FifoInv
<1>12. CASE ResetStat
  <2>1. /\ act["ioctl"].step = "stat" /\ act'["ioctl"].step \in {"idle", "cancel"}
        /\ tsout_stat' = "RESET" /\ UNCHANGED <<fifo, ctrl, moved, flushed, source>>
    BY <1>1, <1>12, GotoFacts DEF ResetStat
  <2> QED
    BY <2>1 DEF FifoInv
<1>13. CASE CancelWork
  <2>1. /\ act["ioctl"].step = "cancel" /\ act'["ioctl"].step = "start"
        /\ UNCHANGED <<fifo, ctrl, moved, flushed, source, tsout_stat>>
    BY <1>1, <1>13, GotoFacts DEF CancelWork
  <2> QED
    BY <2>1 DEF FifoInv
<1>14. CASE StartFifo
  <2>1. /\ act["ioctl"].step = "start" /\ act'["ioctl"].step = "flush" /\ ctrl' = {"on"}
        /\ UNCHANGED <<fifo, moved, flushed, source, tsout_stat>>
    BY <1>1, <1>14, GotoFacts DEF StartFifo
  <2> QED
    BY <2>1 DEF FifoInv
<1>15. CASE FlushRing
  <2>1. /\ act["ioctl"].step = "flush" /\ act'["ioctl"].step = "fill"
        /\ UNCHANGED <<fifo, ctrl, source, tsout_stat>>
    BY <1>1, <1>15, GotoFacts DEF FlushRing
  <2>2. fifo = <<>> /\ fifo' = <<>> /\ Len(fifo') = 0
    BY <2>1 DEF FifoInv
  <2> QED
    BY <2>1, <2>2 DEF FifoInv
<1>16. CASE FillRing
  <2>1. /\ act["ioctl"].step = "fill" /\ act'["ioctl"].step = "idle"
        /\ UNCHANGED <<fifo, ctrl, moved, flushed, source>>
    BY <1>1, <1>16, GotoFacts DEF FillRing
  <2>2. source = "memory"
    BY <2>1 DEF TsLockInv
  <2> QED
    BY <2>1, <2>2 DEF FifoInv
<1>17. CASE FifoPlays
  <2> DEFINE n == Len(fifo)
  <2>1. /\ fifo # <<>> /\ fifo' = Tail(fifo) /\ fifo \in Seq(1 .. MaxPackets)
        /\ UNCHANGED <<ctrl, moved, flushed, source, tsout_stat, act>>
    BY <1>17 DEF FifoPlays, TsTypeOK
  <2>2. /\ Len(fifo') = n - 1 /\ n \in Nat \ {0}
        /\ \A i \in 1 .. n - 1 : fifo'[i] = fifo[i + 1]
        /\ fifo' # <<>> => n > 1
    BY <2>1, FifoTail
  <2>3. /\ \A i \in 1 .. n : fifo[i] > flushed
        /\ \A i \in 2 .. n : fifo[i] = fifo[i - 1] + 1
        /\ fifo[n] = moved /\ "reset" \notin ctrl
    BY <2>1 DEF FifoInv
  <2> HIDE DEF n
  <2>4. \A i \in 1 .. n - 1 : fifo'[i] > flushed
    <3>1. SUFFICES ASSUME NEW i \in 1 .. n - 1 PROVE fifo'[i] > flushed
      OBVIOUS
    <3>2. i + 1 \in 1 .. n
      BY <2>2
    <3>3. fifo[i + 1] > flushed
      BY <2>3, <3>2
    <3> QED
      BY <2>2, <3>3
  <2>5. \A i \in 2 .. n - 1 : fifo'[i] = fifo'[i - 1] + 1
    <3>1. SUFFICES ASSUME NEW i \in 2 .. n - 1 PROVE fifo'[i] = fifo'[i - 1] + 1
      OBVIOUS
    <3>2. /\ i \in 1 .. n - 1 /\ i - 1 \in 1 .. n - 1 /\ i + 1 \in 2 .. n
          /\ (i - 1) + 1 = i /\ (i + 1) - 1 = i
      BY <2>2
    <3>3. fifo'[i] = fifo[i + 1] /\ fifo'[i - 1] = fifo[i] /\ fifo[i + 1] = fifo[i] + 1
      BY <2>2, <2>3, <3>2
    <3> QED
      BY <3>3
  <2>6. fifo' # <<>> => fifo'[n - 1] = moved
    <3>1. fifo' # <<>> => n - 1 \in 1 .. n - 1 /\ (n - 1) + 1 = n
      BY <2>2
    <3> QED
      BY <2>2, <2>3, <3>1
  <2>7. act["ioctl"].step # "flush" /\ act["ioctl"].step \notin {"stat", "cancel", "start"}
    BY <2>1, <2>3 DEF FifoInv
  <2> QED
    BY <2>1, <2>2, <2>3, <2>4, <2>5, <2>6, <2>7 DEF FifoInv
<1> QED
  BY <1>3, <1>4, <1>5, <1>6, <1>7, <1>8, <1>9, <1>10, <1>11, <1>12, <1>13, <1>14, <1>15,
     <1>16, <1>17 DEF TsNext

\* A packet in the ring has an interrupt, a worker or a writer to take it.
LEMMA KickStep ==
  ASSUME TsTypeOK, TsTypeOK', TsRingInv, ActorsInv, KickInv, TsNext, ~tsRaced'
  PROVE  KickInv'
<1> USE DEF Step
<1>1. "writer" \in Actors /\ "worker" \in Actors /\ "irq" \in Actors /\ "ioctl" \in Actors
  BY DEF Actors
<1>2. /\ Avail \in 0 .. TsoutLen - 1 /\ TsoutLen \in Nat /\ MaxWrite \in Nat
      /\ 0 <= TsoutLen \div 3
  BY RingFacts, TsoutLenAssumption, MaxWriteAssumption
<1>3. WritePacket \/ WorkCopy \/ FlushRing \/ Avail' = Avail
  BY RingSteps, StillFacts
<1>4. Woken' => KickInv'
  BY DEF KickInv
<1>5. ASSUME Avail' = Avail, UNCHANGED <<tsout_stat, early>>, Woken => Woken',
             act'["ioctl"] = act["ioctl"], act'["writer"] = act["writer"]
      PROVE  KickInv'
  BY <1>5 DEF KickInv
<1>6. CASE WriteBegin
  <2>1. PICK n \in 1 .. MaxWrite :
          act' = [act EXCEPT !["writer"] = [Resting EXCEPT !.step = "write", !.left = n]]
    BY <1>6 DEF WriteBegin
  <2>2. /\ act'["writer"].step = "write" /\ act'["writer"].left = n
        /\ \A b \in Actors \ {"writer"} : act'[b] = act[b]
    BY <2>1, <1>1 DEF TsTypeOK, Resting
  <2>3. Avail' = Avail
    BY <1>6, StillFacts DEF WriteBegin, Still
  <2>4. /\ act["writer"].step = "idle"
        /\ UNCHANGED <<tsout_stat, fifo, ctrl, fifo_work, early>>
    BY <1>6 DEF WriteBegin
  <2>5. Woken => Woken'
    BY <1>1, <2>2, <2>4 DEF Woken
  <2>6. act'["ioctl"] = act["ioctl"] /\ 0 <= MaxWrite - n
    BY <1>1, <1>2, <2>2
  <2> QED
    BY <2>2, <2>3, <2>4, <2>5, <2>6 DEF KickInv
<1>7. CASE WritePacket
  <2>1. /\ act["writer"].step = "write" /\ act["writer"].left > 0
        /\ UNCHANGED <<tsout_stat, fifo, ctrl, fifo_work, early>>
    BY <1>7 DEF WritePacket
  <2>2. /\ act'["writer"].step = "write" /\ act'["writer"].left = act["writer"].left - 1
        /\ \A b \in Actors \ {"writer"} : act'[b] = act[b]
    BY <1>1, <1>7 DEF WritePacket, TsTypeOK
  <2>3. act["writer"].left \in 0 .. TsoutLen + MaxWrite
    BY <1>1 DEF TsTypeOK
  <2>4. act["writer"].left <= MaxWrite /\ Avail' = Avail + 1
    BY <1>7, <2>1, RingSteps DEF ActorsInv
  <2>5. (Woken => Woken') /\ act'["ioctl"] = act["ioctl"]
    BY <1>1, <2>1, <2>2 DEF Woken
  <2>6. Avail = 0 \/ Avail <= MaxWrite - act["writer"].left
          => Avail' <= MaxWrite - act'["writer"].left
    BY <1>2, <2>2, <2>3, <2>4
  <2> QED
    BY <2>1, <2>2, <2>5, <2>6 DEF KickInv
<1>8. CASE WriteEnough
  <2>1. /\ act'["writer"].step = "test" /\ act'["ioctl"] = act["ioctl"]
        /\ UNCHANGED <<tsout_stat, early>>
    BY <1>1, <1>8, GotoFacts DEF WriteEnough
  <2> QED
    BY <2>1 DEF KickInv
<1>9. CASE WriteTest
  <2>1. UNCHANGED <<tsout_stat, fifo, ctrl, fifo_work, early>> /\ Avail' = Avail
    BY <1>9, StillFacts DEF WriteTest, Still
  <2>2. CASE tsout_stat = "RUN" \/ Avail > TsoutLen \div 3
    <3>1. act'["writer"].step = "read"
      BY <1>1, <1>9, <2>2, GotoFacts DEF WriteTest
    <3> QED
      BY <2>1, <3>1 DEF KickInv
  <2>3. CASE tsout_stat # "RUN" /\ ~(Avail > TsoutLen \div 3)
    <3>1. TsoutLen \div 3 \in Nat
      BY <1>2
    <3>2. Avail <= TsoutLen \div 3
      BY <1>2, <2>3, <3>1
    <3> QED
      BY <2>1, <2>3, <3>2 DEF KickInv
  <2> QED
    BY <2>2, <2>3
<1>10. CASE ReadCtrl("writer")
  <2>1. /\ act'["writer"].step = "kick" /\ act'["ioctl"] = act["ioctl"]
        /\ UNCHANGED <<tsout_stat, early>>
    BY <1>1, <1>10 DEF ReadCtrl, TsTypeOK
  <2> QED
    BY <2>1 DEF KickInv
<1>11. ASSUME NEW a \in {"worker", "irq"}, ReadCtrl(a) PROVE KickInv'
  <2>1. act'[a].step # "idle"
    BY <1>1, <1>11 DEF ReadCtrl, TsTypeOK
  <2> QED
    BY <1>4, <2>1 DEF Woken
<1>12. ASSUME NEW a \in {"writer", "worker"}, Kick(a) PROVE KickInv'
  BY <1>4, <1>12, RaceFacts DEF Woken
<1>13. CASE FifoEmptyIrq
  <2>1. act'["irq"].step = "read"
    BY <1>1, <1>13, GotoFacts DEF FifoEmptyIrq
  <2> QED
    BY <1>4, <2>1 DEF Woken
<1>14. CASE FifoEmptyMask
  <2>1. fifo_work' /\ fifo' = fifo
    BY <1>14 DEF FifoEmptyMask, WriteBack
  <2> QED
    BY <1>4, <1>14, <2>1, RaceFacts DEF Woken
<1>15. CASE WorkBegin
  <2> DEFINE room == FifoLen - Len(fifo)
             len == IF Avail > room THEN room ELSE Avail
  <2>1. /\ act["worker"].step = "idle" /\ Avail' = Avail
        /\ UNCHANGED <<tsout_stat, fifo, ctrl, early>>
    BY <1>15, StillFacts DEF WorkBegin, Still
  <2>2. act' = IF tsout_stat = "RESET" \/ len <= 0 THEN act
               ELSE [act EXCEPT !["worker"] = [Resting EXCEPT !.step = "copy", !.left = len]]
    BY <1>15 DEF WorkBegin
  <2>3. fifo = <<>> /\ len <= 0 => Avail = 0
    <3>1. fifo = <<>> => room = FifoLen /\ FifoLen \in Nat \ {0}
      BY FifoLenAssumption
    <3> QED
      BY <1>2, <3>1
  <2> HIDE DEF len
  <2>4. CASE tsout_stat = "RESET"
    BY <2>1, <2>4 DEF KickInv
  <2>5. CASE tsout_stat # "RESET" /\ len <= 0
    <3>1. act' = act
      BY <2>2, <2>5
    <3>2. Woken => Woken' \/ Avail = 0
      BY <2>1, <2>3, <2>5, <3>1 DEF Woken
    <3> QED
      BY <1>2, <2>1, <3>1, <3>2 DEF KickInv
  <2>6. CASE tsout_stat # "RESET" /\ ~(len <= 0)
    <3>1. act'["worker"].step = "copy"
      BY <1>1, <2>2, <2>6 DEF TsTypeOK, Resting
    <3> QED
      BY <1>4, <3>1 DEF Woken
  <2> QED
    BY <2>4, <2>5, <2>6
<1>16. CASE WorkCopy
  <2>1. act'["worker"].step \in {"lock", "copy"}
    BY <1>1, <1>16 DEF WorkCopy, TsTypeOK
  <2> QED
    BY <1>4, <2>1 DEF Woken
<1>17. CASE WorkLock
  <2>1. CASE tsout_stat = "RESET"
    BY <1>17, <2>1 DEF WorkLock, KickInv
  <2>2. CASE tsout_stat # "RESET"
    <3>1. act'["worker"].step = "run"
      BY <1>1, <1>17, <2>2, GotoFacts DEF WorkLock
    <3> QED
      BY <1>4, <3>1 DEF Woken
  <2> QED
    BY <2>1, <2>2
<1>18. CASE WorkRun
  <2>1. act'["worker"].step = "read"
    BY <1>1, <1>18, GotoFacts DEF WorkRun
  <2> QED
    BY <1>4, <2>1 DEF Woken
<1>19. CASE ResetFifo \/ CancelWork \/ StartFifo \/ FlushRing
  <2>1. act'["ioctl"].step \in {"stat", "start", "flush", "fill"}
    BY <1>1, <1>19, GotoFacts DEF ResetFifo, CancelWork, StartFifo, FlushRing
  <2> QED
    BY <2>1 DEF KickInv
<1>20. CASE ResetStat
  BY <1>20 DEF ResetStat, KickInv
<1>21. CASE FillRing
  <2>1. tsout_stat' = "FILL" /\ early' = (Avail > 0) /\ Avail' = Avail
    BY <1>21, StillFacts DEF FillRing, Still
  <2>2. ASSUME ~early' PROVE Avail' <= TsoutLen \div 3
    <3>1. ~(Avail > 0)
      BY <2>1, <2>2
    <3>2. Avail = 0
      BY <1>2, <3>1
    <3> QED
      BY <1>2, <2>1, <3>2
  <2> QED
    BY <2>1, <2>2 DEF KickInv
<1>22. CASE FifoPlays
  <2>1. /\ fifo # <<>> /\ UNCHANGED <<tsout_stat, early, act, ctrl, fifo_work>>
        /\ Avail' = Avail
    BY <1>22, StillFacts DEF FifoPlays, Still
  <2> QED
    BY <1>5, <2>1 DEF Woken
<1> QED
  BY <1>6, <1>7, <1>8, <1>9, <1>10, <1>11, <1>12, <1>13, <1>14, <1>15, <1>16, <1>17, <1>18,
     <1>19, <1>20, <1>21, <1>22 DEF TsNext

\* The invariant holds of the initial state, and no step breaks it.
LEMMA TsInitInv == TsInit => TsInv
<1> SUFFICES ASSUME TsInit PROVE TsInv
  OBVIOUS
<1>1. /\ TsoutLen \in Nat /\ TsoutLen >= 2 /\ MaxPackets \in Nat /\ MaxClears \in Nat
      /\ MaxWrite \in Nat
  BY TsoutLenAssumption, TsBoundsAssumption, MaxWriteAssumption
<1>2. /\ \A a \in Actors : act[a].step = "idle"
      /\ act \in [Actors -> [step : ActSteps, left : 0 .. TsoutLen + MaxWrite,
                             read : SUBSET Bits]]
  <2>1. Resting \in [step : ActSteps, left : 0 .. TsoutLen + MaxWrite, read : SUBSET Bits]
    BY <1>1 DEF Resting, ActSteps
  <2>2. act = [a \in Actors |-> Resting] /\ Resting.step = "idle"
    BY DEF TsInit, Resting
  <2> QED
    BY <2>1, <2>2
<1>3. tsout \in [data : [0 .. TsoutLen - 1 -> 0 .. MaxPackets],
                 pread : 0 .. TsoutLen - 1, pwrite : 0 .. TsoutLen - 1]
  BY <1>1 DEF TsInit
<1>4. {tsLock, fifo_work, early, tsRaced} \subseteq BOOLEAN
  BY Zenon DEF TsInit
<1>5. TsTypeOK
  BY <1>1, <1>2, <1>3, <1>4 DEF TsInit, TsTypeOK, Bits
<1>6. Avail = 0
  <2>1. tsout.pread = 0 /\ tsout.pwrite = 0
    BY DEF TsInit
  <2>2. Avail = IF 0 >= 0 THEN 0 - 0 ELSE 0 - 0 + TsoutLen
    BY <1>1, <2>1, RingPlaces DEF Avail
  <2> QED
    BY <2>2
<1>7. TsRingInv
  BY <1>6 DEF TsRingInv, TsInit
<1>8. /\ Step("writer") = "idle" /\ Step("worker") = "idle" /\ Step("irq") = "idle"
      /\ Step("ioctl") = "idle"
  BY <1>2 DEF Step, Actors
<1>9. ActorsInv
  BY <1>8 DEF ActorsInv
<1>10. TsLockInv
  BY <1>8 DEF TsLockInv, WorkerHolds, IoctlHolds, TsInit
<1>11. FifoInv
  <2>1. fifo = <<>> /\ Len(fifo) = 0 /\ tsout_stat = "RESET"
    BY DEF TsInit
  <2> QED
    BY <1>8, <2>1 DEF FifoInv
<1>12. KickInv
  BY DEF KickInv, TsInit
<1> QED
  BY <1>5, <1>7, <1>9, <1>10, <1>11, <1>12 DEF TsInv

\* The output device keeps its invariant.
LEMMA TsStep == TsInv /\ [TsNext]_tsVars => TsInv'
<1>1. ASSUME TsInv, TsNext PROVE TsInv'
  <2>1. TsTypeOK /\ TsRingInv /\ ActorsInv /\ TsLockInv
    BY <1>1 DEF TsInv
  <2>2. TsTypeOK'
    BY <1>1, <2>1, TsTypeStep
  <2>3. TsRingInv'
    BY <1>1, <2>1, <2>2, RingSteps
  <2>4. ActorsInv' /\ TsLockInv'
    BY <1>1, <2>1, <2>2, <2>3, ActorsStep, TsLockStep
  <2>5. ASSUME ~tsRaced' PROVE FifoInv' /\ KickInv'
    <3>1. FifoInv /\ KickInv
      BY <1>1, <2>1, <2>5, RaceFacts DEF TsInv
    <3> QED
      BY <1>1, <2>1, <2>2, <2>5, <3>1, FifoStep, KickStep
  <2> QED
    BY <2>2, <2>3, <2>4, <2>5 DEF TsInv
<1>2. ASSUME TsInv, UNCHANGED tsVars PROVE TsInv'
  BY <1>2, SMTT(30)
     DEF TsInv, TsTypeOK, TsRingInv, ActorsInv, TsLockInv, FifoInv, KickInv, Woken,
         WorkerHolds, IoctlHolds, Avail, Step, tsVars
<1> QED
  BY <1>1, <1>2

\* The stream reaches the FIFO whole and in order, with nothing from before the
\* last flush, unless a register or tsout_stat was written back from an old value
\* (dvb_video_write(), fifo_worker() and the ioctls of saa716x_ff_main.c).
THEOREM StreamWhole == TsSpec => []StreamIntact
<1>1. TsInv => StreamIntact
  BY DEF TsInv, TsRingInv, FifoInv, StreamIntact
<1> QED
  BY <1>1, TsInitInv, TsStep, PTL DEF TsSpec

\* Packets in the ring of a running FIFO, or a third of the ring, never wait with
\* everyone at rest and the interrupt "empty" off.
THEOREM KickNotLost == TsSpec => []NoLostKick
<1>1. ASSUME TsInv PROVE NoLostKick
  <2> SUFFICES ASSUME
        ~tsRaced, Avail > 0, ~fifo_work,
        Step("worker") = "idle", Step("irq") = "idle", Step("ioctl") = "idle",
        \/ Step("writer") = "idle" /\ tsout_stat # "RESET"
           /\ (tsout_stat = "RUN" \/ (Avail > TsoutLen \div 3 /\ ~early))
        \/ Step("writer") = "write" /\ act["writer"].left > 0 /\ Free = 0
           /\ tsout_stat = "RUN" /\ MaxWrite < TsoutLen
      PROVE "irq" \in ctrl
    BY DEF NoLostKick
  <2>1. KickInv /\ TsTypeOK
    BY <1>1 DEF TsInv
  <2>2. /\ Avail \in 0 .. TsoutLen - 1 /\ TsoutLen \in Nat /\ TsoutLen \div 3 \in Nat
        /\ MaxWrite \in Nat
    BY <2>1, RingFacts, TsoutLenAssumption, MaxWriteAssumption
  <2>3. SUFFICES Woken
    BY DEF Woken
  <2>4. CASE Step("writer") = "idle" /\ tsout_stat = "RUN"
    BY <2>1, <2>2, <2>4 DEF KickInv
  <2>5. CASE Step("writer") = "idle" /\ tsout_stat = "FILL" /\ ~early
             /\ Avail > TsoutLen \div 3
    <3>1. ~(Avail <= TsoutLen \div 3)
      BY <2>2, <2>5
    <3> QED
      BY <2>1, <2>5, <3>1 DEF KickInv
  <2>6. CASE /\ Step("writer") = "write" /\ act["writer"].left > 0 /\ Free = 0
             /\ tsout_stat = "RUN" /\ MaxWrite < TsoutLen
    <3>1. Avail = TsoutLen - 1
      BY <2>2, <2>6 DEF Free
    <3>2. act["writer"].left \in 0 .. TsoutLen + MaxWrite
      BY <2>1 DEF TsTypeOK, Actors
    <3>3. ~(Avail <= MaxWrite - act["writer"].left)
      BY <2>2, <2>6, <3>1, <3>2
    <3> QED
      BY <2>1, <2>2, <2>6, <3>3 DEF KickInv
  <2>7. tsout_stat \in {"RESET", "FILL", "RUN"}
    BY <2>1 DEF TsTypeOK
  <2> QED
    BY <2>4, <2>5, <2>6, <2>7
<1> QED
  BY <1>1, TsInitInv, TsStep, PTL DEF TsSpec


-----------------------------------------------------------------------------
(* I2C.                                                                    *)

Active == xf.step \in {"start", "clear", "send", "wait", "recv"}
Paging == xf.who # Nobody /\ Call.step = "page"

Stamp    == [ser : Nat, msg : Nat, n : Nat]
Stamps   == Nat \X I2cPages
WordType == [at : Stamp, does : {"start", "answer", "page", "write", "none"},
             page : I2cPages]
MsgType  == [rd : BOOLEAN, len : Nat \ {0}]
XfSteps  == {"idle", "start", "clear", "send", "wait", "recv", "retry"}
BusType  == [tx : Seq(WordType), rx : Seq(Stamps)]
XfType   == [who : Threads \cup {Nobody}, step : XfSteps, ser : Nat, try : 0 .. 2,
             msgs : Seq(MsgType), msg : Nat \ {0}, n : Nat, left : Nat, size : Nat,
             todo : Nat, got : SUBSET Stamps, doubt : SUBSET {"left", "woken", "cut"}]
IoType   == [Threads -> [step : {"idle", "page", "access"}, page : I2cPages,
                         rd : BOOLEAN, len : Nat \ {0}]]
LastType == [ok : BOOLEAN, rd : BOOLEAN, ser : Nat, asked : SUBSET Stamps,
             got : SUBSET Stamps, doubt : SUBSET {"left", "woken", "cut", "page"}]
DevType  == [page : I2cPages, seen : Stamp, done : Stamps]
I2cType  == [mode : {"polling", "buffered"}, op : {0, 1}, irq : {"none", "own", "stale"}]

\* Types, the FIFOs' contents included.
I2cTypes ==
  /\ i2c \in I2cType /\ bus \in BusType /\ device \in DevType /\ xf \in XfType
  /\ io \in IoType /\ last \in LastType
  /\ statePage \in I2cPages \cup {Unset} /\ pageLost \in BOOLEAN
  /\ pageLock \in Threads \cup {Nobody}
  /\ i2cCalls \in 0 .. MaxI2cCalls /\ faults \in 0 .. MaxFaults

\* Who holds page_lock calls; the caller's transfer is the one under way, with the
\* messages of its call, and on the page remembered once that is written.
CallersInv ==
  /\ xf.who = Nobody <=> xf.step = "idle"
  /\ xf.who # Nobody => Call.step # "idle"
       /\ \E rd \in BOOLEAN, len \in Nat \ {0} :
            /\ xf.msgs = Messages(rd, len)
            /\ rd <=> Call.step = "access" /\ Call.rd
  /\ \A p \in Threads : /\ io[p].step # "idle" => pageLock = p
                        /\ io[p].step = "access" => io[p].page = statePage

\* A polled controller sends each word before the next. One with a FIFO serves one
\* page only.
ModeInv ==
  /\ Polling  => bus.tx = <<>> /\ i2c.irq = "none"
  /\ ~Polling => /\ statePage # Unset /\ device.page = statePage
                 /\ \A p \in Threads : io[p].step # "page"
                 /\ \A i \in 1 .. Len(bus.tx) : bus.tx[i].does # "page"

\* How far the message has come: n counts the START and the bytes sent.
CountInv ==
  /\ xf.size <= xf.left /\ xf.size <= BlockBytes /\ xf.todo <= xf.size
  /\ Active =>
       /\ xf.msg <= Len(xf.msgs) /\ xf.left \in 1 .. Msg.len
       /\ xf.n = 0 => xf.left = Msg.len /\ xf.size = 0 /\ xf.step \notin {"wait", "recv"}
       /\ xf.n > 0 => xf.n = 1 + Msg.len - xf.left + xf.size
                               - (IF xf.step = "recv" THEN 0 ELSE xf.todo)
       /\ xf.step = "wait" => xf.todo = 0
       /\ xf.step = "recv" /\ ~Msg.rd => xf.todo = 0

\* An interrupt that ends a wait came of the words sent before it, or is in doubt.
WaitInv ==
  ~Polling /\ "woken" \notin xf.doubt =>
    /\ xf.step \in {"clear", "send"} => i2c.irq # "own" /\ i2c.op = 1
    /\ xf.step = "wait" /\ (i2c.irq = "own" \/ i2c.op = 0) => bus.tx = <<>>
    /\ xf.step = "recv" => bus.tx = <<>>

SentWords == xf.n - Len(bus.tx)

\* The device follows the words of a write, with those not sent yet still in the
\* FIFO; the last has it written.
WriteInv ==
  Active /\ xf.doubt = {} /\ Len(xf.msgs) = 1 =>
    /\ SentWords >= 0
    /\ \A i \in 1 .. Len(bus.tx) :
         /\ bus.tx[i].at = [ser |-> xf.ser, msg |-> 1, n |-> SentWords + i - 1]
         /\ SentWords + i - 1 = xf.msgs[1].len /\ Call.step = "access"
              => bus.tx[i].does = "write"
    /\ SentWords > 0 => device.seen = [ser |-> xf.ser, msg |-> 1, n |-> SentWords - 1]
    /\ SentWords > xf.msgs[1].len =>
         IF Call.step = "page" THEN device.page = Call.page
         ELSE device.done = <<xf.ser, device.page>>

\* What a read has got is what the device answered to it.
ReadInv ==
  Active /\ xf.doubt \subseteq {"woken"} /\ Call.step = "access" =>
    /\ \A i \in 1 .. Len(bus.tx) : bus.tx[i].at.ser = xf.ser
    /\ \A i \in 1 .. Len(bus.rx) : bus.rx[i] = <<xf.ser, device.page>>
    /\ xf.got \subseteq {<<xf.ser, device.page>>}
    /\ xf.step = "recv" /\ Msg.rd /\ xf.todo < xf.size => xf.got # {}

\* The page remembered is the device's, unless a page write is under way or was
\* reported wrongly.
PageInv ==
  ~pageLost /\ statePage # Unset =>
    device.page = statePage \/ (Paging /\ device.page = Call.page)

I2cInv == /\ I2cTypes /\ CallersInv /\ ModeInv /\ CountInv /\ WaitInv /\ WriteInv
          /\ ReadInv /\ PageInv /\ AccessIsOwn


\* The messages of a transfer: two for a read, the register number and the answer.
LEMMA MessagesFacts ==
  ASSUME NEW rd \in BOOLEAN, NEW len \in Nat \ {0}
  PROVE  /\ Messages(rd, len) \in Seq(MsgType)
         /\ Len(Messages(rd, len)) = IF rd THEN 2 ELSE 1
         /\ Messages(rd, len)[1].rd = FALSE
         /\ Messages(rd, len)[1].len = IF rd THEN 1 ELSE len
         /\ rd => Messages(rd, len)[2] = [rd |-> TRUE, len |-> len]
<1>1. CASE rd
  <2>1. Messages(rd, len) = <<[rd |-> FALSE, len |-> 1], [rd |-> TRUE, len |-> len]>>
    BY <1>1 DEF Messages
  <2>2. [rd |-> FALSE, len |-> 1] \in MsgType /\ [rd |-> TRUE, len |-> len] \in MsgType
    BY DEF MsgType
  <2>3. Messages(rd, len) \in Seq(MsgType)
    BY <2>1, <2>2
  <2>4. /\ Len(Messages(rd, len)) = 2
        /\ Messages(rd, len)[1] = [rd |-> FALSE, len |-> 1]
        /\ Messages(rd, len)[2] = [rd |-> TRUE, len |-> len]
    BY <2>1
  <2>5. [rd |-> FALSE, len |-> 1].rd = FALSE /\ [rd |-> FALSE, len |-> 1].len = 1
    OBVIOUS
  <2>6. Messages(rd, len)[1].rd = FALSE /\ Messages(rd, len)[1].len = 1
    BY <2>4, <2>5
  <2> QED
    BY <1>1, <2>3, <2>4, <2>6
<1>2. CASE ~rd
  <2>1. Messages(rd, len) = <<[rd |-> FALSE, len |-> len]>>
    BY <1>2 DEF Messages
  <2>2. [rd |-> FALSE, len |-> len] \in MsgType
    BY DEF MsgType
  <2> QED
    BY <1>2, <2>1, <2>2
<1> QED
  BY <1>1, <1>2

\* The transfer under way has one or two messages, and the one it is at is one of
\* them.
LEMMA XferFacts ==
  ASSUME I2cTypes, CallersInv, xf.who # Nobody
  PROVE  /\ xf.who \in Threads /\ xf.msgs \in Seq(MsgType) /\ Len(xf.msgs) \in {1, 2}
         /\ xf.msgs[1] \in MsgType /\ ~xf.msgs[1].rd
         /\ Len(xf.msgs) = 2 <=> Call.step = "access" /\ Call.rd
         /\ Len(xf.msgs) = 2 => xf.msgs[2] \in MsgType /\ xf.msgs[2].rd
         /\ Call.step \in {"page", "access"} /\ Call.page \in I2cPages
         /\ Call.rd \in BOOLEAN
<1>1. /\ xf.who \in Threads /\ Call.step \in {"page", "access"} /\ Call.page \in I2cPages
      /\ Call.rd \in BOOLEAN /\ Call.len \in Nat \ {0}
  <2>1. xf.who \in Threads
    BY DEF I2cTypes, XfType
  <2> QED
    BY <2>1 DEF I2cTypes, IoType, CallersInv, Call
<1>2. PICK rd \in BOOLEAN, len \in Nat \ {0} :
        xf.msgs = Messages(rd, len) /\ (rd <=> Call.step = "access" /\ Call.rd)
  BY DEF CallersInv
<1> DEFINE msgs == Messages(rd, len)
<1>3. /\ msgs \in Seq(MsgType) /\ Len(msgs) = IF rd THEN 2 ELSE 1
      /\ msgs[1].rd = FALSE
      /\ rd => msgs[2] = [rd |-> TRUE, len |-> len]
  BY MessagesFacts
<1> HIDE DEF msgs
<1>4. Len(msgs) \in {1, 2} /\ (Len(msgs) = 2 <=> rd)
  BY <1>3
<1>5. [rd |-> TRUE, len |-> len] \in MsgType
  BY DEF MsgType
<1>6. msgs[1] \in MsgType
  BY <1>3, <1>4, ElementOfSeq
<1> QED
  BY <1>1, <1>2, <1>3, <1>4, <1>5, <1>6 DEF msgs

\* The message a transfer is at.
LEMMA MsgFacts ==
  ASSUME I2cTypes, CallersInv, CountInv, Active
  PROVE  /\ xf.who # Nobody /\ Msg \in MsgType
         /\ xf.msg \in {1, 2} /\ xf.msg <= Len(xf.msgs)
         /\ Msg.rd <=> xf.msg = 2
<1>1. xf.who # Nobody
  BY DEF Active, CallersInv
<1>2. xf.msg \in Nat \ {0} /\ xf.msg <= Len(xf.msgs)
  BY DEF CountInv, I2cTypes, XfType
<1>3. /\ Len(xf.msgs) \in {1, 2} /\ xf.msgs[1] \in MsgType /\ ~xf.msgs[1].rd
      /\ Len(xf.msgs) = 2 => xf.msgs[2] \in MsgType /\ xf.msgs[2].rd
  BY <1>1, XferFacts
<1>4. xf.msg \in {1, 2} /\ (xf.msg = 2 => Len(xf.msgs) = 2)
  <2> DEFINE L == Len(xf.msgs)
  <2>1. L \in {1, 2} /\ xf.msg \in Nat \ {0} /\ xf.msg <= L
    BY <1>2, <1>3
  <2> HIDE DEF L
  <2>2. xf.msg \in {1, 2} /\ (xf.msg = 2 => L = 2)
    BY <2>1
  <2> QED
    BY <2>2 DEF L
<1>5. CASE xf.msg = 1
  BY <1>1, <1>2, <1>3, <1>5 DEF Msg
<1>6. CASE xf.msg = 2
  BY <1>1, <1>2, <1>3, <1>4, <1>6 DEF Msg
<1> QED
  BY <1>4, <1>5, <1>6

\* The word that is sent next.
LEMMA WordFacts ==
  ASSUME I2cTypes, CallersInv, CountInv, Active
  PROVE  /\ Word \in WordType /\ Word.at = [ser |-> xf.ser, msg |-> xf.msg, n |-> xf.n]
         /\ Word.page = Call.page
         /\ Word.does = "page" => Call.step = "page"
         /\ Len(xf.msgs) = 1 /\ xf.n = Msg.len =>
              Word.does = IF Call.step = "page" THEN "page" ELSE "write"
         /\ Word.does = "answer" => Call.step = "access"
<1>1. /\ xf.who # Nobody /\ Msg \in MsgType /\ xf.msg \in {1, 2} /\ xf.msg <= Len(xf.msgs)
      /\ Msg.rd <=> xf.msg = 2
  BY MsgFacts
<1>2. /\ Call.step \in {"page", "access"} /\ Call.page \in I2cPages
      /\ Len(xf.msgs) \in {1, 2}
      /\ Len(xf.msgs) = 2 <=> Call.step = "access" /\ Call.rd
  BY <1>1, XferFacts
<1>3. [ser |-> xf.ser, msg |-> xf.msg, n |-> xf.n] \in Stamp
  BY DEF I2cTypes, XfType, Stamp
<1> DEFINE final == ~Msg.rd /\ xf.n = Msg.len /\ xf.msg = Len(xf.msgs)
           does == CASE xf.n = 0 -> "start"
                     [] xf.n > 0 /\ Msg.rd -> "answer"
                     [] final /\ Call.step = "page" -> "page"
                     [] final /\ Call.step = "access" -> "write"
                     [] OTHER -> "none"
<1>4. Word = [at |-> [ser |-> xf.ser, msg |-> xf.msg, n |-> xf.n], does |-> does,
              page |-> Call.page]
  BY DEF Word
<1>5. /\ does \in {"start", "answer", "page", "write", "none"}
      /\ does = "page" => Call.step = "page"
      /\ Len(xf.msgs) = 1 /\ xf.n = Msg.len =>
           does = IF Call.step = "page" THEN "page" ELSE "write"
      /\ does = "answer" => Call.step = "access"
  <2>1. Msg.len # 0
    BY <1>1 DEF MsgType
  <2>2. CASE xf.n = 0
    <3>1. ~(xf.n > 0) /\ ~final
      BY <2>1, <2>2
    <3>2. does = "start"
      BY <2>2, <3>1
    <3> HIDE DEF does
    <3> QED
      BY <2>1, <2>2, <3>2
  <2>3. CASE xf.n # 0 /\ Msg.rd
    <3>1. xf.msg = 2 /\ ~final /\ xf.n > 0
      BY <1>1, <2>3 DEF I2cTypes, XfType
    <3>3. Len(xf.msgs) = 2
      <4> DEFINE L == Len(xf.msgs)
      <4>1. L \in {1, 2} /\ xf.msg <= L
        BY <1>1, <1>2
      <4> HIDE DEF L
      <4>2. L = 2
        BY <3>1, <4>1
      <4> QED
        BY <4>2 DEF L
    <3>2. does = "answer"
      BY <2>3, <3>1
    <3> HIDE DEF does
    <3> QED
      BY <1>2, <3>2, <3>3
  <2>4. CASE xf.n # 0 /\ ~Msg.rd
    <3>1. xf.msg = 1
      BY <1>1, <2>4
    <3>2. final => does = IF Call.step = "page" THEN "page" ELSE "write"
      BY <1>2, <2>4
    <3>3. ~final => does = "none"
      BY <2>4
    <3> HIDE DEF does
    <3> QED
      BY <1>2, <2>4, <3>1, <3>2, <3>3
  <2> QED
    BY <2>2, <2>3, <2>4
<1> HIDE DEF does
<1> QED
  BY <1>2, <1>3, <1>4, <1>5 DEF WordType


NoXferType == NoXfer \in XfType /\ NoXfer.step = "idle" /\ NoXfer.who = Nobody

\* An adapter at rest has its types.
LEMMA RestingXfer ==
  NoXferType /\ <<>> \in Seq(WordType) /\ <<>> \in Seq(Stamps) /\ None \in Stamp
BY DEF NoXferType, NoXfer, XfType, XfSteps, None, Stamp

\* What the device and the wire make of a word.
LEMMA TakeFacts ==
  ASSUME NEW w \in WordType, device \in DevType, Take(w)
  PROVE  /\ device' \in DevType /\ Answer(w) \in Seq(Stamps)
         /\ Answer(w) = <<>>
              \/ (w.does = "answer" /\ Answer(w) = <<<<w.at.ser, device.page>>>>)
         /\ w.does # "page" => device'.page = device.page
         /\ device'.page \in {device.page, w.page}
         /\ Follows(w) => /\ device'.seen = w.at
                          /\ w.does = "page" => device'.page = w.page
                          /\ w.does = "write" => device'.done = <<w.at.ser, device.page>>
         /\ w.does # "write" => device'.done = device.done
<1>1. /\ w.at \in Stamp /\ w.page \in I2cPages /\ w.at.ser \in Nat
      /\ device.page \in I2cPages /\ device.done \in Stamps /\ device.seen \in Stamp
  BY DEF WordType, Stamp, DevType
<1>2. <<w.at.ser, device.page>> \in Stamps
  BY <1>1 DEF Stamps
<1>3. Answer(w) \in Seq(Stamps)
      /\ (Answer(w) = <<>> \/ (w.does = "answer" /\ Answer(w) = <<<<w.at.ser, device.page>>>>))
  BY <1>2 DEF Answer
<1>4. CASE Follows(w)
  <2>1. device' = [seen |-> w.at, page |-> IF w.does = "page" THEN w.page ELSE device.page,
                   done |-> IF w.does = "write" THEN <<w.at.ser, device.page>>
                            ELSE device.done]
    BY <1>4 DEF Take
  <2> QED
    BY <1>1, <1>2, <1>3, <1>4, <2>1 DEF DevType
<1>5. CASE ~Follows(w)
  <2>1. device' = [device EXCEPT !.seen = None]
    BY <1>5 DEF Take
  <2> QED
    BY <1>1, <1>3, <1>5, <2>1, RestingXfer DEF DevType
<1> QED
  BY <1>4, <1>5

\* The first block after a START.
LEMMA SentFacts ==
  ASSUME I2cTypes, xf.step = "send", xf.n = 0 \/ xf.todo > 0
  PROVE  /\ Sent \in XfType /\ Sent.n = xf.n + 1
         /\ xf.n = 0 => /\ Sent.todo = SmallerOf(BlockBytes - 1, xf.left)
                        /\ Sent.size = SmallerOf(BlockBytes - 1, xf.left)
         /\ xf.n # 0 => Sent.todo = xf.todo - 1 /\ Sent.size = xf.size
         /\ Sent.who = xf.who /\ Sent.step = xf.step /\ Sent.ser = xf.ser
         /\ Sent.msgs = xf.msgs /\ Sent.msg = xf.msg /\ Sent.left = xf.left
         /\ Sent.got = xf.got /\ Sent.doubt = xf.doubt /\ Sent.try = xf.try
<1>1. xf \in XfType
  BY DEF I2cTypes
<1>2. xf.n \in Nat /\ xf.left \in Nat /\ xf.todo \in Nat /\ xf.size \in Nat
  BY <1>1 DEF XfType
<1>3. BlockBytes \in Nat \ {0} /\ SmallerOf(BlockBytes - 1, xf.left) \in Nat
  BY <1>2, BlockSizeAssumption DEF BlockBytes, SmallerOf
<1> DEFINE todo == IF xf.n = 0 THEN SmallerOf(BlockBytes - 1, xf.left) ELSE xf.todo - 1
           size == IF xf.n = 0 THEN SmallerOf(BlockBytes - 1, xf.left) ELSE xf.size
<1>4. todo \in Nat /\ size \in Nat
  BY <1>2, <1>3
<1>5. Sent = [xf EXCEPT !.n = xf.n + 1, !.todo = todo, !.size = size]
  BY <1>1 DEF Sent, XfType
<1>6. /\ xf.n = 0 => todo = SmallerOf(BlockBytes - 1, xf.left) /\ size = todo
      /\ xf.n # 0 => todo = xf.todo - 1 /\ size = xf.size
  OBVIOUS
<1> HIDE DEF todo, size
<1>7. Sent \in XfType
  <2> DEFINE n == xf.n + 1
  <2>1. n \in Nat
    BY <1>2
  <2>2. Sent = [xf EXCEPT !.n = n, !.todo = todo, !.size = size]
    BY <1>5
  <2> HIDE DEF n
  <2> QED
    BY <1>1, <1>4, <2>1, <2>2 DEF XfType
<1> QED
  BY <1>1, <1>2, <1>5, <1>6, <1>7 DEF XfType

\* What the end of a transfer does to the call.
LEMMA ReturnFacts ==
  ASSUME I2cTypes, CallersInv, xf.who # Nobody, NEW ok \in BOOLEAN, Return(ok)
  PROVE  /\ xf' = NoXfer /\ io' \in IoType
         /\ \A p \in Threads : p # xf.who => io'[p] = io[p]
         /\ io'[xf.who].page = Call.page
         /\ Call.step = "page" =>
              /\ statePage' = (IF ok THEN Call.page ELSE statePage)
              /\ pageLost' = (IF ok THEN xf.doubt # {}
                              ELSE pageLost \/ device.page = Call.page)
              /\ io'[xf.who].step = (IF ok THEN "access" ELSE "idle")
              /\ pageLock' = (IF ok THEN pageLock ELSE Nobody)
              /\ last' = last
         /\ Call.step = "access" =>
              /\ last' = [last EXCEPT !.ok = ok, !.rd = Call.rd,
                            !.doubt = xf.doubt \cup (IF pageLost THEN {"page"} ELSE {}),
                            !.asked = {<<xf.ser, Call.page>>},
                            !.got = IF Call.rd THEN xf.got ELSE {device.done}]
              /\ io'[xf.who].step = "idle" /\ pageLock' = Nobody
              /\ UNCHANGED <<statePage, pageLost>>
<1>1. xf.who \in Threads /\ Call.step \in {"page", "access"}
  BY XferFacts
<1>2. io \in IoType
  BY DEF I2cTypes
<1>3. CASE Call.step = "page"
  <2>1. /\ xf' = NoXfer /\ PageWritten(ok)
        /\ pageLost' = IF ok THEN xf.doubt # {} ELSE pageLost \/ device.page = Call.page
        /\ io' = [io EXCEPT ![xf.who].step = IF ok THEN "access" ELSE "idle"]
        /\ pageLock' = (IF ok THEN pageLock ELSE Nobody) /\ last' = last
    BY <1>3 DEF Return
  <2> DEFINE s == IF ok THEN "access" ELSE "idle"
  <2>2. s \in {"access", "idle"}
    OBVIOUS
  <2>3. io' = [io EXCEPT ![xf.who].step = s]
    BY <2>1
  <2> HIDE DEF s
  <2>4. /\ io' \in IoType /\ io'[xf.who].step = s /\ io'[xf.who].page = Call.page
        /\ \A p \in Threads : p # xf.who => io'[p] = io[p]
    BY <1>1, <1>2, <2>2, <2>3 DEF IoType, Call
  <2> QED
    BY <1>3, <2>1, <2>4 DEF PageWritten, s
<1>4. CASE Call.step = "access"
  <2>1. /\ xf' = NoXfer
        /\ last' = [last EXCEPT !.ok = ok, !.rd = Call.rd,
                      !.doubt = xf.doubt \cup (IF pageLost THEN {"page"} ELSE {}),
                      !.asked = {<<xf.ser, Call.page>>},
                      !.got = IF Call.rd THEN xf.got ELSE {device.done}]
        /\ io' = [io EXCEPT ![xf.who].step = "idle"]
        /\ pageLock' = Nobody /\ UNCHANGED <<statePage, pageLost>>
    BY <1>4 DEF Return
  <2>2. /\ io' \in IoType /\ io'[xf.who].step = "idle" /\ io'[xf.who].page = Call.page
        /\ \A p \in Threads : p # xf.who => io'[p] = io[p]
    BY <1>1, <1>2, <2>1 DEF IoType, Call
  <2> QED
    BY <1>4, <2>1, <2>2
<1> QED
  BY <1>1, <1>3, <1>4

\* The controller is reset, or not.
LEMMA HwinitFacts ==
  ASSUME I2cTypes, NEW result, Hwinit(result)
  PROVE  /\ bus' \in BusType /\ device' \in DevType
         /\ device'.page = device.page /\ device'.done = device.done
         /\ result # "early" => bus'.tx = <<>> /\ bus'.rx = <<>>
         /\ bus'.tx \in {bus.tx, <<>>}
<1>1. CASE result = "early"
  BY <1>1 DEF Hwinit, I2cTypes
<1>2. CASE result # "early"
  <2>1. bus' = [tx |-> <<>>, rx |-> <<>>] /\ device' = [device EXCEPT !.seen = None]
    BY <1>2 DEF Hwinit, Flush
  <2> QED
    BY <1>2, <2>1, RestingXfer DEF BusType, DevType, I2cTypes
<1> QED
  BY <1>1, <1>2

\* Each step of the adapter keeps the types.
LEMMA I2cTypeStep ==
  ASSUME I2cTypes, CallersInv, ModeInv, CountInv, I2cNext
  PROVE  I2cTypes'
<1> USE I2cBoundsAssumption, BlockSizeAssumption
<1>1. /\ i2c \in I2cType /\ bus \in BusType /\ device \in DevType /\ xf \in XfType
      /\ io \in IoType /\ last \in LastType
      /\ statePage \in I2cPages \cup {Unset} /\ pageLost \in BOOLEAN
      /\ pageLock \in Threads \cup {Nobody}
      /\ i2cCalls \in 0 .. MaxI2cCalls /\ faults \in 0 .. MaxFaults
  BY DEF I2cTypes
<1>2. Fault => faults' \in 0 .. MaxFaults
  BY <1>1 DEF Fault
<1>3. \A s \in XfSteps : [xf EXCEPT !.step = s] \in XfType
  BY <1>1 DEF XfType
<1>23. ASSUME NEW s \in XfSteps, NEW left \in Nat, NEW size \in Nat, NEW todo \in Nat
       PROVE  /\ [xf EXCEPT !.step = s, !.todo = todo] \in XfType
              /\ [xf EXCEPT !.step = s, !.left = left, !.size = size, !.todo = todo]
                   \in XfType
  BY <1>1 DEF XfType
<1>24. ASSUME NEW s \in XfSteps, NEW m \in Nat \ {0}, NEW n \in Nat, NEW left \in Nat,
              NEW size \in Nat, NEW todo \in Nat
       PROVE  [xf EXCEPT !.step = s, !.msg = m, !.n = n, !.size = size, !.todo = todo,
                         !.left = left] \in XfType
  BY <1>1 DEF XfType
<1>4. Failed => xf' \in XfType
  BY <1>3 DEF Failed, XfSteps
<1>5. \A s \in {"own", "stale", "none"} : [i2c EXCEPT !.irq = s] \in I2cType
  BY <1>1 DEF I2cType
<1>6. CASE BusSends
  <2>1. /\ bus.tx # <<>> /\ Take(Head(bus.tx))
        /\ bus' = [tx |-> Tail(bus.tx), rx |-> bus.rx \o Answer(Head(bus.tx))]
        /\ i2c' = IF Len(bus.tx) > 1 \/ i2c.irq # "none" THEN i2c
                  ELSE [i2c EXCEPT !.irq = IF xf.step = "wait" THEN "own" ELSE "stale"]
        /\ UNCHANGED <<xf, statePage, io, pageLock, pageLost, last, i2cCalls, faults>>
    BY <1>6 DEF BusSends
  <2>2. /\ bus.tx \in Seq(WordType) /\ bus.rx \in Seq(Stamps)
        /\ Head(bus.tx) \in WordType /\ Tail(bus.tx) \in Seq(WordType)
    BY <1>1, <2>1, HeadTailProperties DEF BusType
  <2>3. device' \in DevType /\ Answer(Head(bus.tx)) \in Seq(Stamps)
    BY <1>1, <2>1, <2>2, TakeFacts
  <2>4. bus' \in BusType
    BY <2>1, <2>2, <2>3, ConcatProperties DEF BusType
  <2>5. i2c' \in I2cType
    BY <1>1, <1>5, <2>1
  <2> QED
    BY <1>1, <2>1, <2>3, <2>4, <2>5 DEF I2cTypes
<1>7. CASE HandleI2cIrq
  <2>1. i2c' \in I2cType
    BY <1>1, <1>7 DEF HandleI2cIrq, I2cType
  <2>2. xf' \in XfType
    <3>1. xf' = xf \/ xf' = [xf EXCEPT !.doubt = xf.doubt \cup {"woken"}]
      BY <1>7 DEF HandleI2cIrq
    <3>2. xf.doubt \cup {"woken"} \in SUBSET {"left", "woken", "cut"}
      BY <1>1 DEF XfType
    <3> QED
      BY <1>1, <3>1, <3>2 DEF XfType
  <2> QED
    BY <1>1, <1>7, <2>1, <2>2 DEF HandleI2cIrq, I2cTypes
<1>8. CASE I2cIrqStart
  <2>1. xf' \in XfType
    BY <1>3, <1>8 DEF I2cIrqStart, XfSteps
  <2>2. i2c' \in I2cType
    BY <1>1, <1>8 DEF I2cIrqStart, I2cType
  <2> QED
    BY <1>1, <1>8, <2>1, <2>2 DEF I2cIrqStart, I2cTypes
<1>9. CASE I2cIrqClear
  <2>1. xf' \in XfType
    BY <1>3, <1>9 DEF I2cIrqClear, XfSteps
  <2>2. i2c' \in I2cType
    BY <1>1, <1>5, <1>9 DEF I2cIrqClear, I2cType
  <2> QED
    BY <1>1, <1>9, <2>1, <2>2 DEF I2cIrqClear, I2cTypes
<1>10. CASE SendBuffered
  <2>1. xf.step = "send" /\ (xf.n = 0 \/ xf.todo > 0)
    BY <1>10 DEF SendBuffered, MoreToSend
  <2>2. Sent \in XfType /\ Word \in WordType
    BY <2>1, SentFacts, WordFacts DEF Active
  <2>3. bus' \in BusType
    <3>1. Append(bus.tx, Word) \in Seq(WordType)
      BY <1>1, <2>2 DEF BusType
    <3> QED
      BY <1>1, <1>10, <3>1 DEF SendBuffered, BusType
  <2> QED
    BY <1>1, <1>10, <2>2, <2>3 DEF SendBuffered, I2cTypes
<1>11. CASE SendPolled
  <2>1. xf.step = "send" /\ (xf.n = 0 \/ xf.todo > 0)
    BY <1>11 DEF SendPolled, MoreToSend
  <2>2. Sent \in XfType /\ Word \in WordType
    BY <2>1, SentFacts, WordFacts DEF Active
  <2>3. xf' \in XfType /\ faults' \in 0 .. MaxFaults
    BY <1>1, <1>2, <1>4, <1>11, <2>2 DEF SendPolled
  <2>4. CASE UNCHANGED <<bus, device>>
    BY <1>1, <1>11, <2>3, <2>4 DEF SendPolled, I2cTypes
  <2>5. CASE Take(Word) /\ bus' = [bus EXCEPT !.rx = @ \o Answer(Word)]
    <3>1. device' \in DevType /\ Answer(Word) \in Seq(Stamps)
      BY <1>1, <2>2, <2>5, TakeFacts
    <3>2. bus.rx \o Answer(Word) \in Seq(Stamps)
      BY <1>1, <3>1, ConcatProperties DEF BusType
    <3>3. bus' \in BusType
      BY <1>1, <2>5, <3>2 DEF BusType
    <3> QED
      BY <1>1, <1>11, <2>3, <3>1, <3>3 DEF SendPolled, I2cTypes
  <2> QED
    BY <1>11, <2>4, <2>5 DEF SendPolled
<1>12. CASE SendReset
  <2>1. xf.step = "send" /\ (xf.n = 0 \/ xf.todo > 0)
    BY <1>12 DEF SendReset, MoreToSend
  <2>2. Sent \in XfType
    BY <2>1, SentFacts
  <2>3. PICK result : /\ Hwinit(result)
                      /\ \/ Failed \/ xf' = xf
                         \/ xf' = [Sent EXCEPT !.doubt = @ \cup {"cut"}]
    BY <1>12 DEF SendReset
  <2>4. [Sent EXCEPT !.doubt = @ \cup {"cut"}] \in XfType
    <3>1. Sent.doubt \cup {"cut"} \in SUBSET {"left", "woken", "cut"}
      BY <2>2 DEF XfType
    <3> QED
      BY <2>2, <3>1 DEF XfType
  <2>5. xf' \in XfType
    BY <1>1, <1>4, <2>3, <2>4
  <2>6. bus' \in BusType /\ device' \in DevType
    BY <2>3, HwinitFacts
  <2> QED
    BY <1>1, <1>2, <1>12, <2>5, <2>6 DEF SendReset, I2cTypes
<1>13. CASE SendDone
  <2>1. xf' \in XfType
    BY <1>3, <1>13 DEF SendDone, XfSteps
  <2> QED
    BY <1>1, <1>13, <2>1 DEF SendDone, I2cTypes
<1>14. CASE WaitOk
  <2>1. xf' \in XfType
    <3>1. xf' = [xf EXCEPT !.step = "recv", !.todo = 0]
          \/ xf' = [xf EXCEPT !.step = "recv", !.todo = xf.size]
      BY <1>14 DEF WaitOk
    <3>2. "recv" \in XfSteps /\ xf.size \in Nat
      BY <1>1 DEF XfType, XfSteps
    <3> QED
      BY <1>23, <3>1, <3>2, ZenonT(60)
  <2> QED
    BY <1>1, <1>14, <2>1 DEF WaitOk, I2cTypes
<1>15. CASE WaitTimeout
  <2>1. i2c' \in I2cType
    BY <1>1, <1>5, <1>15 DEF WaitTimeout, I2cType
  <2> QED
    BY <1>1, <1>2, <1>4, <1>15, <2>1 DEF WaitTimeout, I2cTypes
<1>16. CASE Recv
  <2>1. CASE /\ bus.rx # <<>>
             /\ xf' = [xf EXCEPT !.todo = @ - 1, !.got = @ \cup {Head(bus.rx)}]
             /\ bus' = [bus EXCEPT !.rx = Tail(@)]
             /\ UNCHANGED faults
    <3>1. Head(bus.rx) \in Stamps /\ Tail(bus.rx) \in Seq(Stamps)
      BY <1>1, <2>1, HeadTailProperties DEF BusType
    <3>2. bus' \in BusType
      BY <1>1, <2>1, <3>1 DEF BusType
    <3> DEFINE todo == xf.todo - 1
               got == xf.got \cup {Head(bus.rx)}
    <3>6. xf.todo \in Nat /\ xf.todo > 0 /\ xf.got \in SUBSET Stamps
      BY <1>1, <1>16 DEF Recv, XfType
    <3>3. todo \in Nat /\ got \in SUBSET Stamps
      BY <3>1, <3>6
    <3>4. xf' = [xf EXCEPT !.todo = todo, !.got = got]
      BY <1>1, <2>1 DEF XfType
    <3> HIDE DEF todo, got
    <3>5. xf' \in XfType
      BY <1>1, <3>3, <3>4 DEF XfType
    <3> QED
      BY <1>1, <1>16, <2>1, <3>2, <3>5 DEF Recv, I2cTypes
  <2>2. CASE Failed /\ Fault /\ UNCHANGED bus
    BY <1>1, <1>2, <1>4, <1>16, <2>2 DEF Recv, I2cTypes
  <2> QED
    BY <1>16, <2>1, <2>2, Zenon DEF Recv
<1>17. CASE NextBlock
  <2> DEFINE left == xf.left - xf.size
             size == SmallerOf(BlockBytes, left)
             next == xf.msgs[xf.msg + 1].len
  <2>1. xf' = IF left > 0
              THEN [xf EXCEPT !.step = "start", !.left = left, !.size = size,
                              !.todo = size]
              ELSE [xf EXCEPT !.step = "start", !.msg = @ + 1, !.n = 0, !.size = 0,
                              !.todo = 0, !.left = next]
    BY <1>17 DEF NextBlock
  <2>2. left \in Nat /\ size \in Nat
    BY <1>1 DEF XfType, CountInv, BlockBytes, SmallerOf
  <2>3. left > 0 => xf' \in XfType
    <3>1. left > 0 => xf' = [xf EXCEPT !.step = "start", !.left = left, !.size = size,
                                       !.todo = size]
      BY <2>1
    <3>2. "start" \in XfSteps
      BY DEF XfSteps
    <3> HIDE DEF left, size
    <3>3. [xf EXCEPT !.step = "start", !.left = left, !.size = size, !.todo = size]
            \in XfType
      BY <1>23, <2>2, <3>2, Zenon
    <3> QED
      BY <3>1, <3>3, Zenon
  <2>4. ~(left > 0) => xf' \in XfType
    <3>1. xf.msg \in Nat \ {0} /\ xf.msg + 1 \in Nat \ {0}
      BY <1>1 DEF XfType
    <3>2. ~(left > 0) => next \in Nat
      <4>1. ~(left > 0) => ~(xf.left > xf.size)
        BY <1>1 DEF XfType
      <4>2. ~(left > 0) => xf.msg < Len(xf.msgs)
        BY <1>17, <4>1 DEF NextBlock
      <4>3. xf.msgs \in Seq(MsgType)
        BY <1>1 DEF XfType
      <4>4. ~(left > 0) => xf.msg + 1 \in 1 .. Len(xf.msgs)
        BY <3>1, <4>2, <4>3
      <4>5. ~(left > 0) => xf.msgs[xf.msg + 1] \in MsgType
        BY <4>3, <4>4, ElementOfSeq
      <4> QED
        BY <4>5 DEF MsgType
    <3> DEFINE m == xf.msg + 1
    <3>3. ~(left > 0) => xf' = [xf EXCEPT !.step = "start", !.msg = m, !.n = 0,
                                   !.size = 0, !.todo = 0, !.left = next]
      BY <1>1, <2>1 DEF XfType
    <3> HIDE DEF left, size, next, m
    <3>4. m \in Nat \ {0}
      BY <3>1 DEF m
    <3>5. "start" \in XfSteps /\ 0 \in Nat
      BY DEF XfSteps
    <3>6. ~(left > 0) => [xf EXCEPT !.step = "start", !.msg = m, !.n = 0, !.size = 0,
                                    !.todo = 0, !.left = next] \in XfType
      BY <1>24, <3>2, <3>4, <3>5, Zenon
    <3> QED
      BY <3>3, <3>6, Zenon
  <2>5. xf' \in XfType
    BY <2>3, <2>4
  <2> QED
    BY <1>1, <1>17, <2>5 DEF NextBlock, I2cTypes
<1>18. ASSUME NEW p \in Threads, XferBegin(p) PROVE I2cTypes'
  <2> DEFINE msgs == IF io[p].step = "page" THEN Messages(FALSE, 2)
                     ELSE Messages(io[p].rd, io[p].len)
             doubt == IF bus = [tx |-> <<>>, rx |-> <<>>] THEN {} ELSE {"left"}
             ser == last.ser + 1
             left == msgs[1].len
  <2>1. /\ xf' = [NoXfer EXCEPT !.who = p, !.step = "start", !.ser = ser,
                                !.msgs = msgs, !.left = left, !.doubt = doubt]
        /\ last' = [last EXCEPT !.ser = ser]
        /\ UNCHANGED <<i2c, bus, device, statePage, io, pageLock, pageLost, i2cCalls, faults>>
    BY <1>1, <1>18 DEF XferBegin, LastType
  <2>2. msgs \in Seq(MsgType) /\ left \in Nat
    <3>1. io[p].rd \in BOOLEAN /\ io[p].len \in Nat \ {0} /\ 2 \in Nat \ {0}
      BY <1>1 DEF IoType
    <3>2. PICK rd \in BOOLEAN, len \in Nat \ {0} : msgs = Messages(rd, len)
      BY <3>1, Zenon
    <3> HIDE DEF msgs
    <3>3. /\ Messages(rd, len) \in Seq(MsgType)
          /\ Messages(rd, len)[1].len = IF rd THEN 1 ELSE len
      BY MessagesFacts
    <3>4. (IF rd THEN 1 ELSE len) \in Nat
      OBVIOUS
    <3> QED
      BY <3>2, <3>3, <3>4
  <2>3. ser \in Nat /\ doubt \in SUBSET {"left", "woken", "cut"}
    BY <1>1 DEF LastType
  <2> HIDE DEF msgs, doubt, ser, left
  <2>4. xf' \in XfType
    BY <2>1, <2>2, <2>3, RestingXfer DEF NoXferType, XfType, XfSteps
  <2>5. last' \in LastType
    BY <1>1, <2>1, <2>3 DEF LastType
  <2> QED
    BY <1>1, <2>1, <2>4, <2>5 DEF I2cTypes
<1>19. ASSUME xf.who # Nobody, NEW ok \in BOOLEAN, Return(ok)
       PROVE  /\ xf' \in XfType /\ io' \in IoType /\ last' \in LastType
              /\ statePage' \in I2cPages \cup {Unset} /\ pageLost' \in BOOLEAN
              /\ pageLock' \in Threads \cup {Nobody}
  <2>1. xf' \in XfType /\ io' \in IoType
    BY <1>19, ReturnFacts, RestingXfer DEF NoXferType
  <2>2. /\ Call.step \in {"page", "access"} /\ Call.page \in I2cPages
        /\ Call.rd \in BOOLEAN
    BY <1>19, XferFacts
  <2>3. CASE Call.step = "page"
    <3>1. /\ statePage' = (IF ok THEN Call.page ELSE statePage) /\ last' = last
          /\ pageLock' = (IF ok THEN pageLock ELSE Nobody)
          /\ pageLost' = (IF ok THEN xf.doubt # {} ELSE pageLost \/ device.page = Call.page)
      BY <1>19, <2>3, ReturnFacts
    <3>2. pageLost' \in BOOLEAN
      BY <3>1
    <3> QED
      BY <1>1, <2>1, <2>2, <3>1, <3>2
  <2>4. CASE Call.step = "access"
    <3> DEFINE doubt == xf.doubt \cup (IF pageLost THEN {"page"} ELSE {})
               got == IF Call.rd THEN xf.got ELSE {device.done}
               rd == Call.rd
               asked == {<<xf.ser, Call.page>>}
    <3>1. /\ last' = [last EXCEPT !.ok = ok, !.rd = rd, !.doubt = doubt,
                                  !.asked = asked, !.got = got]
          /\ pageLock' = Nobody /\ UNCHANGED <<statePage, pageLost>>
      BY <1>19, <2>4, ReturnFacts
    <3>2. doubt \in SUBSET {"left", "woken", "cut", "page"}
      <4>1. xf.doubt \in SUBSET {"left", "woken", "cut"}
        BY <1>1 DEF XfType
      <4> QED
        BY <4>1
    <3>3. got \in SUBSET Stamps
      BY <1>1 DEF XfType, DevType
    <3>4. asked \in SUBSET Stamps /\ rd \in BOOLEAN
      BY <1>1, <2>2 DEF XfType, Stamps
    <3> HIDE DEF doubt, got, rd, asked
    <3>5. last' \in LastType
      BY <1>1, <3>1, <3>2, <3>3, <3>4 DEF LastType
    <3> QED
      BY <1>1, <2>1, <3>1, <3>5
  <2> QED
    BY <2>2, <2>3, <2>4
<1>20. CASE XferDone
  <2>1. xf.who # Nobody /\ Return(TRUE) /\ UNCHANGED <<i2c, bus, device, i2cCalls, faults>>
    BY <1>20 DEF XferDone, CallersInv
  <2> QED
    BY <1>1, <1>19, <2>1 DEF I2cTypes
<1>21. CASE XferRetry
  <2>1. xf.who # Nobody
    BY <1>21 DEF XferRetry, CallersInv
  <2>2. PICK result :
          /\ Hwinit(result)
          /\ IF result = "ok" /\ xf.try < 2
             THEN /\ xf' = [xf EXCEPT !.step = "start", !.try = @ + 1, !.ser = @ + 1,
                                      !.msg = 1, !.n = 0, !.size = 0, !.todo = 0,
                                      !.left = xf.msgs[1].len, !.got = {}, !.doubt = {}]
                  /\ last' = [last EXCEPT !.ser = @ + 1]
                  /\ UNCHANGED <<io, statePage, pageLock, pageLost, faults>>
             ELSE /\ IF result = "ok" THEN UNCHANGED faults ELSE Fault
                  /\ Return(FALSE)
    BY <1>21 DEF XferRetry
  <2>3. bus' \in BusType /\ device' \in DevType /\ UNCHANGED <<i2c, i2cCalls>>
    BY <1>21, <2>2, HwinitFacts DEF XferRetry
  <2>4. CASE result = "ok" /\ xf.try < 2
    <3> DEFINE try == xf.try + 1
               ser == xf.ser + 1
               left == xf.msgs[1].len
               lser == last.ser + 1
    <3>1. /\ xf' = [xf EXCEPT !.step = "start", !.try = try, !.ser = ser, !.msg = 1,
                              !.n = 0, !.size = 0, !.todo = 0, !.left = left,
                              !.got = {}, !.doubt = {}]
          /\ last' = [last EXCEPT !.ser = lser]
          /\ UNCHANGED <<io, statePage, pageLock, pageLost, faults>>
      BY <1>1, <2>2, <2>4 DEF XfType, LastType
    <3>2. try \in 0 .. 2 /\ ser \in Nat /\ left \in Nat /\ lser \in Nat
      <4>1. xf.msgs[1] \in MsgType
        BY <2>1, XferFacts
      <4> QED
        BY <1>1, <2>4, <4>1, SMTT(30) DEF XfType, LastType, MsgType
    <3> HIDE DEF try, ser, left, lser
    <3>3. xf' \in XfType
      <4>1. /\ xf.who \in Threads \cup {Nobody} /\ xf.msgs \in Seq(MsgType)
            /\ "start" \in XfSteps /\ {} \in SUBSET Stamps
            /\ {} \in SUBSET {"left", "woken", "cut"}
        BY <1>1 DEF XfType, XfSteps
      <4>2. xf' = [who |-> xf.who, step |-> "start", ser |-> ser, try |-> try,
                   msgs |-> xf.msgs, msg |-> 1, n |-> 0, left |-> left, size |-> 0,
                   todo |-> 0, got |-> {}, doubt |-> {}]
        BY <1>1, <3>1, ZenonT(60) DEF XfType
      <4> QED
        BY <3>2, <4>1, <4>2, SMTT(30) DEF XfType
    <3>4. last' \in LastType
      BY <1>1, <3>1, <3>2 DEF LastType
    <3> QED
      BY <1>1, <2>3, <3>1, <3>3, <3>4 DEF I2cTypes
  <2>5. CASE ~(result = "ok" /\ xf.try < 2)
    <3>1. Return(FALSE) /\ faults' \in 0 .. MaxFaults
      BY <1>1, <1>2, <2>2, <2>5
    <3> QED
      BY <1>1, <1>19, <2>1, <2>3, <3>1 DEF I2cTypes
  <2> QED
    BY <2>4, <2>5
<1>22. ASSUME NEW p \in Threads, IoBegin(p) PROVE I2cTypes'
  <2>1. PICK page \in IF Polling THEN I2cPages ELSE {statePage}, rd \in BOOLEAN :
          \E len \in IF Polling THEN {IF rd THEN 1 ELSE 2} ELSE 1 .. MaxLen :
            io' = [io EXCEPT ![p] =
                     [step |-> IF page = statePage THEN "access" ELSE "page",
                      page |-> page, rd |-> rd, len |-> len]]
    BY <1>22 DEF IoBegin
  <2>2. PICK len \in IF Polling THEN {IF rd THEN 1 ELSE 2} ELSE 1 .. MaxLen :
          io' = [io EXCEPT ![p] =
                   [step |-> IF page = statePage THEN "access" ELSE "page",
                    page |-> page, rd |-> rd, len |-> len]]
    BY <2>1
  <2>3. len \in Nat \ {0}
    BY <2>2
  <2>4. page \in I2cPages
    BY <1>1, <2>1 DEF ModeInv
  <2> DEFINE s == IF page = statePage THEN "access" ELSE "page"
  <2>5. s \in {"idle", "page", "access"}
    OBVIOUS
  <2> HIDE DEF s
  <2>6. [step |-> s, page |-> page, rd |-> rd, len |-> len]
          \in [step : {"idle", "page", "access"}, page : I2cPages, rd : BOOLEAN,
               len : Nat \ {0}]
    BY <2>3, <2>4, <2>5
  <2>7. io' \in IoType
    BY <1>1, <2>2, <2>6 DEF IoType, s
  <2> QED
    BY <1>1, <1>22, <2>7 DEF IoBegin, I2cTypes
<1> QED
  BY <1>6, <1>7, <1>8, <1>9, <1>10, <1>11, <1>12, <1>13, <1>14, <1>15, <1>16, <1>17, <1>18,
     <1>20, <1>21, <1>22 DEF I2cNext


\* An answer is added behind the answers there are.
LEMMA AnswerAdded ==
  ASSUME NEW ans \in Seq(Stamps), NEW w \in WordType, device \in DevType
  PROVE  \A i \in 1 .. Len(ans \o Answer(w)) :
           \/ i \in 1 .. Len(ans) /\ (ans \o Answer(w))[i] = ans[i]
           \/ w.does = "answer" /\ (ans \o Answer(w))[i] = <<w.at.ser, device.page>>
<1>1. <<w.at.ser, device.page>> \in Stamps
  BY DEF WordType, Stamp, DevType, Stamps
<1>2. CASE Answer(w) = <<>>
  BY <1>2, ConcatEmptySeq
<1>3. CASE Answer(w) = <<<<w.at.ser, device.page>>>> /\ w.does = "answer"
  <2> DEFINE a == <<w.at.ser, device.page>>
             s == <<a>>
  <2>1. s \in Seq(Stamps) /\ Len(s) = 1 /\ s[1] = a
    BY <1>1
  <2> HIDE DEF a, s
  <2>2. /\ Len(ans \o s) = Len(ans) + Len(s) /\ Len(ans) \in Nat
        /\ \A i \in 1 .. Len(ans) + Len(s) :
             (ans \o s)[i] = IF i <= Len(ans) THEN ans[i] ELSE s[i - Len(ans)]
    BY <2>1, ConcatProperties, LenProperties
  <2>3. ASSUME NEW i \in 1 .. Len(ans \o s)
        PROVE  (i \in 1 .. Len(ans) /\ (ans \o s)[i] = ans[i]) \/ (ans \o s)[i] = a
    <3>1. CASE i <= Len(ans)
      BY <2>1, <2>2, <3>1
    <3>2. CASE ~(i <= Len(ans))
      <4>1. i - Len(ans) = 1
        BY <2>1, <2>2, <3>2
      <4> QED
        BY <2>1, <2>2, <3>2, <4>1
    <3> QED
      BY <3>1, <3>2
  <2> QED
    BY <1>3, <2>3 DEF a, s
<1> QED
  BY <1>2, <1>3 DEF Answer

\* The steps inside a transfer leave the calls and the page as they are.
LEMMA InnerStep ==
  ASSUME CallersInv, AccessIsOwn, xf'.who = xf.who, xf'.msgs = xf.msgs,
         xf'.step = "idle" <=> xf.step = "idle", i2c'.mode = i2c.mode,
         UNCHANGED <<io, pageLock, statePage, pageLost>>,
         last'.ok = last.ok, last'.rd = last.rd, last'.doubt = last.doubt,
         last'.got = last.got, last'.asked = last.asked
  PROVE  /\ CallersInv' /\ AccessIsOwn' /\ Call' = Call /\ BlockBytes' = BlockBytes
         /\ Paging' <=> Paging
         /\ Polling' <=> Polling
         /\ xf'.msg = xf.msg => Msg' = Msg
<1>1. Call' = Call /\ (Polling' <=> Polling) /\ BlockBytes' = BlockBytes
      /\ (xf'.msg = xf.msg => Msg' = Msg)
  BY DEF Call, Polling, BlockBytes, Msg
<1>2. CallersInv'
  BY <1>1 DEF CallersInv
<1>3. AccessIsOwn'
  BY DEF AccessIsOwn
<1> QED
  BY <1>1, <1>2, <1>3 DEF Paging

\* The device takes the words in the order they were put in the FIFO.
LEMMA BusSendsStep ==
  ASSUME I2cInv, I2cTypes', BusSends
  PROVE  I2cInv'
<1> DEFINE w == Head(bus.tx)
           n == Len(bus.tx)
<1>1. I2cTypes /\ CallersInv /\ ModeInv /\ CountInv /\ WaitInv /\ WriteInv /\ ReadInv
      /\ PageInv /\ AccessIsOwn
  BY DEF I2cInv
<1>2. /\ bus.tx # <<>> /\ Take(w) /\ bus'.tx = Tail(bus.tx) /\ bus'.rx = bus.rx \o Answer(w)
      /\ i2c' = IF n > 1 \/ i2c.irq # "none" THEN i2c
                ELSE [i2c EXCEPT !.irq = IF xf.step = "wait" THEN "own" ELSE "stale"]
      /\ xf' = xf /\ UNCHANGED <<statePage, io, pageLock, pageLost, last>>
  BY DEF BusSends
<1>3. ~Polling
  BY <1>1, <1>2 DEF ModeInv
<1>4. /\ bus.tx \in Seq(WordType) /\ bus.rx \in Seq(Stamps) /\ device \in DevType
      /\ i2c \in I2cType /\ xf \in XfType
  BY <1>1 DEF I2cTypes, BusType
<1>5. /\ n \in Nat \ {0} /\ Len(bus'.tx) = n - 1 /\ w = bus.tx[1] /\ w \in WordType
      /\ \A i \in 1 .. n - 1 : bus'.tx[i] = bus.tx[i + 1]
      /\ n = 1 => bus'.tx = <<>>
  <2>1. w = bus.tx[1] /\ w \in WordType
    BY <1>2, <1>4, HeadTailProperties
  <2>2. /\ n \in Nat \ {0} /\ Len(bus'.tx) = n - 1
        /\ \A i \in 1 .. n - 1 : bus'.tx[i] = bus.tx[i + 1]
        /\ bus'.tx # <<>> => n > 1
    BY <1>2, <1>4, FifoTail
  <2> HIDE DEF n
  <2> QED
    BY <2>1, <2>2
<1>6. /\ i2c'.mode = i2c.mode /\ i2c'.op = i2c.op
      /\ i2c'.irq = i2c.irq \/ (n = 1 /\ i2c'.irq = IF xf.step = "wait" THEN "own" ELSE "stale")
  <2> DEFINE irq == IF xf.step = "wait" THEN "own" ELSE "stale"
  <2>1. CASE n > 1 \/ i2c.irq # "none"
    BY <1>2, <2>1
  <2>2. CASE ~(n > 1 \/ i2c.irq # "none")
    <3>1. n = 1
      <4> HIDE DEF n
      <4> QED
        BY <1>5, <2>2
    <3>2. i2c' = [i2c EXCEPT !.irq = irq]
      BY <1>2, <2>2
    <3> HIDE DEF irq
    <3>3. i2c'.mode = i2c.mode /\ i2c'.op = i2c.op /\ i2c'.irq = irq
      BY <1>4, <3>2 DEF I2cType
    <3> QED
      BY <3>1, <3>3 DEF irq
  <2> QED
    BY <2>1, <2>2
<1>7. /\ CallersInv' /\ AccessIsOwn' /\ Call' = Call /\ BlockBytes' = BlockBytes
      /\ Paging' <=> Paging
      /\ Polling' <=> Polling
      /\ Msg' = Msg
  BY <1>1, <1>2, <1>6, InnerStep
<1> HIDE DEF n
<1>8. w.does # "page" /\ device'.page = device.page
  <2>1. 1 \in 1 .. n
    BY <1>5
  <2>2. w.does # "page"
    BY <1>1, <1>3, <1>5, <2>1 DEF ModeInv, n
  <2> QED
    BY <1>2, <1>4, <1>5, <2>2, TakeFacts
<1>9. ModeInv'
  <2>1. \A i \in 1 .. n - 1 : bus'.tx[i].does # "page"
    <3>1. SUFFICES ASSUME NEW i \in 1 .. n - 1 PROVE bus'.tx[i].does # "page"
      OBVIOUS
    <3>2. i + 1 \in 1 .. n
      BY <1>5
    <3> QED
      BY <1>1, <1>3, <1>5, <3>2 DEF ModeInv, n
  <2> QED
    BY <1>1, <1>2, <1>3, <1>5, <1>7, <1>8, <2>1 DEF ModeInv
<1>10. CountInv'
  BY <1>1, <1>2, <1>7 DEF CountInv, Active
<1>11. WaitInv'
  BY <1>1, <1>2, <1>3, <1>5, <1>6, <1>7 DEF WaitInv
<1>12. WriteInv'
  <2> DEFINE k == SentWords
  <2>1. SUFFICES ASSUME Active, xf.doubt = {}, Len(xf.msgs) = 1 PROVE WriteInv'
    BY <1>2 DEF WriteInv, Active
  <2>2. /\ k >= 0
        /\ \A i \in 1 .. n :
             /\ bus.tx[i].at = [ser |-> xf.ser, msg |-> 1, n |-> k + i - 1]
             /\ k + i - 1 = xf.msgs[1].len /\ Call.step = "access"
                  => bus.tx[i].does = "write"
        /\ k > 0 => device.seen = [ser |-> xf.ser, msg |-> 1, n |-> k - 1]
    BY <1>1, <2>1 DEF WriteInv, n
  <2>3. k = xf.n - n /\ xf.n \in Nat /\ SentWords' = xf.n - (n - 1)
    BY <1>2, <1>4, <1>5 DEF SentWords, n, XfType
  <2> HIDE DEF k
  <2>4. k \in Nat /\ SentWords' = k + 1
    BY <1>5, <2>2, <2>3
  <2>5. w.at = [ser |-> xf.ser, msg |-> 1, n |-> k]
    <3>1. 1 \in 1 .. n /\ k + 1 - 1 = k
      BY <1>5, <2>4
    <3> QED
      BY <1>5, <2>2, <3>1
  <2>6. Follows(w)
    <3>1. CASE k = 0
      BY <2>5, <3>1 DEF Follows
    <3>2. CASE k > 0
      <4>1. device.seen = [ser |-> xf.ser, msg |-> 1, n |-> k - 1]
        BY <2>2, <3>2
      <4>2. (k - 1) + 1 = k
        BY <2>4
      <4>3. [device.seen EXCEPT !.n = @ + 1] = [ser |-> xf.ser, msg |-> 1, n |-> k]
        BY <4>1, <4>2
      <4> QED
        BY <2>5, <4>3 DEF Follows
    <3> QED
      BY <2>4, <3>1, <3>2
  <2>7. device'.seen = w.at
        /\ (w.does = "write" => device'.done = <<w.at.ser, device.page>>)
    BY <1>2, <1>4, <1>5, <2>6, TakeFacts
  <2>8. ASSUME NEW i \in 1 .. n - 1
        PROVE  /\ bus'.tx[i].at = [ser |-> xf.ser, msg |-> 1, n |-> (k + 1) + i - 1]
               /\ (k + 1) + i - 1 = xf.msgs[1].len /\ Call.step = "access"
                    => bus'.tx[i].does = "write"
    <3>1. i + 1 \in 1 .. n /\ k + (i + 1) - 1 = (k + 1) + i - 1
      BY <1>5, <2>4
    <3> QED
      BY <1>5, <2>2, <3>1
  <2>9. k + 1 > xf.msgs[1].len => Call.step = "access"
                                  /\ device'.done = <<xf.ser, device'.page>>
    <3>1. /\ xf.who \in Threads /\ Call.step \in {"page", "access"}
          /\ xf.msgs[1].len \in Nat
      BY <1>1, <2>1, XferFacts DEF Active, CallersInv, MsgType
    <3>2. Call.step = "access"
      BY <1>1, <1>3, <3>1 DEF ModeInv, Call
    <3>3. Msg = xf.msgs[1]
      BY <1>1, <2>1, MsgFacts DEF Msg
    <3>4. xf.n <= 1 + Msg.len
      <4>1. /\ Msg.len \in Nat /\ xf.left \in Nat /\ xf.size \in Nat /\ xf.todo \in Nat
            /\ xf.size <= xf.left
            /\ xf.n > 0 => xf.n = 1 + Msg.len - xf.left + xf.size
                                   - (IF xf.step = "recv" THEN 0 ELSE xf.todo)
        BY <1>1, <1>4, <2>1, <3>1, <3>3 DEF CountInv, XfType
      <4> QED
        BY <2>3, <4>1
    <3>5. k <= xf.msgs[1].len
      BY <1>5, <2>3, <3>1, <3>3, <3>4
    <3>6. k + 1 > xf.msgs[1].len => k = xf.msgs[1].len
      BY <2>4, <3>1, <3>5
    <3>7. k = xf.msgs[1].len => w.does = "write"
      <4>1. 1 \in 1 .. n /\ k + 1 - 1 = k
        BY <1>5, <2>4
      <4> QED
        BY <1>5, <2>2, <3>2, <4>1
    <3>8. w.at.ser = xf.ser
      BY <2>5
    <3> QED
      BY <1>8, <2>7, <3>2, <3>6, <3>7, <3>8
  <2>10. (k + 1) - 1 = k /\ k + 1 >= 0
    BY <2>4
  <2> QED
    BY <1>2, <1>5, <1>7, <2>4, <2>5, <2>7, <2>8, <2>9, <2>10 DEF WriteInv
<1>13. ReadInv'
  <2>1. SUFFICES ASSUME Active, xf.doubt \subseteq {"woken"}, Call.step = "access"
                 PROVE ReadInv'
    BY <1>2, <1>7 DEF ReadInv, Active
  <2>2. /\ \A i \in 1 .. n : bus.tx[i].at.ser = xf.ser
        /\ \A i \in 1 .. Len(bus.rx) : bus.rx[i] = <<xf.ser, device.page>>
    BY <1>1, <2>1 DEF ReadInv, n
  <2>3. w.at.ser = xf.ser
    <3>1. 1 \in 1 .. n
      BY <1>5
    <3> QED
      BY <1>5, <2>2, <3>1
  <2>4. \A i \in 1 .. n - 1 : bus'.tx[i].at.ser = xf.ser
    <3>1. \A i \in 1 .. n - 1 : i + 1 \in 1 .. n
      BY <1>5
    <3> QED
      BY <1>5, <2>2, <3>1
  <2>5. ASSUME NEW i \in 1 .. Len(bus'.rx)
        PROVE  bus'.rx[i] = <<xf.ser, device.page>>
    <3>1. \/ i \in 1 .. Len(bus.rx) /\ bus'.rx[i] = bus.rx[i]
          \/ bus'.rx[i] = <<w.at.ser, device.page>>
      <4> DEFINE ans == bus.rx
      <4>1. ans \in Seq(Stamps) /\ bus'.rx = ans \o Answer(w) /\ w \in WordType
        BY <1>2, <1>4, <1>5
      <4> HIDE DEF w, ans
      <4>2. \A j \in 1 .. Len(ans \o Answer(w)) :
              \/ j \in 1 .. Len(ans) /\ (ans \o Answer(w))[j] = ans[j]
              \/ w.does = "answer" /\ (ans \o Answer(w))[j] = <<w.at.ser, device.page>>
        BY <1>4, <4>1, AnswerAdded
      <4>3. \/ i \in 1 .. Len(ans) /\ bus'.rx[i] = ans[i]
            \/ bus'.rx[i] = <<w.at.ser, device.page>>
        BY <4>1, <4>2
      <4> QED
        BY <4>3 DEF ans
    <3> QED
      BY <2>2, <2>3, <3>1
  <2>6. /\ xf.got \subseteq {<<xf.ser, device.page>>}
        /\ xf.step = "recv" /\ Msg.rd /\ xf.todo < xf.size => xf.got # {}
    BY <1>1, <2>1 DEF ReadInv
  <2> QED
    BY <1>2, <1>5, <1>7, <1>8, <2>4, <2>5, <2>6 DEF ReadInv
<1>14. PageInv'
  BY <1>1, <1>2, <1>7, <1>8 DEF PageInv
<1> QED
  BY <1>7, <1>9, <1>10, <1>11, <1>12, <1>13, <1>14, I2cTypes' DEF I2cInv


\* The steps that send and receive nothing leave the wire and the page alone.
LEMMA StillWire ==
  ASSUME I2cInv, I2cTypes', UNCHANGED <<bus, device, io, pageLock, statePage, pageLost, last>>,
         i2c'.mode = i2c.mode, xf'.who = xf.who, xf'.msgs = xf.msgs, xf'.ser = xf.ser,
         xf'.msg = xf.msg, xf'.n = xf.n, xf'.got = xf.got, xf.doubt \subseteq xf'.doubt,
         xf'.step = "idle" <=> xf.step = "idle", Active' => Active,
         xf'.step = "recv" /\ Msg.rd /\ xf'.todo < xf'.size
           => xf.step = "recv" /\ xf.todo < xf.size,
         Polling => i2c'.irq = "none"
  PROVE  /\ CallersInv' /\ ModeInv' /\ WriteInv' /\ ReadInv' /\ PageInv' /\ AccessIsOwn'
         /\ Msg' = Msg /\ Call' = Call /\ BlockBytes' = BlockBytes
         /\ Polling' <=> Polling
<1>1. /\ CallersInv /\ ModeInv /\ WriteInv /\ ReadInv /\ PageInv /\ AccessIsOwn
  BY DEF I2cInv
<1>2. /\ CallersInv' /\ AccessIsOwn' /\ Call' = Call /\ BlockBytes' = BlockBytes
      /\ Paging' <=> Paging
      /\ Polling' <=> Polling
      /\ Msg' = Msg
  BY <1>1, InnerStep
<1>3. ModeInv'
  BY <1>1, <1>2 DEF ModeInv
<1>4. WriteInv'
  <2>1. SentWords' = SentWords
    BY DEF SentWords
  <2>2. xf'.doubt = {} => xf.doubt = {}
    OBVIOUS
  <2> QED
    BY <1>1, <1>2, <2>1, <2>2 DEF WriteInv
<1>5. ReadInv'
  BY <1>1, <1>2 DEF ReadInv
<1>6. PageInv'
  BY <1>1, <1>2 DEF PageInv
<1> QED
  BY <1>2, <1>3, <1>4, <1>5, <1>6

\* An interrupt that is the wait's own says that the FIFO is empty; another one leaves
\* the transfer in doubt.
LEMMA HandleI2cIrqStep ==
  ASSUME I2cInv, I2cTypes', HandleI2cIrq
  PROVE  I2cInv'
<1>1. I2cTypes /\ ModeInv /\ CountInv /\ WaitInv
  BY DEF I2cInv
<1>2. /\ i2c.irq # "none" /\ i2c' = [i2c EXCEPT !.op = 0, !.irq = "none"]
      /\ xf' = IF i2c.irq = "stale" /\ i2c.op = 1
               THEN [xf EXCEPT !.doubt = @ \cup {"woken"}] ELSE xf
      /\ UNCHANGED <<bus, device, io, pageLock, statePage, pageLost, last>>
  BY DEF HandleI2cIrq
<1>3. i2c \in I2cType /\ xf \in XfType
  BY <1>1 DEF I2cTypes
<1>4. i2c'.mode = i2c.mode /\ i2c'.op = 0 /\ i2c'.irq = "none"
  BY <1>2, <1>3 DEF I2cType
<1>5. /\ xf'.who = xf.who /\ xf'.msgs = xf.msgs /\ xf'.ser = xf.ser /\ xf'.msg = xf.msg
      /\ xf'.n = xf.n /\ xf'.got = xf.got /\ xf'.step = xf.step /\ xf'.left = xf.left
      /\ xf'.size = xf.size /\ xf'.todo = xf.todo
      /\ xf.doubt \subseteq xf'.doubt
      /\ "woken" \notin xf'.doubt => ~(i2c.irq = "stale" /\ i2c.op = 1)
  <2>1. CASE i2c.irq = "stale" /\ i2c.op = 1
    <3> DEFINE d == xf.doubt \cup {"woken"}
    <3>1. xf' = [xf EXCEPT !.doubt = d]
      BY <1>2, <2>1
    <3>2. xf.doubt \subseteq d /\ "woken" \in d
      OBVIOUS
    <3> HIDE DEF d
    <3> QED
      BY <1>3, <3>1, <3>2 DEF XfType
  <2>2. CASE ~(i2c.irq = "stale" /\ i2c.op = 1)
    BY <1>2, <2>2
  <2> QED
    BY <2>1, <2>2
<1>6. /\ CallersInv' /\ ModeInv' /\ WriteInv' /\ ReadInv' /\ PageInv' /\ AccessIsOwn'
      /\ Msg' = Msg /\ Call' = Call /\ BlockBytes' = BlockBytes
      /\ Polling' <=> Polling
  BY <1>2, <1>4, <1>5, StillWire DEF Active
<1>7. CountInv'
  BY <1>1, <1>2, <1>5, <1>6 DEF CountInv, Active
<1>8. WaitInv'
  BY <1>1, <1>2, <1>3, <1>4, <1>5, <1>6 DEF WaitInv, I2cType
<1> QED
  BY <1>6, <1>7, <1>8 DEF I2cInv

\* From here an interrupt of an earlier transfer is a stale one.
LEMMA I2cIrqStartStep ==
  ASSUME I2cInv, I2cTypes', I2cIrqStart
  PROVE  I2cInv'
<1>1. I2cTypes /\ ModeInv /\ CountInv /\ WaitInv
  BY DEF I2cInv
<1>2. /\ xf.step = "start"
      /\ xf' = [xf EXCEPT !.step = IF Polling THEN "send" ELSE "clear"]
      /\ i2c' = IF Polling THEN i2c
                ELSE [i2c EXCEPT !.op = 1, !.irq = IF @ = "none" THEN @ ELSE "stale"]
      /\ UNCHANGED <<bus, device, io, pageLock, statePage, pageLost, last>>
  BY DEF I2cIrqStart
<1>3. i2c \in I2cType /\ xf \in XfType
  BY <1>1 DEF I2cTypes
<1>4. /\ i2c'.mode = i2c.mode
      /\ Polling => i2c' = i2c
      /\ ~Polling => i2c'.op = 1 /\ i2c'.irq # "own"
  <2>1. CASE Polling
    BY <1>2, <2>1
  <2>2. CASE ~Polling
    <3> DEFINE q == IF i2c.irq = "none" THEN "none" ELSE "stale"
    <3>1. i2c' = [i2c EXCEPT !.op = 1, !.irq = q] /\ q # "own"
      BY <1>2, <2>2
    <3> HIDE DEF q
    <3> QED
      BY <1>3, <2>2, <3>1 DEF I2cType
  <2> QED
    BY <2>1, <2>2
<1>5. /\ xf'.who = xf.who /\ xf'.msgs = xf.msgs /\ xf'.ser = xf.ser /\ xf'.msg = xf.msg
      /\ xf'.n = xf.n /\ xf'.got = xf.got /\ xf'.left = xf.left /\ xf'.doubt = xf.doubt
      /\ xf'.size = xf.size /\ xf'.todo = xf.todo
      /\ xf'.step = IF Polling THEN "send" ELSE "clear"
  <2> DEFINE s == IF Polling THEN "send" ELSE "clear"
  <2>1. xf' = [xf EXCEPT !.step = s]
    BY <1>2
  <2> HIDE DEF s
  <2>2. /\ xf'.who = xf.who /\ xf'.msgs = xf.msgs /\ xf'.ser = xf.ser /\ xf'.msg = xf.msg
        /\ xf'.n = xf.n /\ xf'.got = xf.got /\ xf'.left = xf.left /\ xf'.doubt = xf.doubt
        /\ xf'.size = xf.size /\ xf'.todo = xf.todo /\ xf'.step = s
    BY <1>3, <2>1 DEF XfType
  <2> QED
    BY <2>2 DEF s
<1>6. /\ CallersInv' /\ ModeInv' /\ WriteInv' /\ ReadInv' /\ PageInv' /\ AccessIsOwn'
      /\ Msg' = Msg /\ Call' = Call /\ BlockBytes' = BlockBytes
      /\ Polling' <=> Polling
  BY <1>1, <1>2, <1>4, <1>5, StillWire DEF Active, ModeInv
<1>7. CountInv'
  BY <1>1, <1>2, <1>5, <1>6 DEF CountInv, Active
<1>8. WaitInv'
  BY <1>2, <1>4, <1>5, <1>6 DEF WaitInv
<1> QED
  BY <1>6, <1>7, <1>8 DEF I2cInv

\* The status is cleared, or the interrupt comes all the same.
LEMMA I2cIrqClearStep ==
  ASSUME I2cInv, I2cTypes', I2cIrqClear
  PROVE  I2cInv'
<1>1. I2cTypes /\ ModeInv /\ CountInv /\ WaitInv
  BY DEF I2cInv
<1>2. /\ xf.step = "clear" /\ xf' = [xf EXCEPT !.step = "send"]
      /\ UNCHANGED <<bus, device, io, pageLock, statePage, pageLost, last>>
  BY DEF I2cIrqClear
<1>3. i2c \in I2cType /\ xf \in XfType
  BY <1>1 DEF I2cTypes
<1>4. i2c'.mode = i2c.mode /\ i2c'.op = i2c.op /\ i2c'.irq \in {i2c.irq, "none"}
  <2>1. PICK irq \in {i2c.irq, "none"} : i2c' = [i2c EXCEPT !.irq = irq]
    BY DEF I2cIrqClear
  <2> QED
    BY <1>3, <2>1 DEF I2cType
<1>5. /\ xf'.who = xf.who /\ xf'.msgs = xf.msgs /\ xf'.ser = xf.ser /\ xf'.msg = xf.msg
      /\ xf'.n = xf.n /\ xf'.got = xf.got /\ xf'.left = xf.left /\ xf'.doubt = xf.doubt
      /\ xf'.size = xf.size /\ xf'.todo = xf.todo /\ xf'.step = "send"
  BY <1>2, <1>3 DEF XfType
<1>6. /\ CallersInv' /\ ModeInv' /\ WriteInv' /\ ReadInv' /\ PageInv' /\ AccessIsOwn'
      /\ Msg' = Msg /\ Call' = Call /\ BlockBytes' = BlockBytes
      /\ Polling' <=> Polling
  BY <1>1, <1>2, <1>4, <1>5, StillWire DEF Active, ModeInv
<1>7. CountInv'
  BY <1>1, <1>2, <1>5, <1>6 DEF CountInv, Active
<1>8. WaitInv'
  BY <1>1, <1>2, <1>4, <1>5, <1>6 DEF WaitInv
<1> QED
  BY <1>6, <1>7, <1>8 DEF I2cInv

\* The block is in the FIFO.
LEMMA SendDoneStep ==
  ASSUME I2cInv, I2cTypes', SendDone
  PROVE  I2cInv'
<1>1. I2cTypes /\ ModeInv /\ CountInv /\ WaitInv
  BY DEF I2cInv
<1>2. /\ xf.step = "send" /\ xf.n > 0 /\ xf.todo = 0 /\ xf' = [xf EXCEPT !.step = "wait"]
      /\ UNCHANGED <<i2c, bus, device, io, pageLock, statePage, pageLost, last>>
  BY DEF SendDone
<1>3. i2c \in I2cType /\ xf \in XfType
  BY <1>1 DEF I2cTypes
<1>4. /\ xf'.who = xf.who /\ xf'.msgs = xf.msgs /\ xf'.ser = xf.ser /\ xf'.msg = xf.msg
      /\ xf'.n = xf.n /\ xf'.got = xf.got /\ xf'.left = xf.left /\ xf'.doubt = xf.doubt
      /\ xf'.size = xf.size /\ xf'.todo = xf.todo /\ xf'.step = "wait"
  BY <1>2, <1>3 DEF XfType
<1>5. /\ CallersInv' /\ ModeInv' /\ WriteInv' /\ ReadInv' /\ PageInv' /\ AccessIsOwn'
      /\ Msg' = Msg /\ Call' = Call /\ BlockBytes' = BlockBytes
      /\ Polling' <=> Polling
  BY <1>1, <1>2, <1>4, StillWire DEF Active, ModeInv
<1>6. CountInv'
  BY <1>1, <1>2, <1>4, <1>5 DEF CountInv, Active
<1>7. WaitInv'
  BY <1>1, <1>2, <1>4, <1>5 DEF WaitInv
<1> QED
  BY <1>5, <1>6, <1>7 DEF I2cInv

\* The wait ends when the words are sent, and a read then has its block to receive.
LEMMA WaitOkStep ==
  ASSUME I2cInv, I2cTypes', WaitOk
  PROVE  I2cInv'
<1>1. I2cTypes /\ CallersInv /\ ModeInv /\ CountInv /\ WaitInv
  BY DEF I2cInv
<1>2. /\ xf.step = "wait" /\ (Polling \/ i2c.op = 0)
      /\ xf' = [xf EXCEPT !.step = "recv", !.todo = IF Msg.rd THEN xf.size ELSE 0]
      /\ UNCHANGED <<i2c, bus, device, io, pageLock, statePage, pageLost, last>>
  BY DEF WaitOk
<1>3. i2c \in I2cType /\ xf \in XfType /\ Active
  BY <1>1, <1>2 DEF I2cTypes, Active
<1>4. /\ xf'.who = xf.who /\ xf'.msgs = xf.msgs /\ xf'.ser = xf.ser /\ xf'.msg = xf.msg
      /\ xf'.n = xf.n /\ xf'.got = xf.got /\ xf'.left = xf.left /\ xf'.doubt = xf.doubt
      /\ xf'.size = xf.size /\ xf'.todo = (IF Msg.rd THEN xf.size ELSE 0)
      /\ xf'.step = "recv"
  <2> DEFINE t == IF Msg.rd THEN xf.size ELSE 0
  <2>1. xf' = [xf EXCEPT !.step = "recv", !.todo = t]
    BY <1>2
  <2> HIDE DEF t
  <2>2. /\ xf'.who = xf.who /\ xf'.msgs = xf.msgs /\ xf'.ser = xf.ser /\ xf'.msg = xf.msg
        /\ xf'.n = xf.n /\ xf'.got = xf.got /\ xf'.left = xf.left /\ xf'.doubt = xf.doubt
        /\ xf'.size = xf.size /\ xf'.todo = t /\ xf'.step = "recv"
    BY <1>3, <2>1 DEF XfType
  <2> QED
    BY <2>2 DEF t
<1>5. ~(Msg.rd /\ xf'.todo < xf'.size)
  BY <1>3, <1>4 DEF XfType
<1>6. /\ CallersInv' /\ ModeInv' /\ WriteInv' /\ ReadInv' /\ PageInv' /\ AccessIsOwn'
      /\ Msg' = Msg /\ Call' = Call /\ BlockBytes' = BlockBytes
      /\ Polling' <=> Polling
  BY <1>1, <1>2, <1>4, <1>5, StillWire DEF Active, ModeInv
<1>7. CountInv'
  <2>1. xf.size \in Nat /\ xf'.todo \in Nat /\ xf'.todo <= xf.size
    BY <1>3, <1>4 DEF XfType
  <2>2. xf.n # 0 /\ xf.todo = 0
    BY <1>1, <1>2, <1>3 DEF CountInv
  <2> QED
    BY <1>1, <1>2, <1>3, <1>4, <1>6, <2>1, <2>2 DEF CountInv, Active
<1>8. WaitInv'
  BY <1>1, <1>2, <1>4, <1>6 DEF WaitInv
<1> QED
  BY <1>6, <1>7, <1>8 DEF I2cInv

\* A wait that ends without the interrupt fails the try.
LEMMA WaitTimeoutStep ==
  ASSUME I2cInv, I2cTypes', WaitTimeout
  PROVE  I2cInv'
<1>1. I2cTypes /\ ModeInv /\ CountInv
  BY DEF I2cInv
<1>2. /\ xf.step = "wait" /\ ~Polling /\ xf' = [xf EXCEPT !.step = "retry"]
      /\ UNCHANGED <<bus, device, io, pageLock, statePage, pageLost, last>>
  BY DEF WaitTimeout, Failed
<1>3. i2c \in I2cType /\ xf \in XfType
  BY <1>1 DEF I2cTypes
<1>4. i2c'.mode = i2c.mode
  <2>1. PICK irq \in {i2c.irq, "none"} : i2c' = [i2c EXCEPT !.irq = irq]
    BY DEF WaitTimeout
  <2> QED
    BY <1>3, <2>1 DEF I2cType
<1>5. /\ xf'.who = xf.who /\ xf'.msgs = xf.msgs /\ xf'.ser = xf.ser /\ xf'.msg = xf.msg
      /\ xf'.n = xf.n /\ xf'.got = xf.got /\ xf'.left = xf.left /\ xf'.doubt = xf.doubt
      /\ xf'.size = xf.size /\ xf'.todo = xf.todo /\ xf'.step = "retry"
  BY <1>2, <1>3 DEF XfType
<1>6. /\ CallersInv' /\ ModeInv' /\ WriteInv' /\ ReadInv' /\ PageInv' /\ AccessIsOwn'
      /\ Msg' = Msg /\ Call' = Call /\ BlockBytes' = BlockBytes
      /\ Polling' <=> Polling
  BY <1>1, <1>2, <1>4, <1>5, StillWire DEF Active
<1>7. CountInv'
  BY <1>1, <1>5, <1>6 DEF CountInv, Active
<1>8. WaitInv'
  BY <1>5 DEF WaitInv
<1> QED
  BY <1>6, <1>7, <1>8 DEF I2cInv


\* A word sent counts; there are no more words than the message has.
LEMMA SentCount ==
  ASSUME I2cTypes, CallersInv, CountInv, MoreToSend, Msg' = Msg, BlockBytes' = BlockBytes,
         xf'.step = "send", xf'.msgs = xf.msgs, xf'.msg = xf.msg, xf'.left = xf.left,
         xf'.n = Sent.n, xf'.todo = Sent.todo, xf'.size = Sent.size
  PROVE  CountInv' /\ xf.n <= Msg.len
<1>1. Active /\ xf.step = "send" /\ (xf.n = 0 \/ xf.todo > 0)
  BY DEF MoreToSend, Active
<1>2. xf \in XfType /\ BlockBytes \in Nat \ {0}
  BY BlockSizeAssumption DEF I2cTypes, BlockBytes
<1>3. Msg.len \in Nat \ {0}
  BY <1>1, MsgFacts DEF MsgType
<1>4. /\ xf.n \in Nat /\ xf.left \in 1 .. Msg.len /\ xf.size \in Nat /\ xf.todo \in Nat
      /\ xf.msg <= Len(xf.msgs) /\ xf.size <= BlockBytes /\ xf.size <= xf.left
      /\ xf.todo <= xf.size
      /\ xf.n = 0 => xf.left = Msg.len
      /\ xf.n > 0 => xf.n = 1 + Msg.len - xf.left + xf.size - xf.todo
  BY <1>1, <1>2 DEF CountInv, XfType
<1>5. /\ xf'.n = xf.n + 1
      /\ xf.n = 0 => xf'.todo = SmallerOf(BlockBytes - 1, xf.left) /\ xf'.size = xf'.todo
      /\ xf.n # 0 => xf'.todo = xf.todo - 1 /\ xf'.size = xf.size
  BY <1>1, SentFacts
<1>6. CASE xf.n = 0
  <2>1. /\ xf'.todo \in Nat /\ xf'.todo <= xf.left /\ xf'.todo <= BlockBytes
        /\ xf'.size = xf'.todo
    BY <1>2, <1>3, <1>4, <1>5, <1>6 DEF SmallerOf
  <2> QED
    BY <1>3, <1>4, <1>5, <1>6, <2>1 DEF CountInv, Active
<1>7. CASE xf.n # 0
  <2>1. /\ xf'.n = 1 + Msg.len - xf.left + xf'.size - xf'.todo
        /\ xf'.todo <= xf'.size /\ xf'.todo \in Nat /\ xf.n <= Msg.len
    <3> DEFINE n == xf.n
               len == Msg.len
               left == xf.left
               size == xf.size
               todo == xf.todo
    <3>1. /\ n \in Nat /\ left \in 1 .. len /\ size \in Nat /\ todo \in Nat /\ len \in Nat
          /\ size <= left /\ todo <= size /\ todo > 0 /\ n = 1 + len - left + size - todo
          /\ xf'.todo = todo - 1 /\ xf'.size = size /\ xf'.n = n + 1
      BY <1>1, <1>3, <1>4, <1>5, <1>7
    <3> HIDE DEF n, len, left, size, todo
    <3>2. /\ xf'.n = 1 + len - left + xf'.size - xf'.todo
          /\ xf'.todo <= xf'.size /\ xf'.todo \in Nat /\ n <= len
      BY <3>1
    <3> QED
      BY <3>2 DEF n, len, left, size, todo
  <2>2. /\ xf'.size = xf.size /\ xf'.left = xf.left /\ xf'.n # 0 /\ xf'.step = "send"
        /\ xf'.todo <= xf'.size /\ xf'.msg <= Len(xf'.msgs)
        /\ xf'.n = 1 + Msg'.len - xf'.left + xf'.size - xf'.todo
    BY <1>4, <1>5, <1>7, <2>1
  <2> QED
    BY <1>4, <2>1, <2>2 DEF CountInv, Active
<1> QED
  BY <1>6, <1>7

\* A word put in the FIFO is the next one of the message.
LEMMA SendBufferedStep ==
  ASSUME I2cInv, I2cTypes', SendBuffered
  PROVE  I2cInv'
<1> DEFINE n == Len(bus.tx)
<1>1. /\ I2cTypes /\ CallersInv /\ ModeInv /\ CountInv /\ WaitInv /\ WriteInv /\ ReadInv
      /\ PageInv /\ AccessIsOwn
  BY DEF I2cInv
<1>2. /\ MoreToSend /\ ~Polling /\ bus' = [bus EXCEPT !.tx = Append(@, Word)] /\ xf' = Sent
      /\ UNCHANGED <<i2c, device, io, pageLock, statePage, pageLost, last>>
  BY DEF SendBuffered
<1>3. Active /\ xf.step = "send" /\ (xf.n = 0 \/ xf.todo > 0)
  BY <1>2 DEF MoreToSend, Active
<1>4. /\ bus.tx \in Seq(WordType) /\ bus.rx \in Seq(Stamps) /\ xf \in XfType
  BY <1>1 DEF I2cTypes, BusType
<1>5. /\ Word \in WordType /\ Word.at = [ser |-> xf.ser, msg |-> xf.msg, n |-> xf.n]
      /\ Word.does = "page" => Call.step = "page"
      /\ Len(xf.msgs) = 1 /\ xf.n = Msg.len =>
           Word.does = IF Call.step = "page" THEN "page" ELSE "write"
  BY <1>1, <1>3, WordFacts
<1>6. bus'.tx = Append(bus.tx, Word) /\ bus'.rx = bus.rx
  BY <1>1, <1>2 DEF I2cTypes, BusType
<1>7. /\ n \in Nat /\ Len(bus'.tx) = n + 1 /\ bus'.tx[n + 1] = Word
      /\ \A i \in 1 .. n : bus'.tx[i] = bus.tx[i]
  <2> DEFINE tx == bus.tx
             w == Word
  <2>1. tx \in Seq(WordType) /\ w \in WordType /\ bus'.tx = Append(tx, w)
    BY <1>4, <1>5, <1>6
  <2> HIDE DEF tx, w
  <2>2. /\ Len(tx) \in Nat /\ Len(bus'.tx) = Len(tx) + 1 /\ bus'.tx[Len(tx) + 1] = w
        /\ \A i \in 1 .. Len(tx) : bus'.tx[i] = tx[i]
    BY <2>1, FifoAppend
  <2> QED
    BY <2>2 DEF tx, w
<1>8. /\ xf'.n = xf.n + 1 /\ xf'.who = xf.who /\ xf'.step = "send" /\ xf'.ser = xf.ser
      /\ xf'.msgs = xf.msgs /\ xf'.msg = xf.msg /\ xf'.left = xf.left
      /\ xf'.got = xf.got /\ xf'.doubt = xf.doubt
  BY <1>1, <1>2, <1>3, SentFacts
<1>9. /\ CallersInv' /\ AccessIsOwn' /\ Call' = Call /\ BlockBytes' = BlockBytes
      /\ Paging' <=> Paging
      /\ Polling' <=> Polling
      /\ Msg' = Msg
  BY <1>1, <1>2, <1>3, <1>8, InnerStep
<1>10. CountInv' /\ xf.n <= Msg.len
  BY <1>1, <1>2, <1>8, <1>9, SentCount
<1> HIDE DEF n
<1>11. Call.step = "access"
  <2>1. /\ xf.who \in Threads /\ Call.step \in {"page", "access"}
    BY <1>1, <1>3, XferFacts DEF Active, CallersInv
  <2> QED
    BY <1>1, <1>2, <2>1 DEF ModeInv, Call
<1>12. \A i \in 1 .. n + 1 : i \in 1 .. n \/ i = n + 1
  BY <1>7
<1>13. ModeInv'
  <2>1. \A i \in 1 .. n + 1 : bus'.tx[i].does # "page"
    BY <1>1, <1>2, <1>5, <1>7, <1>11, <1>12 DEF ModeInv, n
  <2> QED
    BY <1>1, <1>2, <1>7, <1>9, <2>1 DEF ModeInv
<1>14. WaitInv'
  BY <1>1, <1>2, <1>3, <1>8, <1>9 DEF WaitInv
<1>15. WriteInv'
  <2> DEFINE k == SentWords
  <2>1. SUFFICES ASSUME xf.doubt = {}, Len(xf.msgs) = 1 PROVE WriteInv'
    BY <1>8 DEF WriteInv
  <2>2. /\ k >= 0
        /\ \A i \in 1 .. n :
             /\ bus.tx[i].at = [ser |-> xf.ser, msg |-> 1, n |-> k + i - 1]
             /\ k + i - 1 = xf.msgs[1].len /\ Call.step = "access"
                  => bus.tx[i].does = "write"
        /\ k > 0 => device.seen = [ser |-> xf.ser, msg |-> 1, n |-> k - 1]
        /\ k > xf.msgs[1].len => device.done = <<xf.ser, device.page>>
    BY <1>1, <1>3, <1>11, <2>1 DEF WriteInv, n
  <2>3. SentWords' = k /\ k + (n + 1) - 1 = xf.n
    <3>1. k = xf.n - n /\ xf.n \in Nat /\ SentWords' = (xf.n + 1) - (n + 1)
      BY <1>4, <1>7, <1>8 DEF SentWords, n, XfType
    <3>2. n \in Nat
      BY <1>7
    <3>3. \A a \in Nat, b \in Nat : (a + 1) - (b + 1) = a - b /\ (a - b) + (b + 1) - 1 = a
      OBVIOUS
    <3>4. (xf.n + 1) - (n + 1) = xf.n - n /\ (xf.n - n) + (n + 1) - 1 = xf.n
      BY <3>1, <3>2, <3>3
    <3> HIDE DEF k
    <3> QED
      BY <3>1, <3>4, Zenon
  <2>4. xf.msg = 1 /\ Msg = xf.msgs[1]
    BY <1>1, <1>3, <2>1, MsgFacts DEF Msg
  <2> HIDE DEF k
  <2>5. /\ bus'.tx[n + 1].at = [ser |-> xf.ser, msg |-> 1, n |-> k + (n + 1) - 1]
        /\ k + (n + 1) - 1 = xf.msgs[1].len => bus'.tx[n + 1].does = "write"
    BY <1>5, <1>7, <1>11, <2>1, <2>3, <2>4
  <2>6. \A i \in 1 .. n + 1 :
             /\ bus'.tx[i].at = [ser |-> xf.ser, msg |-> 1, n |-> k + i - 1]
             /\ k + i - 1 = xf.msgs[1].len => bus'.tx[i].does = "write"
    BY <1>7, <1>11, <1>12, <2>2, <2>5
  <2> QED
    BY <1>2, <1>7, <1>8, <1>9, <1>11, <2>2, <2>3, <2>6 DEF WriteInv
<1>16. ReadInv'
  <2>1. SUFFICES ASSUME xf.doubt \subseteq {"woken"} PROVE ReadInv'
    BY <1>8 DEF ReadInv
  <2>2. \A i \in 1 .. n + 1 : bus'.tx[i].at.ser = xf.ser
    BY <1>1, <1>3, <1>5, <1>7, <1>11, <1>12, <2>1 DEF ReadInv, n
  <2> QED
    BY <1>1, <1>2, <1>3, <1>6, <1>7, <1>8, <1>9, <1>11, <2>1, <2>2 DEF ReadInv
<1>17. PageInv'
  BY <1>1, <1>2, <1>9 DEF PageInv
<1> QED
  BY <1>9, <1>10, <1>13, <1>14, <1>15, <1>16, <1>17, I2cTypes' DEF I2cInv


\* A try that fails leaves the calls as they are, and owes nothing to the wire.
LEMMA FailedStep ==
  ASSUME I2cInv, I2cTypes', Failed, xf.step # "idle", i2c'.mode = i2c.mode,
         i2c'.irq = i2c.irq, bus'.tx \in {bus.tx, <<>>},
         UNCHANGED <<io, pageLock, statePage, pageLost, last>>,
         PageInv', ~Polling => device'.page = device.page
  PROVE  I2cInv'
<1>1. /\ I2cTypes /\ CallersInv /\ ModeInv /\ CountInv /\ AccessIsOwn
  BY DEF I2cInv
<1>2. /\ xf'.who = xf.who /\ xf'.msgs = xf.msgs /\ xf'.step = "retry" /\ xf'.size = xf.size
      /\ xf'.left = xf.left /\ xf'.todo = xf.todo /\ xf'.msg = xf.msg
  BY <1>1 DEF I2cTypes, XfType, Failed
<1>3. /\ CallersInv' /\ AccessIsOwn' /\ Call' = Call /\ BlockBytes' = BlockBytes
      /\ Polling' <=> Polling
  BY <1>1, <1>2, InnerStep
<1>4. ModeInv'
  <2>1. \A i \in 1 .. Len(bus'.tx) : ~Polling => bus'.tx[i].does # "page"
    <3>1. CASE bus'.tx = bus.tx
      BY <1>1, <3>1 DEF ModeInv
    <3>2. CASE bus'.tx = <<>>
      BY <3>2
    <3> QED
      BY <3>1, <3>2
  <2> QED
    BY <1>1, <1>3, <2>1 DEF ModeInv
<1>5. CountInv' /\ WaitInv' /\ WriteInv' /\ ReadInv'
  BY <1>1, <1>2, <1>3 DEF CountInv, WaitInv, WriteInv, ReadInv, Active
<1> QED
  BY <1>3, <1>4, <1>5, PageInv', I2cTypes' DEF I2cInv

\* A word sent by polling follows the one sent before.
LEMMA SendPolledStep ==
  ASSUME I2cInv, I2cTypes', SendPolled
  PROVE  I2cInv'
<1>1. /\ I2cTypes /\ CallersInv /\ ModeInv /\ CountInv /\ WaitInv /\ WriteInv /\ ReadInv
      /\ PageInv /\ AccessIsOwn
  BY DEF I2cInv
<1>2. /\ MoreToSend /\ Polling
      /\ UNCHANGED <<i2c, io, pageLock, statePage, pageLost, last>>
      /\ \/ Take(Word) /\ bus' = [bus EXCEPT !.rx = @ \o Answer(Word)] /\ (xf' = Sent \/ Failed)
         \/ Failed /\ UNCHANGED <<bus, device>>
  BY DEF SendPolled
<1>3. Active /\ xf.step = "send" /\ (xf.n = 0 \/ xf.todo > 0)
  BY <1>2 DEF MoreToSend, Active
<1>4. /\ bus.tx \in Seq(WordType) /\ bus.rx \in Seq(Stamps) /\ xf \in XfType
      /\ device \in DevType
  BY <1>1 DEF I2cTypes, BusType
<1>5. /\ Word \in WordType /\ Word.at = [ser |-> xf.ser, msg |-> xf.msg, n |-> xf.n]
      /\ Word.page = Call.page
      /\ Word.does = "page" => Call.step = "page"
      /\ Len(xf.msgs) = 1 /\ xf.n = Msg.len =>
           Word.does = IF Call.step = "page" THEN "page" ELSE "write"
  BY <1>1, <1>3, WordFacts
<1>6. bus.tx = <<>>
  BY <1>1, <1>2 DEF ModeInv
<1>7. xf.who \in Threads /\ Call.step \in {"page", "access"} /\ xf.who # Nobody
  BY <1>1, <1>3, XferFacts DEF Active, CallersInv
<1>8. CASE Failed /\ UNCHANGED <<bus, device>>
  <2>1. Call' = Call /\ xf'.who = xf.who
    BY <1>2, <1>4, <1>8 DEF Failed, Call, XfType
  <2>2. PageInv'
    BY <1>1, <1>2, <1>8, <2>1 DEF PageInv, Paging
  <2> QED
    BY <1>2, <1>3, <1>8, <2>2, FailedStep
<1>9. CASE Take(Word) /\ bus' = [bus EXCEPT !.rx = @ \o Answer(Word)]
  <2>1. bus'.tx = <<>> /\ bus'.rx = bus.rx \o Answer(Word)
    BY <1>1, <1>6, <1>9 DEF I2cTypes, BusType
  <2>2. /\ device'.page \in {device.page, Call.page}
        /\ Call.step # "page" => device'.page = device.page
    BY <1>4, <1>5, <1>9, TakeFacts
  <2>3. CASE Failed
    <3>1. Call' = Call /\ xf'.who = xf.who
      BY <1>2, <1>4, <2>3 DEF Failed, Call, XfType
    <3>2. PageInv'
      BY <1>1, <1>2, <1>7, <2>2, <3>1 DEF PageInv, Paging
    <3> QED
      BY <1>2, <1>3, <2>1, <2>3, <3>2, FailedStep
  <2>4. CASE xf' = Sent
    <3>1. /\ xf'.n = xf.n + 1 /\ xf'.who = xf.who /\ xf'.step = "send" /\ xf'.ser = xf.ser
          /\ xf'.msgs = xf.msgs /\ xf'.msg = xf.msg /\ xf'.left = xf.left
          /\ xf'.got = xf.got /\ xf'.doubt = xf.doubt
      BY <1>1, <1>3, <2>4, SentFacts
    <3>2. /\ CallersInv' /\ AccessIsOwn' /\ Call' = Call /\ BlockBytes' = BlockBytes
          /\ Paging' <=> Paging
          /\ Polling' <=> Polling
          /\ Msg' = Msg
      BY <1>1, <1>2, <1>3, <3>1, InnerStep
    <3>3. CountInv' /\ xf.n <= Msg.len
      BY <1>1, <1>2, <2>4, <3>1, <3>2, SentCount
    <3>4. ModeInv' /\ WaitInv'
      BY <1>1, <1>2, <2>1, <3>2 DEF ModeInv, WaitInv
    <3>5. PageInv'
      BY <1>1, <1>2, <1>7, <2>2, <3>2 DEF PageInv, Paging
    <3>6. WriteInv'
      <4>1. SUFFICES ASSUME xf.doubt = {}, Len(xf.msgs) = 1 PROVE WriteInv'
        BY <3>1 DEF WriteInv
      <4>2. xf.n \in Nat /\ SentWords = xf.n /\ SentWords' = xf.n + 1 /\ Len(bus'.tx) = 0
        BY <1>4, <1>6, <2>1, <3>1 DEF SentWords, XfType
      <4>3. xf.n > 0 => device.seen = [ser |-> xf.ser, msg |-> 1, n |-> xf.n - 1]
        BY <1>1, <1>3, <4>1, <4>2 DEF WriteInv
      <4>4. xf.msg = 1 /\ Msg = xf.msgs[1] /\ Msg.len \in Nat
        BY <1>1, <1>3, <4>1, MsgFacts DEF Msg, MsgType
      <4>5. Word.at = [ser |-> xf.ser, msg |-> 1, n |-> xf.n]
        BY <1>5, <4>4
      <4>6. Follows(Word)
        <5>1. CASE xf.n = 0
          BY <4>5, <5>1 DEF Follows
        <5>2. CASE xf.n > 0
          <6>1. (xf.n - 1) + 1 = xf.n
            BY <4>2
          <6>2. [device.seen EXCEPT !.n = @ + 1] = [ser |-> xf.ser, msg |-> 1, n |-> xf.n]
            BY <4>3, <5>2, <6>1
          <6> QED
            BY <4>5, <6>2 DEF Follows
        <5> QED
          BY <4>2, <5>1, <5>2
      <4>7. /\ device'.seen = Word.at
            /\ Word.does = "page" => device'.page = Word.page
            /\ Word.does = "write" => device'.done = <<Word.at.ser, device.page>>
        BY <1>4, <1>5, <1>9, <4>6, TakeFacts
      <4>8. SentWords' > xf.msgs[1].len =>
              IF Call.step = "page" THEN device'.page = Call.page
              ELSE device'.done = <<xf.ser, device'.page>>
        <5>1. SUFFICES ASSUME SentWords' > xf.msgs[1].len
                       PROVE  IF Call.step = "page" THEN device'.page = Call.page
                              ELSE device'.done = <<xf.ser, device'.page>>
          OBVIOUS
        <5>2. xf.n = Msg.len
          BY <3>3, <4>2, <4>4, <5>1
        <5>3. Word.does = IF Call.step = "page" THEN "page" ELSE "write"
          BY <1>5, <4>1, <5>2
        <5>4. Word.at.ser = xf.ser
          BY <4>5
        <5> QED
          BY <1>5, <2>2, <4>7, <5>3, <5>4
      <4>9. (xf.n + 1) - 1 = xf.n /\ xf.n + 1 >= 0
        BY <4>2
      <4> QED
        BY <3>1, <3>2, <4>2, <4>5, <4>7, <4>8, <4>9 DEF WriteInv
    <3>7. ReadInv'
      <4>1. SUFFICES ASSUME xf.doubt \subseteq {"woken"}, Call.step = "access" PROVE ReadInv'
        BY <3>1, <3>2 DEF ReadInv
      <4>2. \A i \in 1 .. Len(bus.rx) : bus.rx[i] = <<xf.ser, device.page>>
        BY <1>1, <1>3, <4>1 DEF ReadInv
      <4>3. Word.at.ser = xf.ser
        BY <1>5
      <4>4. ASSUME NEW i \in 1 .. Len(bus'.rx)
            PROVE  bus'.rx[i] = <<xf.ser, device.page>>
        <5> DEFINE ans == bus.rx
                   w == Word
        <5>1. ans \in Seq(Stamps) /\ bus'.rx = ans \o Answer(w) /\ w \in WordType
          BY <1>4, <1>5, <2>1
        <5> HIDE DEF w, ans
        <5>2. \A j \in 1 .. Len(ans \o Answer(w)) :
                \/ j \in 1 .. Len(ans) /\ (ans \o Answer(w))[j] = ans[j]
                \/ w.does = "answer" /\ (ans \o Answer(w))[j] = <<w.at.ser, device.page>>
          BY <1>4, <5>1, AnswerAdded
        <5>3. \/ i \in 1 .. Len(ans) /\ bus'.rx[i] = ans[i]
              \/ bus'.rx[i] = <<w.at.ser, device.page>>
          BY <5>1, <5>2
        <5> QED
          BY <4>2, <4>3, <5>3 DEF ans, w
      <4>5. xf'.got \subseteq {<<xf'.ser, device'.page>>}
        BY <1>1, <1>3, <2>2, <3>1, <4>1 DEF ReadInv
      <4>6. Len(bus'.tx) = 0 /\ xf'.step # "recv"
        BY <2>1, <3>1
      <4>7. \A i \in 1 .. Len(bus'.rx) : bus'.rx[i] = <<xf'.ser, device'.page>>
        BY <2>2, <3>1, <4>1, <4>4
      <4> QED
        BY <4>5, <4>6, <4>7 DEF ReadInv
    <3> QED
      BY <3>2, <3>3, <3>4, <3>5, <3>6, <3>7, I2cTypes' DEF I2cInv
  <2> QED
    BY <1>2, <1>8, <1>9, <2>3, <2>4
<1> QED
  BY <1>2, <1>8, <1>9

\* A reset in the middle of a message leaves the transfer in doubt; before its START
\* nothing is lost.
LEMMA SendResetStep ==
  ASSUME I2cInv, I2cTypes', SendReset
  PROVE  I2cInv'
<1>1. /\ I2cTypes /\ CallersInv /\ ModeInv /\ CountInv /\ WaitInv /\ WriteInv /\ ReadInv
      /\ PageInv /\ AccessIsOwn
  BY DEF I2cInv
<1>2. /\ MoreToSend /\ Polling
      /\ UNCHANGED <<i2c, io, pageLock, statePage, pageLost, last>>
  BY DEF SendReset
<1>3. PICK result \in {"ok", "early", "late"} :
        /\ Hwinit(result)
        /\ IF result # "ok" THEN Failed
           ELSE IF xf.n = 0 THEN xf' = xf
           ELSE xf' = [Sent EXCEPT !.doubt = @ \cup {"cut"}]
  BY DEF SendReset
<1>4. Active /\ xf.step = "send" /\ (xf.n = 0 \/ xf.todo > 0)
  BY <1>2 DEF MoreToSend, Active
<1>5. xf \in XfType
  BY <1>1 DEF I2cTypes
<1>6. /\ device'.page = device.page
      /\ result # "early" => bus'.tx = <<>> /\ bus'.rx = <<>>
      /\ bus'.tx \in {bus.tx, <<>>}
  BY <1>1, <1>3, HwinitFacts
<1>7. bus'.tx = <<>>
  BY <1>1, <1>2, <1>6 DEF ModeInv
<1>8. ASSUME xf'.who = xf.who
      PROVE  PageInv'
  <2>1. Call' = Call
    BY <1>2, <1>8 DEF Call
  <2> QED
    BY <1>1, <1>2, <1>6, <1>8, <2>1 DEF PageInv, Paging
<1>9. CASE result # "ok"
  <2>1. Failed
    BY <1>3, <1>9
  <2>2. xf'.who = xf.who
    BY <1>5, <2>1 DEF Failed, XfType
  <2> QED
    BY <1>2, <1>4, <1>6, <1>8, <2>1, <2>2, FailedStep
<1>10. CASE result = "ok" /\ xf.n = 0
  <2>1. xf' = xf /\ bus'.rx = <<>>
    BY <1>3, <1>6, <1>10
  <2>2. /\ CallersInv' /\ AccessIsOwn' /\ Call' = Call /\ BlockBytes' = BlockBytes
        /\ Polling' <=> Polling
        /\ Msg' = Msg
    BY <1>1, <1>2, <2>1, InnerStep
  <2>3. ModeInv' /\ CountInv' /\ WaitInv'
    BY <1>1, <1>2, <1>7, <2>1, <2>2 DEF ModeInv, CountInv, WaitInv, Active
  <2>4. WriteInv'
    <3>1. SUFFICES ASSUME xf.doubt = {}, Len(xf.msgs) = 1 PROVE WriteInv'
      BY <2>1 DEF WriteInv
    <3>2. SentWords' = 0 /\ Len(bus'.tx) = 0
      BY <1>7, <1>10, <2>1 DEF SentWords
    <3>3. xf.msgs[1].len \in Nat
      BY <1>1, <1>4, <3>1, MsgFacts DEF Msg, MsgType
    <3> QED
      BY <2>1, <2>2, <3>2, <3>3 DEF WriteInv
  <2>5. ReadInv'
    <3>1. Len(bus'.tx) = 0 /\ Len(bus'.rx) = 0
      BY <1>7, <2>1
    <3> QED
      BY <1>1, <1>4, <1>6, <2>1, <2>2, <3>1 DEF ReadInv
  <2> QED
    BY <1>8, <2>1, <2>2, <2>3, <2>4, <2>5, I2cTypes' DEF I2cInv
<1>11. CASE result = "ok" /\ xf.n # 0
  <2> DEFINE d == xf.doubt \cup {"cut"}
  <2>1. /\ Sent \in XfType /\ Sent.who = xf.who /\ Sent.step = xf.step /\ Sent.msgs = xf.msgs
        /\ Sent.msg = xf.msg /\ Sent.left = xf.left /\ Sent.doubt = xf.doubt
    BY <1>1, <1>4, SentFacts
  <2>2. xf' = [Sent EXCEPT !.doubt = d] /\ "cut" \in d
    BY <1>3, <1>11, <2>1
  <2> HIDE DEF d
  <2>3. /\ xf'.who = xf.who /\ xf'.step = "send" /\ xf'.msgs = xf.msgs
        /\ xf'.msg = xf.msg /\ xf'.left = xf.left /\ xf'.n = Sent.n
        /\ xf'.todo = Sent.todo /\ xf'.size = Sent.size /\ "cut" \in xf'.doubt
    BY <1>4, <2>1, <2>2 DEF XfType
  <2>4. /\ CallersInv' /\ AccessIsOwn' /\ Call' = Call /\ BlockBytes' = BlockBytes
        /\ Polling' <=> Polling
        /\ Msg' = Msg
    BY <1>1, <1>2, <1>4, <2>3, InnerStep
  <2>5. CountInv'
    BY <1>1, <1>2, <2>3, <2>4, SentCount
  <2>6. ModeInv' /\ WaitInv'
    BY <1>1, <1>2, <1>7, <2>4 DEF ModeInv, WaitInv
  <2>7. WriteInv' /\ ReadInv'
    BY <2>3 DEF WriteInv, ReadInv
  <2> QED
    BY <1>8, <2>3, <2>4, <2>5, <2>6, <2>7, I2cTypes' DEF I2cInv
<1> QED
  BY <1>9, <1>10, <1>11

\* What is received is the oldest answer.
LEMMA RecvStep ==
  ASSUME I2cInv, I2cTypes', Recv
  PROVE  I2cInv'
<1>1. /\ I2cTypes /\ CallersInv /\ ModeInv /\ CountInv /\ WaitInv /\ WriteInv /\ ReadInv
      /\ PageInv /\ AccessIsOwn
  BY DEF I2cInv
<1>2. /\ xf.step = "recv" /\ xf.todo > 0
      /\ UNCHANGED <<i2c, device, io, pageLock, statePage, pageLost, last>>
      /\ \/ /\ bus.rx # <<>>
            /\ xf' = [xf EXCEPT !.todo = @ - 1, !.got = @ \cup {Head(bus.rx)}]
            /\ bus' = [bus EXCEPT !.rx = Tail(@)]
         \/ Failed /\ UNCHANGED bus
  BY DEF Recv
<1>3. Active
  BY <1>2 DEF Active
<1>4. /\ bus.tx \in Seq(WordType) /\ bus.rx \in Seq(Stamps) /\ xf \in XfType
  BY <1>1 DEF I2cTypes, BusType
<1>5. CASE Failed /\ UNCHANGED bus
  <2>1. xf'.who = xf.who /\ Call' = Call
    BY <1>2, <1>4, <1>5 DEF Failed, XfType, Call
  <2>2. PageInv'
    BY <1>1, <1>2, <2>1 DEF PageInv, Paging
  <2> QED
    BY <1>2, <1>5, <2>2, FailedStep
<1>6. CASE /\ bus.rx # <<>>
           /\ xf' = [xf EXCEPT !.todo = @ - 1, !.got = @ \cup {Head(bus.rx)}]
           /\ bus' = [bus EXCEPT !.rx = Tail(@)]
  <2> DEFINE g == xf.got \cup {Head(bus.rx)}
             t == xf.todo - 1
  <2>1. xf' = [xf EXCEPT !.todo = t, !.got = g]
    BY <1>6
  <2>2. Head(bus.rx) \in g /\ xf.todo \in Nat /\ t = xf.todo - 1
    BY <1>4 DEF XfType
  <2> HIDE DEF t, g
  <2>3. /\ xf'.who = xf.who /\ xf'.step = "recv" /\ xf'.msgs = xf.msgs /\ xf'.ser = xf.ser
        /\ xf'.msg = xf.msg /\ xf'.left = xf.left /\ xf'.n = xf.n /\ xf'.size = xf.size
        /\ xf'.doubt = xf.doubt /\ xf'.todo = t /\ xf'.got = g
    BY <1>2, <1>4, <2>1 DEF XfType
  <2>4. bus'.tx = bus.tx /\ bus'.rx = Tail(bus.rx)
    BY <1>1, <1>6 DEF I2cTypes, BusType
  <2>5. /\ CallersInv' /\ AccessIsOwn' /\ Call' = Call /\ BlockBytes' = BlockBytes
        /\ Paging' <=> Paging
        /\ Polling' <=> Polling
        /\ Msg' = Msg
    BY <1>1, <1>2, <2>3, InnerStep
  <2>6. ModeInv' /\ WaitInv'
    BY <1>1, <1>2, <2>3, <2>4, <2>5 DEF ModeInv, WaitInv
  <2>7. CountInv'
    <3>1. xf'.todo <= xf'.size /\ (xf.todo = 0 => FALSE)
      BY <1>1, <1>2, <1>4, <2>2, <2>3 DEF CountInv, XfType
    <3> QED
      BY <1>1, <1>2, <1>3, <2>3, <2>5, <3>1 DEF CountInv, Active
  <2>8. WriteInv'
    <3>1. SentWords' = SentWords
      BY <2>3, <2>4 DEF SentWords
    <3> QED
      BY <1>1, <1>2, <1>3, <2>3, <2>4, <2>5, <3>1 DEF WriteInv
  <2>9. ReadInv'
    <3>1. SUFFICES ASSUME xf.doubt \subseteq {"woken"}, Call.step = "access" PROVE ReadInv'
      BY <2>3, <2>5 DEF ReadInv
    <3>2. /\ \A i \in 1 .. Len(bus.tx) : bus.tx[i].at.ser = xf.ser
          /\ \A i \in 1 .. Len(bus.rx) : bus.rx[i] = <<xf.ser, device.page>>
          /\ xf.got \subseteq {<<xf.ser, device.page>>}
      BY <1>1, <1>3, <3>1 DEF ReadInv
    <3>3. /\ Len(bus'.rx) = Len(bus.rx) - 1 /\ Len(bus.rx) \in Nat \ {0}
          /\ \A i \in 1 .. Len(bus.rx) - 1 : bus'.rx[i] = bus.rx[i + 1]
          /\ Head(bus.rx) = bus.rx[1]
      <4> DEFINE ans == bus.rx
      <4>1. ans \in Seq(Stamps) /\ ans # <<>> /\ bus'.rx = Tail(ans)
        BY <1>4, <1>6, <2>4
      <4> HIDE DEF ans
      <4>2. /\ Len(bus'.rx) = Len(ans) - 1 /\ Len(ans) \in Nat \ {0}
            /\ \A i \in 1 .. Len(ans) - 1 : bus'.rx[i] = ans[i + 1]
            /\ Head(ans) = ans[1]
        BY <4>1, FifoTail, HeadTailProperties
      <4> QED
        BY <4>2 DEF ans
    <3> DEFINE n == Len(bus.rx)
    <3>4. n \in Nat \ {0} /\ Len(bus'.rx) = n - 1
      BY <3>3
    <3> HIDE DEF n
    <3>5. ASSUME NEW i \in 1 .. n - 1 PROVE bus'.rx[i] = <<xf.ser, device.page>>
      <4>1. i + 1 \in 1 .. n /\ i \in 1 .. n - 1
        BY <3>4
      <4>2. bus'.rx[i] = bus.rx[i + 1]
        BY <3>3, <4>1 DEF n
      <4> QED
        BY <3>2, <4>1, <4>2 DEF n
    <3>6. Head(bus.rx) = <<xf.ser, device.page>>
      <4>1. 1 \in 1 .. n
        BY <3>4
      <4> QED
        BY <3>2, <3>3, <4>1 DEF n
    <3>7. g \subseteq {<<xf.ser, device.page>>} /\ g # {}
      BY <2>2, <3>2, <3>6 DEF g
    <3> QED
      BY <1>2, <2>3, <2>4, <2>5, <3>2, <3>4, <3>5, <3>7 DEF ReadInv
  <2>10. PageInv'
    BY <1>1, <1>2, <2>5 DEF PageInv
  <2> QED
    BY <2>5, <2>6, <2>7, <2>8, <2>9, <2>10, I2cTypes' DEF I2cInv
<1> QED
  BY <1>2, <1>5, <1>6

\* A block ends where the next one starts, a write where its read starts.
LEMMA NextBlockStep ==
  ASSUME I2cInv, I2cTypes', NextBlock
  PROVE  I2cInv'
<1>1. /\ I2cTypes /\ CallersInv /\ ModeInv /\ CountInv /\ WaitInv /\ WriteInv /\ ReadInv
      /\ PageInv /\ AccessIsOwn
  BY DEF I2cInv
<1> DEFINE left == xf.left - xf.size
           size == SmallerOf(BlockBytes, left)
<1>2. /\ xf.step = "recv" /\ xf.todo = 0
      /\ xf.left > xf.size \/ xf.msg < Len(xf.msgs)
      /\ UNCHANGED <<i2c, bus, device, io, pageLock, statePage, pageLost, last>>
      /\ xf' = IF left > 0
               THEN [xf EXCEPT !.step = "start", !.left = left, !.size = size, !.todo = size]
               ELSE [xf EXCEPT !.step = "start", !.msg = @ + 1, !.n = 0, !.size = 0,
                               !.todo = 0, !.left = xf.msgs[xf.msg + 1].len]
  BY DEF NextBlock
<1>3. Active /\ xf \in XfType
  BY <1>1, <1>2 DEF Active, I2cTypes
<1>4. /\ xf.msg \in {1, 2} /\ xf.msg <= Len(xf.msgs) /\ xf.who # Nobody
      /\ Msg.len \in Nat \ {0}
  BY <1>1, <1>3, MsgFacts DEF MsgType
<1>5. /\ Len(xf.msgs) \in {1, 2}
      /\ Len(xf.msgs) = 2 => xf.msgs[2].len \in Nat \ {0}
  BY <1>1, <1>4, XferFacts DEF MsgType
<1>6. /\ xf.n \in Nat \ {0} /\ xf.left \in 1 .. Msg.len /\ xf.size \in Nat
      /\ xf.size <= xf.left /\ BlockBytes \in Nat \ {0}
      /\ xf.n = 1 + Msg.len - xf.left + xf.size
  BY <1>1, <1>2, <1>3, BlockSizeAssumption DEF CountInv, XfType, BlockBytes
<1>7. left \in Nat /\ left <= xf.left
  BY <1>4, <1>6
<1>8. CASE left > 0
  <2>1. xf' = [xf EXCEPT !.step = "start", !.left = left, !.size = size, !.todo = size]
    BY <1>2, <1>8
  <2>2. size \in Nat /\ size <= left /\ size <= BlockBytes
    BY <1>6, <1>7 DEF SmallerOf
  <2> HIDE DEF size
  <2>3. /\ left = xf.left - xf.size /\ left \in 1 .. Msg.len
        /\ xf.n = 1 + Msg.len - left + size - size
    BY <1>4, <1>6, <1>7, <1>8, <2>2
  <2> HIDE DEF left
  <2>4. /\ xf'.who = xf.who /\ xf'.step = "start" /\ xf'.msgs = xf.msgs /\ xf'.ser = xf.ser
        /\ xf'.msg = xf.msg /\ xf'.left = left /\ xf'.n = xf.n /\ xf'.size = size
        /\ xf'.doubt = xf.doubt /\ xf'.todo = size /\ xf'.got = xf.got
    BY <1>3, <2>1 DEF XfType
  <2>5. /\ CallersInv' /\ ModeInv' /\ WriteInv' /\ ReadInv' /\ PageInv' /\ AccessIsOwn'
        /\ Msg' = Msg /\ Call' = Call /\ BlockBytes' = BlockBytes
        /\ Polling' <=> Polling
    BY <1>1, <1>2, <1>3, <2>4, StillWire DEF ModeInv, Active
  <2>6. CountInv'
    BY <1>4, <1>6, <2>2, <2>3, <2>4, <2>5 DEF CountInv, Active
  <2>7. WaitInv'
    BY <2>4 DEF WaitInv
  <2> QED
    BY <2>5, <2>6, <2>7, I2cTypes' DEF I2cInv
<1>9. CASE ~(left > 0)
  <2>1. xf.msg = 1 /\ Len(xf.msgs) = 2
    <3>1. left = 0 /\ ~(xf.left > xf.size)
      <4> DEFINE a == xf.left
                 b == xf.size
      <4>1. a \in Nat /\ b \in Nat /\ left = a - b /\ left \in Nat /\ ~(left > 0)
        BY <1>4, <1>6, <1>7, <1>9
      <4> HIDE DEF a, b, left
      <4>2. left = 0 /\ ~(a > b)
        BY <4>1
      <4> QED
        BY <4>2 DEF a, b
    <3> DEFINE m == xf.msg
               l == Len(xf.msgs)
    <3>2. m < l /\ m \in {1, 2} /\ l \in {1, 2}
      BY <1>2, <1>4, <1>5, <3>1
    <3> HIDE DEF m, l
    <3>3. m = 1 /\ l = 2
      BY <3>2
    <3> QED
      BY <3>3 DEF m, l
  <2> DEFINE len == xf.msgs[2].len
  <2>2. xf' = [xf EXCEPT !.step = "start", !.msg = 2, !.n = 0, !.size = 0,
                         !.todo = 0, !.left = len]
    BY <1>2, <1>9, <2>1
  <2>3. len \in Nat \ {0}
    BY <1>5, <2>1
  <2> HIDE DEF len, left
  <2>4. /\ xf'.who = xf.who /\ xf'.step = "start" /\ xf'.msgs = xf.msgs /\ xf'.ser = xf.ser
        /\ xf'.msg = 2 /\ xf'.left = len /\ xf'.n = 0 /\ xf'.size = 0
        /\ xf'.doubt = xf.doubt /\ xf'.todo = 0 /\ xf'.got = xf.got
    BY <1>3, <2>2 DEF XfType
  <2>5. /\ CallersInv' /\ AccessIsOwn' /\ Call' = Call /\ BlockBytes' = BlockBytes
        /\ Paging' <=> Paging
        /\ Polling' <=> Polling
    BY <1>1, <1>2, <2>4, InnerStep
  <2>6. Msg'.len = len
    BY <2>4 DEF Msg, len
  <2>7. CountInv'
    <3>1. /\ xf'.size <= xf'.left /\ xf'.size <= BlockBytes' /\ xf'.todo <= xf'.size
      BY <1>6, <2>3, <2>4, <2>5
    <3>2. xf'.msg <= Len(xf'.msgs)
      <4>1. Len(xf'.msgs) = 2 /\ xf'.msg = 2
        BY <2>1, <2>4
      <4>2. 2 <= 2
        OBVIOUS
      <4> QED
        BY <4>1, <4>2, Zenon
    <3>3. xf'.left \in 1 .. Msg'.len
      BY <2>3, <2>4, <2>6
    <3> QED
      BY <2>4, <2>6, <3>1, <3>2, <3>3 DEF CountInv, Active
  <2>8. ModeInv' /\ WaitInv' /\ PageInv'
    BY <1>1, <1>2, <2>4, <2>5 DEF ModeInv, WaitInv, PageInv
  <2>9. WriteInv'
    <3>1. Len(xf'.msgs) # 1
      BY <2>1, <2>4
    <3> QED
      BY <3>1 DEF WriteInv
  <2>10. ReadInv'
    BY <1>1, <1>2, <1>3, <2>4, <2>5 DEF ReadInv
  <2> QED
    BY <2>5, <2>7, <2>8, <2>9, <2>10, I2cTypes' DEF I2cInv
<1> QED
  BY <1>8, <1>9

\* A transfer that finds both FIFOs empty starts in no doubt.
LEMMA XferBeginStep ==
  ASSUME I2cInv, I2cTypes', NEW p \in Threads, XferBegin(p)
  PROVE  I2cInv'
<1>1. /\ I2cTypes /\ CallersInv /\ ModeInv /\ CountInv /\ PageInv /\ AccessIsOwn
  BY DEF I2cInv
<1> DEFINE msgs == IF io[p].step = "page" THEN Messages(FALSE, 2)
                   ELSE Messages(io[p].rd, io[p].len)
           d == IF bus = [tx |-> <<>>, rx |-> <<>>] THEN {} ELSE {"left"}
           ser == last.ser + 1
           len == msgs[1].len
<1>2. /\ xf.who = Nobody /\ io[p].step \in {"page", "access"}
      /\ xf' = [NoXfer EXCEPT !.who = p, !.step = "start", !.ser = ser,
                              !.msgs = msgs, !.left = len, !.doubt = d]
      /\ last' = [last EXCEPT !.ser = @ + 1]
      /\ UNCHANGED <<i2c, bus, device, io, pageLock, statePage, pageLost>>
  BY DEF XferBegin
<1>3. PICK rd \in BOOLEAN, l \in Nat \ {0} : /\ msgs = Messages(rd, l)
                                             /\ rd <=> io[p].step = "access" /\ io[p].rd
  <2>1. CASE io[p].step = "page"
    <3>1. msgs = Messages(FALSE, 2) /\ FALSE \in BOOLEAN /\ 2 \in Nat \ {0}
      BY <2>1
    <3>2. FALSE <=> io[p].step = "access" /\ io[p].rd
      BY <2>1
    <3> QED
      BY <3>1, <3>2, Zenon
  <2>2. CASE io[p].step # "page"
    <3>1. msgs = Messages(io[p].rd, io[p].len)
      BY <2>2
    <3>2. io[p].rd \in BOOLEAN /\ io[p].len \in Nat \ {0} /\ io[p].step = "access"
      BY <1>1, <1>2, <2>2 DEF I2cTypes, IoType
    <3> QED
      BY <3>1, <3>2, Zenon
  <2> QED
    BY <2>1, <2>2
<1> HIDE DEF msgs
<1>4. /\ Len(msgs) \in {1, 2} /\ len \in Nat \ {0}
  <2> DEFINE m == Messages(rd, l)
  <2>1. Len(m) = (IF rd THEN 2 ELSE 1) /\ m[1].len = IF rd THEN 1 ELSE l
    BY MessagesFacts
  <2> HIDE DEF m
  <2>2. msgs = m /\ l \in Nat \ {0}
    BY <1>3 DEF m
  <2> QED
    BY <2>1, <2>2
<1>5. /\ d = {} => bus.tx = <<>> /\ bus.rx = <<>>
      /\ d \subseteq {"left"}
  OBVIOUS
<1> HIDE DEF d, ser, len
<1>6. /\ xf'.who = p /\ xf'.step = "start" /\ xf'.msgs = msgs /\ xf'.left = len
      /\ xf'.doubt = d /\ xf'.n = 0 /\ xf'.size = 0 /\ xf'.todo = 0 /\ xf'.msg = 1
      /\ xf'.got = {}
  BY <1>2 DEF NoXfer
<1>7. /\ last'.ok = last.ok /\ last'.rd = last.rd /\ last'.doubt = last.doubt
      /\ last'.got = last.got /\ last'.asked = last.asked
  BY <1>1, <1>2 DEF I2cTypes, LastType
<1>8. Call' = io[p] /\ p # Nobody /\ Msg'.len = len
      /\ (Polling' <=> Polling) /\ BlockBytes' = BlockBytes /\ ~Paging
  BY <1>2, <1>6 DEF Call, Threads, Nobody, Msg, len, Polling, BlockBytes, Paging
<1>9. CallersInv'
  BY <1>1, <1>2, <1>3, <1>6, <1>8 DEF CallersInv
<1>10. ModeInv'
  BY <1>1, <1>2, <1>8 DEF ModeInv
<1>11. CountInv'
  <2>1. BlockBytes \in Nat
    BY BlockSizeAssumption DEF BlockBytes
  <2>2. /\ xf'.size <= xf'.left /\ xf'.size <= BlockBytes' /\ xf'.todo <= xf'.size
    BY <1>4, <1>6, <1>8, <2>1
  <2>3. xf'.msg <= Len(xf'.msgs)
    <3> DEFINE k == Len(msgs)
    <3>1. k \in {1, 2} /\ Len(xf'.msgs) = k /\ xf'.msg = 1
      BY <1>4, <1>6
    <3> HIDE DEF k
    <3>2. 1 <= k
      BY <3>1
    <3> QED
      BY <3>1, <3>2, Zenon
  <2>4. xf'.left \in 1 .. Msg'.len
    BY <1>4, <1>6, <1>8
  <2> QED
    BY <1>6, <1>8, <2>2, <2>3, <2>4 DEF CountInv, Active
<1>12. WaitInv'
  BY <1>6 DEF WaitInv
<1>13. WriteInv'
  <2>1. SUFFICES ASSUME d = {} PROVE WriteInv'
    BY <1>6 DEF WriteInv
  <2>2. Len(bus'.tx) = 0 /\ SentWords' = 0 /\ xf'.msgs[1].len \in Nat
    BY <1>2, <1>4, <1>5, <1>6, <2>1 DEF SentWords, len
  <2> QED
    BY <2>2 DEF WriteInv
<1>14. ReadInv'
  <2>1. SUFFICES ASSUME d = {} PROVE ReadInv'
    BY <1>5, <1>6 DEF ReadInv
  <2>2. Len(bus'.tx) = 0 /\ Len(bus'.rx) = 0
    BY <1>2, <1>5, <2>1
  <2> QED
    BY <1>6, <2>2 DEF ReadInv
<1>15. PageInv'
  BY <1>1, <1>2, <1>8 DEF PageInv
<1>16. AccessIsOwn'
  BY <1>1, <1>7 DEF AccessIsOwn
<1> QED
  BY <1>9, <1>10, <1>11, <1>12, <1>13, <1>14, <1>15, <1>16, I2cTypes' DEF I2cInv

\* Who takes page_lock finds no transfer under way.
LEMMA IoBeginStep ==
  ASSUME I2cInv, I2cTypes', NEW p \in Threads, IoBegin(p)
  PROVE  I2cInv'
<1>1. /\ I2cTypes /\ CallersInv /\ ModeInv /\ CountInv /\ PageInv /\ AccessIsOwn
  BY DEF I2cInv
<1>2. /\ io[p].step = "idle" /\ pageLock = Nobody /\ pageLock' = p
      /\ UNCHANGED <<i2c, xf, bus, device, statePage, pageLost, last>>
  BY DEF IoBegin
<1>3. PICK page \in IF Polling THEN I2cPages ELSE {statePage}, rd \in BOOLEAN :
        \E len \in IF Polling THEN {IF rd THEN 1 ELSE 2} ELSE 1 .. MaxLen :
          io' = [io EXCEPT ![p] =
                   [step |-> IF page = statePage THEN "access" ELSE "page",
                    page |-> page, rd |-> rd, len |-> len]]
  BY DEF IoBegin
<1>4. PICK len \in IF Polling THEN {IF rd THEN 1 ELSE 2} ELSE 1 .. MaxLen :
          io' = [io EXCEPT ![p] =
                   [step |-> IF page = statePage THEN "access" ELSE "page",
                    page |-> page, rd |-> rd, len |-> len]]
  BY <1>3
<1>5. /\ \A q \in Threads : q # p => io'[q] = io[q]
      /\ io'[p].step = "access" => io'[p].page = statePage
      /\ ~Polling => io'[p].step # "page"
  <2> DEFINE r == [step |-> IF page = statePage THEN "access" ELSE "page",
                   page |-> page, rd |-> rd, len |-> len]
  <2>1. /\ r.step = "access" => r.page = statePage
        /\ ~Polling => r.step # "page"
    BY <1>3
  <2>2. io' = [io EXCEPT ![p] = r]
    BY <1>4
  <2> HIDE DEF r
  <2>3. io'[p] = r /\ \A q \in Threads : q # p => io'[q] = io[q]
    BY <1>1, <2>2 DEF I2cTypes, IoType
  <2> QED
    BY <2>1, <2>3
<1>6. \A q \in Threads : io[q].step = "idle"
  BY <1>1, <1>2 DEF CallersInv, Threads, Nobody
<1>7. xf.who = Nobody /\ xf.step = "idle"
  <2>1. xf.who \in Threads \cup {Nobody}
    BY <1>1 DEF I2cTypes, XfType
  <2> QED
    BY <1>1, <1>6, <2>1 DEF CallersInv, Call
<1>8. CallersInv'
  BY <1>1, <1>2, <1>5, <1>6, <1>7 DEF CallersInv
<1>9. (Polling' <=> Polling) /\ BlockBytes' = BlockBytes
  BY <1>2 DEF Polling, BlockBytes
<1>10. ModeInv'
  BY <1>1, <1>2, <1>5, <1>9 DEF ModeInv
<1>11. CountInv' /\ WaitInv' /\ WriteInv' /\ ReadInv'
  BY <1>1, <1>2, <1>7, <1>9 DEF CountInv, WaitInv, WriteInv, ReadInv, Active
<1>12. PageInv' /\ AccessIsOwn'
  BY <1>1, <1>2, <1>7 DEF PageInv, AccessIsOwn, Paging
<1> QED
  BY <1>8, <1>10, <1>11, <1>12, I2cTypes' DEF I2cInv

\* A transfer that is done has sent all its words, and has all its answers.
LEMMA XferDoneStep ==
  ASSUME I2cInv, I2cTypes', XferDone
  PROVE  I2cInv'
<1>1. /\ I2cTypes /\ CallersInv /\ ModeInv /\ CountInv /\ WaitInv /\ WriteInv /\ ReadInv
      /\ PageInv /\ AccessIsOwn
  BY DEF I2cInv
<1>2. /\ xf.step = "recv" /\ xf.todo = 0 /\ xf.left = xf.size /\ xf.msg = Len(xf.msgs)
      /\ Return(TRUE) /\ UNCHANGED <<i2c, bus, device>>
  BY DEF XferDone
<1>3. Active /\ xf.who # Nobody /\ xf \in XfType
  BY <1>1, <1>2 DEF Active, I2cTypes, CallersInv
<1>4. /\ xf.who \in Threads /\ Len(xf.msgs) \in {1, 2}
      /\ Len(xf.msgs) = 2 <=> Call.step = "access" /\ Call.rd
      /\ Call.step \in {"page", "access"} /\ Call.page \in I2cPages
      /\ Call.rd \in BOOLEAN
  BY <1>1, <1>3, XferFacts
<1>5. /\ Msg.len \in Nat \ {0}
      /\ Msg.rd <=> xf.msg = 2
      /\ xf.msg = 1 => Msg = xf.msgs[1]
  BY <1>1, <1>3, MsgFacts DEF MsgType, Msg
<1>6. xf.n \in Nat /\ xf.n > Msg.len /\ xf.size > 0
  <2>1. /\ xf.n \in Nat \ {0} /\ xf.left \in 1 .. Msg.len /\ xf.size \in Nat
        /\ xf.n = 1 + Msg.len - xf.left + xf.size
    BY <1>1, <1>2, <1>3 DEF CountInv, XfType
  <2> DEFINE l == Msg.len
             a == xf.left
  <2>2. l \in Nat \ {0} /\ a \in 1 .. l /\ xf.size = a /\ xf.n = 1 + l - a + a
    BY <1>2, <1>5, <2>1
  <2> HIDE DEF l, a
  <2>3. xf.n = 1 + l /\ 1 + l > l /\ a > 0 /\ 1 + l \in Nat
    BY <2>2
  <2> QED
    BY <2>2, <2>3 DEF l, a
<1>7. pageLock = xf.who /\ \A p \in Threads : p # xf.who => io[p].step = "idle"
  BY <1>1, <1>3, <1>4 DEF CallersInv, Call
<1>8. /\ xf'.who = Nobody /\ xf'.step = "idle" /\ xf'.size = 0 /\ xf'.left = 0 /\ xf'.todo = 0
      /\ \A p \in Threads : p # xf.who => io'[p] = io[p]
      /\ io'[xf.who].page = Call.page
  <2>1. /\ xf' = NoXfer /\ io'[xf.who].page = Call.page
        /\ \A p \in Threads : p # xf.who => io'[p] = io[p]
    BY <1>1, <1>2, <1>3, ReturnFacts
  <2> QED
    BY <2>1 DEF NoXfer
<1>9. (Polling' <=> Polling) /\ BlockBytes' = BlockBytes /\ BlockBytes \in Nat
  BY <1>2, BlockSizeAssumption DEF Polling, BlockBytes
<1>10. CountInv' /\ WaitInv' /\ WriteInv' /\ ReadInv'
  BY <1>8, <1>9 DEF CountInv, WaitInv, WriteInv, ReadInv, Active
<1>11. xf.doubt = {} => bus.tx = <<>>
  BY <1>1, <1>2 DEF ModeInv, WaitInv
<1>12. xf.doubt = {} /\ Len(xf.msgs) = 1 =>
         IF Call.step = "page" THEN device.page = Call.page
         ELSE device.done = <<xf.ser, device.page>>
  <2>1. SUFFICES ASSUME xf.doubt = {}, Len(xf.msgs) = 1
                 PROVE  IF Call.step = "page" THEN device.page = Call.page
                        ELSE device.done = <<xf.ser, device.page>>
    OBVIOUS
  <2>2. SentWords = xf.n
    BY <1>6, <1>11, <2>1 DEF SentWords
  <2>3. SentWords > xf.msgs[1].len
    BY <1>2, <1>5, <1>6, <2>1, <2>2
  <2> QED
    BY <1>1, <1>3, <2>1, <2>3 DEF WriteInv
<1>13. CASE Call.step = "page"
  <2>1. /\ statePage' = Call.page /\ pageLost' = (xf.doubt # {})
        /\ io'[xf.who].step = "access" /\ pageLock' = pageLock /\ last' = last
    BY <1>1, <1>2, <1>3, <1>13, ReturnFacts
  <2>2. CallersInv'
    BY <1>4, <1>7, <1>8, <2>1 DEF CallersInv
  <2>3. Polling
    BY <1>1, <1>4, <1>13 DEF ModeInv, Call
  <2>4. ModeInv'
    BY <1>1, <1>2, <1>9, <2>3 DEF ModeInv
  <2>5. device'.page = device.page
    BY <1>2
  <2>6. PageInv'
    BY <1>4, <1>12, <1>13, <2>1, <2>5 DEF PageInv
  <2>7. AccessIsOwn'
    BY <1>1, <2>1 DEF AccessIsOwn
  <2> QED
    BY <1>10, <2>2, <2>4, <2>6, <2>7, I2cTypes' DEF I2cInv
<1>14. CASE Call.step = "access"
  <2> DEFINE d == xf.doubt \cup (IF pageLost THEN {"page"} ELSE {})
             a == {<<xf.ser, Call.page>>}
             g == IF Call.rd THEN xf.got ELSE {device.done}
             rd == Call.rd
  <2>1. /\ last' = [last EXCEPT !.ok = TRUE, !.rd = rd, !.doubt = d, !.asked = a, !.got = g]
        /\ io'[xf.who].step = "idle" /\ pageLock' = Nobody
        /\ UNCHANGED <<statePage, pageLost>>
    BY <1>1, <1>2, <1>3, <1>14, ReturnFacts
  <2>2. CallersInv'
    BY <1>1, <1>7, <1>8, <2>1 DEF CallersInv
  <2>3. ModeInv'
    BY <1>1, <1>2, <1>8, <1>9, <2>1 DEF ModeInv
  <2>4. PageInv'
    BY <1>1, <1>2, <1>14, <2>1 DEF PageInv, Paging
  <2>5. ~pageLost => device.page = Call.page
    <3>1. statePage = Call.page
      BY <1>1, <1>4, <1>14 DEF CallersInv, Call
    <3>2. statePage # Unset
      BY <1>4, <3>1, I2cPagesAssumption DEF Unset
    <3> QED
      BY <1>1, <1>14, <3>1, <3>2 DEF PageInv, Paging
  <2>6. d \subseteq (IF rd THEN {"woken"} ELSE {}) => g = a
    <3>1. SUFFICES ASSUME d \subseteq (IF rd THEN {"woken"} ELSE {}) PROVE g = a
      OBVIOUS
    <3>2. ~pageLost /\ xf.doubt \subseteq (IF rd THEN {"woken"} ELSE {})
      BY <3>1
    <3>3. device.page = Call.page
      BY <2>5, <3>2
    <3>4. CASE rd
      <4>1. Len(xf.msgs) = 2 /\ xf.msg = 2 /\ xf.doubt \subseteq {"woken"}
        BY <1>2, <1>4, <1>14, <3>2, <3>4
      <4>2. Msg.rd /\ xf.todo < xf.size
        BY <1>2, <1>5, <1>6, <4>1
      <4>3. xf.got \subseteq {<<xf.ser, device.page>>} /\ xf.got # {}
        BY <1>1, <1>2, <1>3, <1>14, <4>1, <4>2 DEF ReadInv
      <4> QED
        BY <3>3, <3>4, <4>3
    <3>5. CASE ~rd
      <4>1. Len(xf.msgs) = 1 /\ xf.doubt = {}
        BY <1>4, <3>2, <3>5
      <4> QED
        BY <1>12, <1>14, <3>3, <3>5, <4>1
    <3> QED
      BY <1>4, <3>4, <3>5
  <2> HIDE DEF d, a, g, rd
  <2>7. last'.rd = rd /\ last'.doubt = d /\ last'.asked = a /\ last'.got = g
    BY <1>1, <2>1 DEF I2cTypes, LastType
  <2>8. AccessIsOwn'
    BY <2>6, <2>7 DEF AccessIsOwn
  <2> QED
    BY <1>10, <2>2, <2>3, <2>4, <2>8, I2cTypes' DEF I2cInv
<1> QED
  BY <1>4, <1>13, <1>14

\* A try that failed leaves nothing in the FIFOs for the next one.
LEMMA XferRetryStep ==
  ASSUME I2cInv, I2cTypes', XferRetry
  PROVE  I2cInv'
<1>1. /\ I2cTypes /\ CallersInv /\ ModeInv /\ CountInv /\ WaitInv /\ WriteInv /\ ReadInv
      /\ PageInv /\ AccessIsOwn
  BY DEF I2cInv
<1>2. xf.step = "retry" /\ i2c' = i2c
  BY DEF XferRetry
<1>3. PICK result \in {"ok", "early", "late"} :
       /\ Hwinit(result)
       /\ IF result = "ok" /\ xf.try < 2
          THEN /\ xf' = [xf EXCEPT !.step = "start", !.try = @ + 1, !.ser = @ + 1,
                                   !.msg = 1, !.n = 0, !.size = 0, !.todo = 0,
                                   !.left = xf.msgs[1].len, !.got = {},
                                   !.doubt = {}]
               /\ last' = [last EXCEPT !.ser = @ + 1]
               /\ UNCHANGED <<io, statePage, pageLock, pageLost, faults>>
          ELSE /\ IF result = "ok" THEN UNCHANGED faults ELSE Fault
               /\ Return(FALSE)
  BY DEF XferRetry
<1>4. xf.who # Nobody /\ xf \in XfType
  BY <1>1, <1>2 DEF I2cTypes, CallersInv
<1>5. /\ xf.who \in Threads /\ Len(xf.msgs) \in {1, 2} /\ xf.msgs[1].len \in Nat \ {0}
      /\ Call.step \in {"page", "access"}
  BY <1>1, <1>4, XferFacts DEF MsgType
<1>6. /\ device'.page = device.page
      /\ result # "early" => bus'.tx = <<>> /\ bus'.rx = <<>>
      /\ bus'.tx \in {bus.tx, <<>>}
  BY <1>1, <1>3, HwinitFacts
<1>7. (Polling' <=> Polling) /\ BlockBytes' = BlockBytes /\ BlockBytes \in Nat
  BY <1>2, BlockSizeAssumption DEF Polling, BlockBytes
<1>8. /\ \A i \in 1 .. Len(bus'.tx) : ~Polling => bus'.tx[i].does # "page"
      /\ Polling => bus'.tx = <<>>
  <2>1. CASE bus'.tx = bus.tx
    BY <1>1, <2>1 DEF ModeInv
  <2>2. CASE bus'.tx = <<>>
    BY <2>2
  <2> QED
    BY <1>6, <2>1, <2>2
<1>9. CASE result = "ok" /\ xf.try < 2
  <2> DEFINE ser == xf.ser + 1
             try == xf.try + 1
             len == xf.msgs[1].len
  <2>1. /\ xf' = [xf EXCEPT !.step = "start", !.try = try, !.ser = ser, !.msg = 1, !.n = 0,
                            !.size = 0, !.todo = 0, !.left = len, !.got = {}, !.doubt = {}]
        /\ last' = [last EXCEPT !.ser = @ + 1]
        /\ UNCHANGED <<io, statePage, pageLock, pageLost>>
    BY <1>3, <1>9
  <2> HIDE DEF ser, try, len
  <2>2. /\ xf'.who = xf.who /\ xf'.step = "start" /\ xf'.msgs = xf.msgs
        /\ xf'.msg = 1 /\ xf'.left = len /\ xf'.n = 0 /\ xf'.size = 0 /\ xf'.todo = 0
        /\ xf'.got = {}
    BY <1>4, <2>1 DEF XfType
  <2>3. /\ last'.ok = last.ok /\ last'.rd = last.rd /\ last'.doubt = last.doubt
        /\ last'.got = last.got /\ last'.asked = last.asked
    BY <1>1, <2>1 DEF I2cTypes, LastType
  <2>4. /\ CallersInv' /\ AccessIsOwn' /\ Call' = Call
        /\ Paging' <=> Paging
    BY <1>1, <1>2, <2>1, <2>2, <2>3, InnerStep
  <2>5. Msg'.len = len /\ len \in Nat \ {0}
    BY <1>5, <2>2 DEF Msg, len
  <2>6. CountInv'
    <3>1. /\ xf'.size <= xf'.left /\ xf'.size <= BlockBytes' /\ xf'.todo <= xf'.size
      BY <1>7, <2>2, <2>5
    <3>2. xf'.msg <= Len(xf'.msgs)
      <4> DEFINE l == Len(xf.msgs)
      <4>1. l \in {1, 2} /\ Len(xf'.msgs) = l /\ xf'.msg = 1
        BY <1>5, <2>2
      <4> HIDE DEF l
      <4>2. 1 <= l
        BY <4>1
      <4> QED
        BY <4>1, <4>2, Zenon
    <3>3. xf'.left \in 1 .. Msg'.len
      BY <2>2, <2>5
    <3> QED
      BY <2>2, <2>5, <3>1, <3>2, <3>3 DEF CountInv, Active
  <2>7. Len(bus'.tx) = 0 /\ Len(bus'.rx) = 0 /\ SentWords' = 0
    BY <1>6, <1>9, <2>2 DEF SentWords
  <2>8. ModeInv'
    BY <1>1, <1>2, <1>6, <1>7, <1>8, <2>1 DEF ModeInv
  <2>9. WaitInv'
    BY <2>2 DEF WaitInv
  <2>10. WriteInv'
    BY <1>5, <2>2, <2>7 DEF WriteInv
  <2>11. ReadInv'
    BY <2>2, <2>7 DEF ReadInv
  <2>12. PageInv'
    BY <1>1, <1>6, <2>1, <2>4 DEF PageInv
  <2> QED
    BY <2>4, <2>6, <2>8, <2>9, <2>10, <2>11, <2>12, I2cTypes' DEF I2cInv
<1>10. CASE ~(result = "ok" /\ xf.try < 2)
  <2>1. Return(FALSE)
    BY <1>3, <1>10
  <2>2. pageLock = xf.who /\ \A p \in Threads : p # xf.who => io[p].step = "idle"
    BY <1>1, <1>4, <1>5 DEF CallersInv, Call
  <2>3. /\ xf'.who = Nobody /\ xf'.step = "idle" /\ xf'.size = 0 /\ xf'.left = 0 /\ xf'.todo = 0
        /\ \A p \in Threads : p # xf.who => io'[p] = io[p]
        /\ io'[xf.who].step = "idle" /\ pageLock' = Nobody /\ statePage' = statePage
        /\ ~pageLost' => ~pageLost /\ (Call.step = "page" => device.page # Call.page)
        /\ Call.step = "page" => last' = last
    <3>1. xf' = NoXfer /\ \A p \in Threads : p # xf.who => io'[p] = io[p]
      BY <1>1, <1>4, <2>1, ReturnFacts
    <3>2. CASE Call.step = "page"
      <4>1. /\ pageLost' = (pageLost \/ device.page = Call.page) /\ statePage' = statePage
            /\ last' = last /\ io'[xf.who].step = "idle" /\ pageLock' = Nobody
        BY <1>1, <1>4, <2>1, <3>2, ReturnFacts
      <4>2. ~pageLost' => ~pageLost /\ device.page # Call.page
        BY <4>1, Zenon
      <4> QED
        BY <3>1, <4>1, <4>2 DEF NoXfer
    <3>3. CASE Call.step = "access"
      <4>1. /\ UNCHANGED <<statePage, pageLost>>
            /\ io'[xf.who].step = "idle" /\ pageLock' = Nobody
        BY <1>1, <1>4, <2>1, <3>3, ReturnFacts
      <4> QED
        BY <3>1, <3>3, <4>1 DEF NoXfer
    <3> QED
      BY <1>5, <3>2, <3>3
  <2>4. CallersInv'
    BY <1>1, <2>2, <2>3 DEF CallersInv
  <2>5. ModeInv'
    BY <1>1, <1>2, <1>5, <1>6, <1>7, <1>8, <2>3 DEF ModeInv
  <2>6. CountInv' /\ WaitInv' /\ WriteInv' /\ ReadInv'
    BY <1>7, <2>3 DEF CountInv, WaitInv, WriteInv, ReadInv, Active
  <2>7. PageInv'
    BY <1>1, <1>5, <1>6, <2>3 DEF PageInv, Paging
  <2>8. AccessIsOwn'
    <3>1. CASE Call.step = "page"
      BY <1>1, <2>3, <3>1 DEF AccessIsOwn
    <3>2. CASE Call.step = "access"
      <4>1. last'.ok = FALSE
        <5> DEFINE d == xf.doubt \cup (IF pageLost THEN {"page"} ELSE {})
                   a == {<<xf.ser, Call.page>>}
                   g == IF Call.rd THEN xf.got ELSE {device.done}
                   rd == Call.rd
        <5>1. last' = [last EXCEPT !.ok = FALSE, !.rd = rd, !.doubt = d, !.asked = a, !.got = g]
          BY <1>1, <1>4, <2>1, <3>2, ReturnFacts
        <5> HIDE DEF d, a, g, rd
        <5> QED
          BY <1>1, <5>1 DEF I2cTypes, LastType
      <4> QED
        BY <4>1 DEF AccessIsOwn
    <3> QED
      BY <1>5, <3>1, <3>2
  <2> QED
    BY <2>4, <2>5, <2>6, <2>7, <2>8, I2cTypes' DEF I2cInv
<1> QED
  BY <1>9, <1>10


\* Every step of the adapter keeps the invariant.
LEMMA I2cStep == I2cInv /\ [I2cNext]_i2cVars => I2cInv'
<1> SUFFICES ASSUME I2cInv, [I2cNext]_i2cVars PROVE I2cInv'
  OBVIOUS
<1>1. CASE I2cNext
  <2>1. I2cTypes'
    BY <1>1, I2cTypeStep DEF I2cInv
  <2>2. CASE \E p \in Threads : IoBegin(p) \/ XferBegin(p)
    BY <2>1, <2>2, IoBeginStep, XferBeginStep
  <2>3. CASE I2cIrqStart \/ I2cIrqClear \/ SendBuffered \/ SendPolled \/ SendReset \/ SendDone
    BY <2>1, <2>3, I2cIrqStartStep, I2cIrqClearStep, SendBufferedStep, SendPolledStep,
       SendResetStep, SendDoneStep
  <2>4. CASE WaitOk \/ WaitTimeout \/ Recv \/ NextBlock \/ XferDone \/ XferRetry
    BY <2>1, <2>4, WaitOkStep, WaitTimeoutStep, RecvStep, NextBlockStep, XferDoneStep,
       XferRetryStep
  <2>5. CASE BusSends \/ HandleI2cIrq
    BY <2>1, <2>5, BusSendsStep, HandleI2cIrqStep
  <2> QED
    BY <1>1, <2>2, <2>3, <2>4, <2>5 DEF I2cNext
<1>2. CASE UNCHANGED i2cVars
  <2>1. UNCHANGED <<i2c, xf, bus, device, statePage, io, pageLock, pageLost, last, i2cCalls,
                    faults>>
    BY <1>2 DEF i2cVars
  <2>2. I2cTypes'
    BY <2>1 DEF I2cInv, I2cTypes
  <2>3. /\ CallersInv' /\ ModeInv' /\ WriteInv' /\ ReadInv' /\ PageInv' /\ AccessIsOwn'
        /\ Msg' = Msg /\ Call' = Call /\ BlockBytes' = BlockBytes
        /\ Polling' <=> Polling
    BY <2>1, <2>2, StillWire DEF I2cInv, ModeInv, Active
  <2>4. CountInv' /\ WaitInv'
    BY <2>1, <2>3 DEF I2cInv, CountInv, WaitInv, Active
  <2> QED
    BY <2>2, <2>3, <2>4 DEF I2cInv
<1> QED
  BY <1>1, <1>2

\* The adapter starts idle, with empty FIFOs; a polled receiver's page is not known.
LEMMA I2cStart == I2cInit => I2cInv
<1> SUFFICES ASSUME I2cInit PROVE I2cInv
  OBVIOUS
<1> DEFINE page == CHOOSE p \in I2cPages : TRUE
<1>1. page \in I2cPages
  BY I2cPagesAssumption
<1>2. /\ device = [page |-> page, seen |-> None, done |-> <<0, page>>]
      /\ \E mode \in {"polling", "buffered"} :
           /\ i2c = [mode |-> mode, op |-> 0, irq |-> "none"]
           /\ statePage = IF mode = "polling" THEN Unset ELSE page
      /\ io = [p \in Threads |-> [step |-> "idle", page |-> page, rd |-> FALSE,
                                  len |-> 1]]
      /\ xf = NoXfer /\ bus = [tx |-> <<>>, rx |-> <<>>]
      /\ pageLock = Nobody /\ pageLost = FALSE
      /\ last = [ok |-> FALSE, rd |-> FALSE, ser |-> 0, asked |-> {}, got |-> {},
                 doubt |-> {}]
      /\ i2cCalls = 0 /\ faults = 0
  BY DEF I2cInit
<1> HIDE DEF page
<1>3. PICK mode \in {"polling", "buffered"} :
           /\ i2c = [mode |-> mode, op |-> 0, irq |-> "none"]
           /\ statePage = IF mode = "polling" THEN Unset ELSE page
  BY <1>2
<1>4. I2cTypes
  <2>1. i2c \in I2cType /\ device \in DevType
    BY <1>1, <1>2, <1>3, RestingXfer DEF I2cType, DevType, Stamps
  <2>2. xf \in XfType /\ bus \in BusType
    BY <1>2, RestingXfer DEF BusType, NoXferType
  <2>3. io \in IoType
    BY <1>1, <1>2 DEF IoType
  <2>4. last \in LastType
    BY <1>2 DEF LastType
  <2>5. pageLost \in BOOLEAN
    BY <1>2, Zenon
  <2>6. /\ statePage \in I2cPages \cup {Unset} /\ pageLock \in Threads \cup {Nobody}
        /\ i2cCalls \in 0 .. MaxI2cCalls /\ faults \in 0 .. MaxFaults
    BY <1>1, <1>2, <1>3, I2cBoundsAssumption
  <2> QED
    BY <2>1, <2>2, <2>3, <2>4, <2>5, <2>6 DEF I2cTypes
<1>5. xf.who = Nobody /\ xf.step = "idle" /\ xf.size = 0 /\ xf.left = 0 /\ xf.todo = 0
  BY <1>2 DEF NoXfer
<1>6. CallersInv
  BY <1>2, <1>5 DEF CallersInv
<1>7. ModeInv
  <2>1. statePage # Unset => device.page = statePage
    BY <1>2, <1>3
  <2>2. ~Polling => statePage # Unset
    BY <1>1, <1>3, I2cPagesAssumption DEF Polling, Unset
  <2>3. /\ bus.tx = <<>> /\ i2c.irq = "none" /\ \A p \in Threads : io[p].step = "idle"
    BY <1>2, <1>3
  <2> QED
    BY <2>1, <2>2, <2>3 DEF ModeInv
<1>8. CountInv /\ WaitInv /\ WriteInv /\ ReadInv
  <2>1. BlockBytes \in Nat
    BY BlockSizeAssumption DEF BlockBytes
  <2> QED
    BY <1>5, <2>1 DEF CountInv, WaitInv, WriteInv, ReadInv, Active
<1>9. PageInv
  BY <1>2, <1>3 DEF PageInv
<1>10. AccessIsOwn
  BY <1>2 DEF AccessIsOwn
<1> QED
  BY <1>4, <1>6, <1>7, <1>8, <1>9, <1>10 DEF I2cInv

\* An access reported as done was done, by its own last try and on the page that was
\* asked for, but for the exceptions AccessIsOwn names.
THEOREM AccessesOwn == I2cSpec => []AccessIsOwn
<1>1. I2cInv => AccessIsOwn
  BY DEF I2cInv
<1> QED
  BY <1>1, I2cStart, I2cStep, PTL DEF I2cSpec

-----------------------------------------------------------------------------
(* All drivers together.                                                   *)

\* A behaviour of all drivers is one of each: none writes the state of another.
\* What is proved of a driver alone is therefore true of all of them together.
THEOREM DriversApart ==
  Spec => CfgSpec /\ AlsaSpec /\ TsSpec /\ IrSpec
          /\ RxSpec /\ I2cSpec
<1>1. Init => CfgInit /\ AlsaInit /\ TsInit /\ IrInit /\ RxInit /\ I2cInit
  BY DEF Init
<1>2. ASSUME [Next]_driverVars
      PROVE  /\ [CfgNext]_cfgVars /\ [AlsaNext]_alsaVars /\ [TsNext]_tsVars
             /\ [IrNext]_irVars /\ [RxNext]_rxVars /\ [I2cNext]_i2cVars
  <2>1. CASE Next
    BY <2>1 DEF Next
  <2>2. CASE UNCHANGED driverVars
    BY <2>2 DEF driverVars
  <2> QED
    BY <1>2, <2>1, <2>2
<1> QED
  BY <1>1, <1>2, PTL DEF Spec, CfgSpec, AlsaSpec, TsSpec, IrSpec, RxSpec, I2cSpec

\* The invariants of the drivers taken together give every driver's types.
LEMMA AllTypes ==
  /\ AlsaInv => AlsaTypeOK
  /\ IrInv => IrTypeOK
  /\ CfgInv => CfgTypeOK
  /\ TsInv => TsTypeOK
  /\ RxInv => RxTypeOK
  /\ I2cInv => I2cTypeOK
<1>1. AlsaInv => AlsaTypeOK
  BY DEF AlsaInv
<1>2. IrInv => IrTypeOK
  BY DEF IrInv
<1>3. CfgInv => CfgTypeOK
  BY DEF CfgInv, CfgTypeInv
<1>4. TsInv => TsTypeOK
  BY DEF TsInv
<1>5. RxInv => RxTypeOK
  BY DEF RxInv, RxTypes
<1>6. ASSUME I2cInv PROVE I2cTypeOK
  <2>1. I2cTypes /\ CallersInv /\ CountInv
    BY <1>6 DEF I2cInv
  <2>2. xf.todo \in 0 .. SmallerOf(xf.left, BlockBytes)
    <3>1. xf.todo \in Nat /\ xf.left \in Nat /\ xf.size \in Nat /\ BlockBytes \in Nat
      BY <2>1, BlockSizeAssumption DEF I2cTypes, XfType, BlockBytes
    <3>2. xf.todo <= xf.left /\ xf.todo <= BlockBytes
      BY <2>1, <3>1 DEF CountInv
    <3> QED
      BY <3>1, <3>2 DEF SmallerOf
  <2>3. /\ xf.who \in Threads \cup {Nobody} /\ xf.try \in 0 .. 2
        /\ xf.step \in {"idle", "start", "clear", "send", "wait", "recv", "retry"}
        /\ xf.doubt \subseteq {"left", "woken", "cut"}
    BY <2>1 DEF I2cTypes, XfType, XfSteps
  <2>4. \A p \in Threads : io[p].step \in {"idle", "page", "access"}
                           /\ (io[p].step # "idle" => pageLock = p)
    BY <2>1 DEF I2cTypes, CallersInv, IoType
  <2> QED
    BY <2>1, <2>2, <2>3, <2>4 DEF I2cTypes, I2cTypeOK, I2cType, DevType
<1> QED
  BY <1>1, <1>2, <1>3, <1>4, <1>5, <1>6

\* Every driver's state keeps its types, whichever driver is in use: lengths,
\* cursors and FIFO contents stay within the buffers' bounds.
THEOREM TypesKept == Spec => []TypeOK
<1>1. Spec => [](inUse \in Drivers)
  <2>1. Init => inUse \in Drivers
    BY DEF Init
  <2>2. inUse \in Drivers /\ [Next]_driverVars => (inUse \in Drivers)'
    BY DEF Next, driverVars
  <2> QED
    BY <2>1, <2>2, PTL DEF Spec
<1>2. CfgSpec => []CfgInv
  BY CfgInvInit, CfgStep, PTL DEF CfgSpec
<1>3. AlsaSpec => []AlsaInv
  BY AlsaInvInit, AlsaStep, PTL DEF AlsaSpec
<1>4. TsSpec => []TsInv
  BY TsInitInv, TsStep, PTL DEF TsSpec
<1>5. IrSpec => []IrInv
  BY IrInvInit, IrStep, PTL DEF IrSpec
<1>6. RxSpec => []RxInv
  BY RxInductive, PTL DEF RxSpec
<1>7. I2cSpec => []I2cInv
  BY I2cStart, I2cStep, PTL DEF I2cSpec
<1>8. /\ inUse \in Drivers
      /\ CfgInv /\ AlsaInv /\ TsInv /\ IrInv /\ RxInv /\ I2cInv
      => TypeOK
  BY AllTypes DEF TypeOK
<1> QED
  BY <1>1, <1>2, <1>3, <1>4, <1>5, <1>6, <1>7, <1>8, DriversApart, PTL

\* Every driver of the card keeps its promises in every behaviour of them all: audio
\* capture, capture format, transport stream output, remote control, the I2C adapter
\* and the HDMI receiver.
THEOREM DriversCorrect ==
  Spec => /\ []PointerFollowsRing /\ []NoStuckKey
          /\ []EngineMatchesFormat /\ []ReceiverFollows
          /\ []StreamIntact /\ []NoLostKick /\ []AccessIsOwn
          /\ []FlagsTellNews /\ []MatrixWhole /\ []AnnouncedWhole
BY DriversApart, PointerInStep, KeysReleased, EngineWithinBuffers, ReceiverInStep,
   StreamWhole, KickNotLost, AccessesOwn, NewsTakenIn, ColoursInStep, EdidWhole, PTL

=============================================================================
