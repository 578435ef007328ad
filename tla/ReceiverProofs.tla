--------------------------- MODULE ReceiverProofs ---------------------------
(***************************************************************************)
(* Theorems about the HDMI receiver driver, for every set of timings, EDIDs*)
(* and infoframes and every bound on the calls. What a thread has left of  *)
(* a call is always the rest of one of the driver's programs (Control);    *)
(* what is true of the chip and the driver at each step of a program is    *)
(* said by FlagsInv, ColourInv and EdidInv.                                *)
(***************************************************************************)
EXTENDS HdmiReceiver, SequenceTheorems, TLAPS

-----------------------------------------------------------------------------
(* Programs: the step a thread is at, and what may follow it.              *)

CscNames  == {"null", "choose", "conv", "test", "bypass", "matrix", "coef", "dead"}
IsrNames  == {"lock", "status", "clear", "checkPort", "avi", "parse", "unlock"}
EdidNames == {"forget", "cancel", "low", "edid", "store", "enable"}
StepNames == CscNames \cup IsrNames \cup EdidNames
               \cup {"match", "timings", "vhref", "range", "high", "core"}

Stored   == RxEdids \cup {"builtin"}
Args     == {"-", 1, 2, "NULL"} \cup Convs \cup RxTimings \cup Ranges \cup Stored
              \cup RxFrames \cup {"rgbfull"}
StepType == (StepNames \X Args) \cup ({"edid"} \X {1, 2} \X Stored)

Release  == <<Do("unlock")>>

\* The steps that are part of a call.
Belongs(op, n) ==
  \/ op \in {"timings", "ctrl", "isr", "probe"} /\ n \in CscNames
  \/ op = "timings" /\ n \in {"match", "lock", "timings", "vhref", "unlock"}
  \/ op \in {"isr", "probe"} /\ n \in IsrNames
  \/ op \in {"ctrl", "probe"} /\ n = "range"
  \/ op = "probe" /\ n \in {"high", "core"}
  \/ op = "edid" /\ n \in EdidNames

\* What may follow configure_csc() in a call.
Ends(op) == IF op = "ctrl" THEN {<<>>}
            ELSE IF op = "probe" THEN {Isr, Release} ELSE {Release}

CscFits(op, h, rest) ==
  /\ h[1] \in {"choose", "test", "bypass"} => rest \in Ends(op)
  /\ h[1] = "null"   => \E k \in Ends(op) : rest = <<Do("choose")>> \o k
  /\ h[1] = "conv"   => rest \in Ends(op) /\ h[2] \in Convs \cup {"NULL"}
  /\ h[1] = "matrix" => \E k \in Ends(op) : rest = <<<<"coef", 1>>, <<"coef", 2>>>> \o k
  /\ h[1] = "coef"   => \E k \in Ends(op) : \/ h[2] = 1 /\ rest = <<<<"coef", 2>>>> \o k
                                            \/ h[2] = 2 /\ rest = k
  /\ h[1] = "dead"   => rest = <<>>

TimingsFits(op, h, rest) ==
  /\ h[1] = "match"   => h[2] \in RxTimings /\ rest = <<>>
  /\ h[1] = "lock" /\ op = "timings" => \E v \in RxTimings : rest = Tail(SetTimings(v))
  /\ h[1] = "timings" => h[2] \in RxTimings /\ rest = <<Do("vhref")>> \o Csc \o Release
  /\ h[1] = "vhref"   => rest = Csc \o Release
  /\ h[1] = "range"   => h[2] \in Ranges /\ \E k \in Ends(op) : rest = Csc \o k
  /\ h[1] = "unlock"  => rest = <<>>

IsrFits(op, h, rest) ==
  /\ h[1] = "lock" /\ op # "timings" => rest = Tail(Isr)
  /\ h[1] = "status"    => rest = <<Do("clear"), Do("checkPort"), Do("avi"), Do("unlock")>>
  /\ h[1] = "clear"     => rest = <<Do("checkPort"), Do("avi"), Do("unlock")>>
  /\ h[1] = "checkPort" => rest = <<Do("avi"), Do("unlock")>>
  /\ h[1] = "avi"       => rest = Release
  /\ h[1] = "parse"     => rest = Release /\ h[2] \in RxFrames \cup {"rgbfull"}
  /\ h[1] = "high"      => rest = Tail(Probe)
  /\ h[1] = "core"      => rest = SetRange("auto") \o Isr

EdidFits(op, h, rest) ==
  /\ h[1] = "forget" => rest = <<Do("cancel"), Do("low")>>
  /\ h[1] = "cancel" => rest = <<Do("low")>> \/ \E e \in Stored : rest = Tail(SetEdid(e))
  /\ h[1] = "low"    => rest = <<>> \/ \E e \in Stored : rest = Tail(Tail(SetEdid(e)))
  /\ h[1] = "edid"   =>
       /\ h[3] \in Stored
       /\ \/ h[2] = 1 /\ rest = <<<<"edid", 2, h[3]>>, <<"store", h[3]>>, Do("enable")>>
          \/ h[2] = 2 /\ rest = <<<<"store", h[3]>>, Do("enable")>>
  /\ h[1] = "store"  => h[2] \in Stored /\ rest = <<Do("enable")>>
  /\ h[1] = "enable" => rest = <<>>

\* A thread in call op that is at step h may have "rest" left after it.
Fits(op, h, rest) ==
  /\ Belongs(op, h[1])
  /\ CscFits(op, h, rest) /\ TimingsFits(op, h, rest)
  /\ IsrFits(op, h, rest) /\ EdidFits(op, h, rest)

\* The calls of the probing thread, stage by stage.
OpsAt(stage) == CASE stage = "new"    -> {"none"}
                  [] stage = "probed" -> {"none", "probe"}
                  [] stage = "edid"   -> {"none", "edid"}
                  [] stage = "done"   -> {"none", "timings"}

\* Each thread is in one of its calls, at a step of it; before the driver is up
\* there is the probe alone.
Control ==
  /\ rxTodo \in [RxThreads -> Seq(StepType)] /\ rxOp \in [RxThreads -> RxOps]
  /\ \A t \in RxThreads : rxOp[t] = "none" <=> Idle(t)
  /\ \A t \in RxThreads : ~Idle(t) => Fits(rxOp[t], Head(rxTodo[t]), Tail(rxTodo[t]))
  /\ rxStage \in {"new", "probed", "edid", "done"} /\ rxOp["init"] \in OpsAt(rxStage)
  /\ rxOp["ioctl"] \in {"none", "timings", "ctrl", "edid"}
  /\ rxOp["irq"] \in {"none", "isr"}
  /\ rx.up <=> rxStage \in {"edid", "done"}
  /\ ~rx.up => rxOp["ioctl"] = "none" /\ rxOp["irq"] = "none"

\* The step thread t is at.
Name(t) == IF Idle(t) THEN "idle" ELSE Head(rxTodo[t])[1]

-----------------------------------------------------------------------------
(* Going on.                                                               *)

\* A sequence begins with the step put before it.
LEMMA Chained ==
  ASSUME NEW h \in StepType, NEW k \in Seq(StepType)
  PROVE  /\ Head(<<h>> \o k) = h /\ Tail(<<h>> \o k) = k /\ <<h>> \o k # <<>>
         /\ <<h>> \o k \in Seq(StepType) /\ <<>> \o k = k
OBVIOUS

\* The steps there are.
LEMMA StepTypes ==
  /\ \A n \in StepNames : Do(n) \in StepType
  /\ \A n \in StepNames, a \in Args : <<n, a>> \in StepType
  /\ \A i \in {1, 2}, e \in Stored : <<"edid", i, e>> \in StepType
BY DEF StepType, Do, Args

\* The ends of a call are sequences.
LEMMA EndTypes ==
  ASSUME NEW op, NEW k \in Ends(op)
  PROVE  k \in Seq(StepType)
<1>1. /\ Do("unlock") \in StepType /\ Do("lock") \in StepType /\ Do("status") \in StepType
      /\ Do("clear") \in StepType /\ Do("checkPort") \in StepType /\ Do("avi") \in StepType
  BY StepTypes DEF StepNames, IsrNames
<1>2. <<>> \in Seq(StepType) /\ Release \in Seq(StepType) /\ Isr \in Seq(StepType)
  BY <1>1 DEF Release, Isr
<1> QED
  BY <1>2 DEF Ends

\* What a thread that goes on leaves as it is, and what it has left itself.
LEMMA Advance ==
  ASSUME Control, NEW t \in RxThreads, NEW more \in Seq(StepType), ~Idle(t), GoOn(t, more)
  PROVE  /\ rxTodo'[t] = more \o Tail(rxTodo[t])
         /\ Tail(rxTodo[t]) \in Seq(StepType)
         /\ rxTodo' \in [RxThreads -> Seq(StepType)]
         /\ rxOp'[t] = IF rxTodo'[t] = <<>> THEN "none" ELSE rxOp[t]
         /\ rxOp' \in [RxThreads -> RxOps]
         /\ \A u \in RxThreads : u # t => rxTodo'[u] = rxTodo[u] /\ rxOp'[u] = rxOp[u]
         /\ UNCHANGED <<rxStage, rxUsed, rxRaced>>
<1>1. Tail(rxTodo[t]) \in Seq(StepType)
  BY HeadTailProperties DEF Control, Idle
<1>2. more \o Tail(rxTodo[t]) \in Seq(StepType)
  BY <1>1, ConcatProperties
<1>3. /\ rxTodo'[t] = more \o Tail(rxTodo[t])
      /\ \A u \in RxThreads : u # t => rxTodo'[u] = rxTodo[u] /\ rxOp'[u] = rxOp[u]
      /\ rxTodo' \in [RxThreads -> Seq(StepType)]
      /\ UNCHANGED <<rxStage, rxUsed, rxRaced>>
  BY <1>2 DEF GoOn, Control
<1>4. /\ rxOp'[t] = IF rxTodo'[t] = <<>> THEN "none" ELSE rxOp[t]
      /\ rxOp' \in [RxThreads -> RxOps]
  BY <1>3 DEF GoOn, Control, RxOps
<1> QED
  BY <1>1, <1>3, <1>4

\* Control is kept by a thread that goes on to a step that fits.
LEMMA ControlKept ==
  ASSUME Control, NEW t \in RxThreads, rx'.up = rx.up, rxStage' = rxStage,
         rxTodo' \in [RxThreads -> Seq(StepType)], rxOp' \in [RxThreads -> RxOps],
         rxOp[t] # "none",
         rxOp'[t] = IF rxTodo'[t] = <<>> THEN "none" ELSE rxOp[t],
         rxTodo'[t] # <<>> => Fits(rxOp[t], Head(rxTodo'[t]), Tail(rxTodo'[t])),
         \A u \in RxThreads : u # t => rxTodo'[u] = rxTodo[u] /\ rxOp'[u] = rxOp[u]
  PROVE  Control'
<1>1. \A u \in RxThreads : rxOp'[u] = "none" <=> rxTodo'[u] = <<>>
  BY DEF Control, Idle
<1>2. \A u \in RxThreads : rxTodo'[u] # <<>> =>
        Fits(rxOp'[u], Head(rxTodo'[u]), Tail(rxTodo'[u]))
  BY DEF Control, Idle
<1>3. \A u \in RxThreads : rxOp'[u] \in {rxOp[u], "none"}
  OBVIOUS
<1>4. rxOp'["init"] \in OpsAt(rxStage')
  BY <1>3 DEF Control, OpsAt, RxThreads
<1>5. /\ rxOp'["ioctl"] \in {"none", "timings", "ctrl", "edid"}
      /\ rxOp'["irq"] \in {"none", "isr"}
      /\ rx'.up <=> rxStage' \in {"edid", "done"}
      /\ ~rx'.up => rxOp'["ioctl"] = "none" /\ rxOp'["irq"] = "none"
      /\ rxStage' \in {"new", "probed", "edid", "done"}
  BY <1>3 DEF Control, RxThreads
<1> QED
  BY <1>1, <1>2, <1>4, <1>5 DEF Control, Idle

\* What thread t has left when it goes on with "more".
Left(t, more) == more \o Tail(rxTodo[t])

\* A thread goes on to a step that fits, or its call ends.
LEMMA GoTo ==
  ASSUME Control, NEW t \in RxThreads, NEW more \in Seq(StepType), ~Idle(t), GoOn(t, more),
         rx'.up = rx.up,
         Left(t, more) # <<>> =>
           Fits(rxOp[t], Head(Left(t, more)), Tail(Left(t, more)))
  PROVE  /\ Control' /\ rxTodo'[t] = Left(t, more)
         /\ Left(t, more) # <<>> => rxOp'[t] = rxOp[t]
<1>1. rxTodo'[t] = Left(t, more)
  BY Advance DEF Left
<1>2. rxOp[t] # "none"
  BY DEF Control
<1> QED
  BY <1>1, <1>2, Advance, ControlKept

-----------------------------------------------------------------------------
(* Where each step leads.                                                  *)

ColourOps == {"timings", "ctrl", "isr", "probe"}

\* The steps of configure_csc() fit in a call that converts colours.
LEMMA CscSteps ==
  ASSUME NEW op \in ColourOps, NEW k \in Ends(op)
  PROVE  /\ Fits(op, Do("null"), <<Do("choose")>> \o k)
         /\ Fits(op, Do("choose"), k)
         /\ \A c \in Convs \cup {"NULL"} : Fits(op, <<"conv", c>>, k)
         /\ Fits(op, Do("test"), k) /\ Fits(op, Do("bypass"), k)
         /\ Fits(op, Do("matrix"), <<<<"coef", 1>>, <<"coef", 2>>>> \o k)
         /\ Fits(op, <<"coef", 1>>, <<<<"coef", 2>>>> \o k)
         /\ Fits(op, <<"coef", 2>>, k)
         /\ Fits(op, Do("dead"), <<>>)
<1> USE DEF Fits, Belongs, CscNames, IsrNames, EdidNames, CscFits, TimingsFits, IsrFits,
            EdidFits, Do, ColourOps
<1>1. Fits(op, Do("null"), <<Do("choose")>> \o k)
  OBVIOUS
<1>2. Fits(op, Do("choose"), k)
  OBVIOUS
<1>3. \A c \in Convs \cup {"NULL"} : Fits(op, <<"conv", c>>, k)
  OBVIOUS
<1>4. Fits(op, Do("test"), k) /\ Fits(op, Do("bypass"), k)
  OBVIOUS
<1>5. Fits(op, Do("matrix"), <<<<"coef", 1>>, <<"coef", 2>>>> \o k)
  OBVIOUS
<1>6. Fits(op, <<"coef", 1>>, <<<<"coef", 2>>>> \o k) /\ Fits(op, <<"coef", 2>>, k)
  OBVIOUS
<1>7. Fits(op, Do("dead"), <<>>)
  OBVIOUS
<1> QED
  BY <1>1, <1>2, <1>3, <1>4, <1>5, <1>6, <1>7, ZenonT(60)

\* The step a thread is at.
LEMMA Here ==
  ASSUME Control, NEW t \in RxThreads
  PROVE  /\ ~Idle(t) => Fits(rxOp[t], Head(rxTodo[t]), Tail(rxTodo[t]))
         /\ \A n : At(t, n) => ~Idle(t) /\ Name(t) = n /\ Head(rxTodo[t])[1] = n
         /\ Tail(rxTodo[t]) \in Ends(rxOp[t]) => <<>> \o Tail(rxTodo[t]) = Tail(rxTodo[t])
         /\ ~Idle(t) => Tail(rxTodo[t]) \in Seq(StepType)
                        /\ <<>> \o Tail(rxTodo[t]) = Tail(rxTodo[t])
<1>1. ~Idle(t) => Tail(rxTodo[t]) \in Seq(StepType)
  BY HeadTailProperties DEF Control, Idle
<1> QED
  BY <1>1, EndTypes, ConcatEmptySeq DEF Control, At, Name

\* A thread that goes on without more comes to the end of its call, to the unlock
\* or, in the probe, to the interrupt handler.
Over(t) == Name(t) \in {"idle", "unlock", "lock"} /\ (Name(t) = "lock" => rxOp[t] = "probe")

\* A thread with nothing more of configure_csc() to do is over it.
LEMMA GoEnd ==
  ASSUME Control, NEW t \in RxThreads, ~Idle(t), GoOn(t, <<>>), rx'.up = rx.up,
         rxOp[t] \in ColourOps, Tail(rxTodo[t]) \in Ends(rxOp[t])
  PROVE  Control' /\ Over(t)'
<1> USE DEF Over, Name, Idle
<1>1. <<>> \in Seq(StepType) /\ Left(t, <<>>) = Tail(rxTodo[t])
  BY Here DEF Left
<1>2. /\ Release # <<>> /\ Head(Release) = Do("unlock") /\ Tail(Release) = <<>>
      /\ Isr # <<>> /\ Head(Isr) = Do("lock")
      /\ Do("unlock")[1] = "unlock" /\ Do("lock")[1] = "lock"
  BY DEF Release, Isr, Do
<1> USE DEF Fits, Belongs, CscNames, IsrNames, EdidNames, CscFits, TimingsFits, IsrFits,
            EdidFits, ColourOps
<1>3. CASE Tail(rxTodo[t]) = <<>>
  BY <1>1, <1>3, GoTo
<1>4. CASE Tail(rxTodo[t]) = Release
  <2>1. rxOp[t] # "ctrl"
    BY <1>2, <1>4 DEF Ends
  <2>2. Fits(rxOp[t], Head(Release), Tail(Release))
    BY <1>2, <2>1
  <2> HIDE DEF Fits
  <2>3. Control' /\ rxTodo'[t] = Release
    BY <1>1, <1>4, <2>2, GoTo
  <2> QED
    BY <1>2, <2>3
<1>5. CASE Tail(rxTodo[t]) = Isr /\ rxOp[t] = "probe"
  <2>1. Fits(rxOp[t], Head(Isr), Tail(Isr))
    BY <1>2, <1>5
  <2> HIDE DEF Fits
  <2>2. Control' /\ rxTodo'[t] = Isr /\ rxOp'[t] = rxOp[t]
    BY <1>1, <1>2, <1>5, <2>1, GoTo
  <2> QED
    BY <1>2, <1>5, <2>2
<1> QED
  BY <1>3, <1>4, <1>5 DEF Ends

\* Thread t goes on to its next step, which has that name.
Goes(t, name) == Control' /\ Name(t)' = name /\ rxOp'[t] = rxOp[t]

\* A thread goes on to the first of the steps it has left.
LEMMA GoNext ==
  ASSUME Control, NEW t \in RxThreads, NEW more \in Seq(StepType), ~Idle(t), GoOn(t, more),
         rx'.up = rx.up, Left(t, more) # <<>>,
         Fits(rxOp[t], Head(Left(t, more)), Tail(Left(t, more)))
  PROVE  /\ Goes(t, Head(Left(t, more))[1]) /\ Arg(t)' = Head(Left(t, more))[2]
         /\ rxTodo'[t] = Left(t, more)
<1>1. Control' /\ rxTodo'[t] = Left(t, more) /\ rxOp'[t] = rxOp[t]
  BY GoTo
<1> QED
  BY <1>1 DEF Goes, Name, Idle, Arg

\* A thread goes along its program, or does first what it is given.
LEMMA GoAlong ==
  ASSUME Control, NEW t \in RxThreads, ~Idle(t), GoOn(t, <<>>), rx'.up = rx.up,
         Tail(rxTodo[t]) # <<>>,
         Fits(rxOp[t], Head(Tail(rxTodo[t])), Tail(Tail(rxTodo[t])))
  PROVE  /\ Goes(t, Head(Tail(rxTodo[t]))[1]) /\ Arg(t)' = Head(Tail(rxTodo[t]))[2]
         /\ rxTodo'[t] = Tail(rxTodo[t])
<1>1. Left(t, <<>>) = Tail(rxTodo[t]) /\ <<>> \in Seq(StepType)
  BY Here DEF Left
<1> QED
  BY <1>1, GoNext

\* A thread does first the step it is given, then the rest.
LEMMA GoFirst ==
  ASSUME Control, NEW t \in RxThreads, ~Idle(t), rx'.up = rx.up,
         NEW h \in StepType, GoOn(t, <<h>>), Fits(rxOp[t], h, Tail(rxTodo[t]))
  PROVE  /\ Goes(t, h[1]) /\ Arg(t)' = h[2] /\ Head(rxTodo'[t]) = h
         /\ Tail(rxTodo'[t]) = Tail(rxTodo[t])
<1>1. Tail(rxTodo[t]) \in Seq(StepType) /\ <<h>> \in Seq(StepType)
  BY Here
<1>2. /\ Left(t, <<h>>) # <<>> /\ Head(Left(t, <<h>>)) = h
      /\ Tail(Left(t, <<h>>)) = Tail(rxTodo[t])
  BY <1>1, Chained DEF Left
<1> QED
  BY <1>1, <1>2, GoNext

\* The name and the argument of a step.
LEMMA DoNames == \A n : Do(n)[1] = n /\ Do(n)[2] = "-"
BY DEF Do

\* configure_csc() goes on step by step to what follows it.
LEMMA CscMoves ==
  ASSUME Control, NEW t \in RxThreads
  PROVE  /\ StoreRange(t) => Goes(t, "null")
         /\ ClearConv(t) => Goes(t, "choose")
         /\ ChooseConv(t) => Goes(t, "conv") /\ Arg(t)' = Choice(rx.col)
         /\ StoreConv(t) => Goes(t, "test")
         /\ TestConv(t) => Goes(t, IF rx.conv = "NULL" THEN "bypass" ELSE "matrix")
         /\ WriteBypass(t) => IF At(t, "bypass") THEN Control' /\ Over(t)'
                              ELSE Goes(t, "coef") /\ Arg(t)' = 1
         /\ WriteCoef(t) =>
              \/ rx.conv = "NULL" /\ Goes(t, "dead")
              \/ rx.conv # "NULL" /\ Arg(t) = 1 /\ Goes(t, "coef") /\ Arg(t)' = 2
              \/ rx.conv # "NULL" /\ Arg(t) = 2 /\ Control' /\ Over(t)'
<1> DEFINE op == rxOp[t]
           rest == Tail(rxTodo[t])
<1>1. \A n : At(t, n) => ~Idle(t) /\ Name(t) = n /\ Head(rxTodo[t])[1] = n
                        /\ Fits(op, Head(rxTodo[t]), rest) /\ <<>> \o rest = rest
                        /\ rest \in Seq(StepType)
  BY Here
<1>2. \A n \in CscNames \cup {"range"} : At(t, n) => op \in ColourOps
  BY <1>1 DEF Fits, Belongs, CscNames, IsrNames, EdidNames, ColourOps
<1>3. /\ \A n \in {"choose", "test", "bypass", "conv"} : At(t, n) => rest \in Ends(op)
      /\ At(t, "null") => \E k \in Ends(op) : rest = <<Do("choose")>> \o k
      /\ At(t, "matrix") =>
           \E k \in Ends(op) : rest = <<<<"coef", 1>>, <<"coef", 2>>>> \o k
      /\ At(t, "coef") => \E k \in Ends(op) : \/ Arg(t) = 1 /\ rest = <<<<"coef", 2>>>> \o k
                                              \/ Arg(t) = 2 /\ rest = k
      /\ At(t, "range") => \E k \in Ends(op) : rest = Csc \o k
  BY <1>1 DEF Fits, CscFits, TimingsFits, Arg
<1>4. <<>> \in Seq(StepType)
  OBVIOUS
<1>5. \A k \in Ends(op) : k \in Seq(StepType)
  BY EndTypes
<1>6. /\ \A n \in CscNames : Do(n) \in StepType /\ Do(n)[1] = n
      /\ \A i \in {1, 2} : <<"coef", i>> \in StepType
      /\ \A c \in Convs \cup {"NULL"} : <<"conv", c>> \in StepType
  BY StepTypes DEF StepNames, CscNames, Args, Do
<1>7. /\ Do("null") \in StepType /\ Do("choose") \in StepType /\ Do("test") \in StepType
      /\ Do("bypass") \in StepType /\ Do("matrix") \in StepType /\ Do("dead") \in StepType
      /\ <<"coef", 1>> \in StepType /\ <<"coef", 2>> \in StepType
  BY <1>6 DEF CscNames
<1>8. ASSUME StoreRange(t) PROVE Goes(t, "null")
  <2>1. At(t, "range") /\ GoOn(t, <<>>) /\ rx'.up = rx.up
    BY <1>8 DEF StoreRange
  <2>2. PICK k \in Ends(op) : rest = Csc \o k
    BY <1>3, <2>1
  <2>3. Csc \o k # <<>> /\ Head(Csc \o k) = Do("null") /\ Tail(Csc \o k) = <<Do("choose")>> \o k
    BY <1>5, <1>7 DEF Csc
  <2>4. ~Idle(t) /\ op \in ColourOps
    BY <1>1, <1>2, <2>1
  <2>5. Fits(op, Do("null"), <<Do("choose")>> \o k)
    BY <2>4, CscSteps
  <2>6. rest # <<>> /\ Fits(op, Head(rest), Tail(rest)) /\ Head(rest)[1] = "null"
    BY <2>2, <2>3, <2>5, DoNames
  <2> QED
    BY <2>1, <2>4, <2>6, GoAlong
<1>9. ASSUME ClearConv(t) PROVE Goes(t, "choose")
  <2>1. At(t, "null") /\ GoOn(t, <<>>) /\ rx'.up = rx.up
    BY <1>9 DEF ClearConv
  <2>2. PICK k \in Ends(op) : rest = <<Do("choose")>> \o k
    BY <1>3, <2>1
  <2>3. /\ <<Do("choose")>> \o k # <<>> /\ Head(<<Do("choose")>> \o k) = Do("choose")
        /\ Tail(<<Do("choose")>> \o k) = k
    BY <1>5, <1>7, Chained
  <2>4. ~Idle(t) /\ op \in ColourOps
    BY <1>1, <1>2, <2>1 DEF CscNames
  <2>5. Fits(op, Do("choose"), k)
    BY <2>4, CscSteps
  <2>6. rest # <<>> /\ Fits(op, Head(rest), Tail(rest)) /\ Head(rest)[1] = "choose"
    BY <2>2, <2>3, <2>5, DoNames
  <2> QED
    BY <2>1, <2>4, <2>6, GoAlong
<1>10. ASSUME ChooseConv(t) PROVE Goes(t, "conv") /\ Arg(t)' = Choice(rx.col)
  <2>1. At(t, "choose") /\ GoOn(t, <<<<"conv", Choice(rx.col)>>>>) /\ rx'.up = rx.up
    BY <1>10 DEF ChooseConv
  <2>2. Choice(rx.col) \in Convs \cup {"NULL"}
    BY DEF Choice, Convs
  <2>3. ~Idle(t) /\ op \in ColourOps /\ rest \in Ends(op)
        /\ <<"conv", Choice(rx.col)>> \in StepType
    BY <1>1, <1>2, <1>3, <1>6, <2>1, <2>2 DEF CscNames
  <2>4. Fits(op, <<"conv", Choice(rx.col)>>, rest)
    BY <2>2, <2>3, CscSteps
  <2> QED
    BY <2>1, <2>3, <2>4, GoFirst
<1>11. ASSUME StoreConv(t) PROVE Goes(t, "test")
  <2>1. At(t, "conv") /\ GoOn(t, <<Do("test")>>)
    BY <1>11 DEF StoreConv
  <2>2. rx'.up = rx.up
    <3>1. rx' = rx \/ rx' = [rx EXCEPT !.conv = Arg(t)]
      BY <1>11 DEF StoreConv
    <3>2. CASE rx' = [rx EXCEPT !.conv = Arg(t)]
      BY <3>2
    <3> QED
      BY <3>1, <3>2
  <2>3. ~Idle(t) /\ op \in ColourOps /\ rest \in Ends(op)
    BY <1>1, <1>2, <1>3, <2>1 DEF CscNames
  <2>4. Fits(op, Do("test"), rest)
    BY <2>3, CscSteps
  <2> QED
    BY <1>7, <2>1, <2>2, <2>3, <2>4, GoFirst, DoNames
<1>12. ASSUME TestConv(t)
       PROVE  Goes(t, IF rx.conv = "NULL" THEN "bypass" ELSE "matrix")
  <2>1. At(t, "test") /\ GoOn(t, CscWrites(rx.conv)) /\ rx'.up = rx.up
    BY <1>12 DEF TestConv
  <2>2. ~Idle(t) /\ rest \in Ends(op) /\ op \in ColourOps /\ rest \in Seq(StepType)
    BY <1>1, <1>2, <1>3, <2>1 DEF CscNames
  <2>3. CASE rx.conv = "NULL"
    <3>1. GoOn(t, <<Do("bypass")>>) /\ Fits(op, Do("bypass"), rest)
      BY <2>1, <2>2, <2>3, CscSteps DEF CscWrites
    <3> QED
      BY <1>7, <2>1, <2>2, <2>3, <3>1, GoFirst, DoNames
  <2>4. CASE rx.conv # "NULL"
    <3> DEFINE more == <<Do("matrix"), <<"coef", 1>>, <<"coef", 2>>>>
               more2 == <<<<"coef", 1>>, <<"coef", 2>>>>
    <3>1. GoOn(t, more) /\ Fits(op, Do("matrix"), more2 \o rest)
      BY <2>1, <2>2, <2>4, CscSteps DEF CscWrites
    <3>2. /\ more \in Seq(StepType) /\ more \o rest # <<>>
          /\ Head(more \o rest) = Do("matrix") /\ Tail(more \o rest) = more2 \o rest
      BY <1>7, <2>2, SMTT(30)
    <3> HIDE DEF more, more2
    <3>3. Goes(t, Do("matrix")[1])
      BY <2>1, <2>2, <3>1, <3>2, GoNext DEF Left
    <3> QED
      BY <2>4, <3>3, DoNames
  <2> QED
    BY <2>3, <2>4
<1>13. ASSUME WriteBypass(t)
       PROVE  IF At(t, "bypass") THEN Control' /\ Over(t)' ELSE Goes(t, "coef") /\ Arg(t)' = 1
  <2>1. At(t, "bypass") \/ At(t, "matrix")
    BY <1>13 DEF WriteBypass
  <2>2. GoOn(t, <<>>) /\ rx'.up = rx.up /\ ~Idle(t)
    BY <1>1, <1>13, <2>1 DEF WriteBypass
  <2>3. CASE At(t, "bypass")
    <3>1. rest \in Ends(op) /\ op \in ColourOps
      BY <1>2, <1>3, <2>3 DEF CscNames
    <3> QED
      BY <2>2, <2>3, <3>1, GoEnd
  <2>4. CASE ~At(t, "bypass")
    <3> DEFINE more2 == <<<<"coef", 1>>, <<"coef", 2>>>>
    <3>1. PICK k \in Ends(op) : rest = more2 \o k
      BY <1>3, <2>1, <2>4
    <3>2. /\ more2 \o k # <<>> /\ Head(more2 \o k) = <<"coef", 1>>
          /\ Tail(more2 \o k) = <<<<"coef", 2>>>> \o k
      BY <1>5, <1>7
    <3>3. Fits(op, <<"coef", 1>>, <<<<"coef", 2>>>> \o k)
      BY <1>2, <2>1, <2>4, CscSteps DEF CscNames
    <3>4. ~Idle(t) /\ rest # <<>> /\ Head(rest) = <<"coef", 1>>
          /\ Fits(op, Head(rest), Tail(rest))
      BY <2>2, <3>1, <3>2, <3>3
    <3>5. Goes(t, Head(rest)[1]) /\ Arg(t)' = Head(rest)[2]
      BY <2>2, <3>4, GoAlong
    <3> QED
      BY <2>4, <3>4, <3>5
  <2> QED
    BY <2>3, <2>4
<1>14. ASSUME WriteCoef(t)
       PROVE  \/ rx.conv = "NULL" /\ Goes(t, "dead")
              \/ rx.conv # "NULL" /\ Arg(t) = 1 /\ Goes(t, "coef") /\ Arg(t)' = 2
              \/ rx.conv # "NULL" /\ Arg(t) = 2 /\ Control' /\ Over(t)'
  <2>1. At(t, "coef") /\ rx' = rx
    BY <1>14 DEF WriteCoef
  <2>2. ~Idle(t) /\ op \in ColourOps /\ op # "none"
    BY <1>1, <1>2, <2>1 DEF CscNames, ColourOps
  <2>3. CASE rx.conv = "NULL"
    <3> DEFINE dead == <<Do("dead")>>
    <3>1. rxTodo' = [rxTodo EXCEPT ![t] = dead] /\ UNCHANGED <<rxOp, rxStage>>
      BY <1>14, <2>3 DEF WriteCoef
    <3>2. /\ dead \in Seq(StepType) /\ dead # <<>> /\ Head(dead) = Do("dead")
          /\ Tail(dead) = <<>>
      BY <1>7
    <3> HIDE DEF dead
    <3>3. /\ rxTodo' \in [RxThreads -> Seq(StepType)] /\ rxTodo'[t] = dead
          /\ \A u \in RxThreads : u # t => rxTodo'[u] = rxTodo[u]
      BY <3>1, <3>2 DEF Control
    <3>4. Fits(op, Head(dead), Tail(dead))
      <4>1. PICK k \in Ends(op) : TRUE
        BY DEF Ends
      <4> QED
        BY <2>2, <3>2, <4>1, CscSteps
    <3>5. rxOp' \in [RxThreads -> RxOps] /\ rxOp'[t] = op
      BY <3>1 DEF Control
    <3>6. Control'
      BY <2>1, <2>2, <3>1, <3>2, <3>3, <3>4, <3>5, ControlKept
    <3> QED
      BY <2>3, <3>2, <3>3, <3>5, <3>6, DoNames DEF Goes, Name, Idle
  <2>4. CASE rx.conv # "NULL"
    <3>1. GoOn(t, <<>>)
      BY <1>14, <2>4 DEF WriteCoef
    <3>2. PICK k \in Ends(op) : \/ Arg(t) = 1 /\ rest = <<<<"coef", 2>>>> \o k
                                \/ Arg(t) = 2 /\ rest = k
      <4>1. Fits(op, Head(rxTodo[t]), rest) /\ Head(rxTodo[t])[1] = "coef"
        BY <1>1, <2>1
      <4> QED
        BY <4>1 DEF Fits, CscFits, Arg
    <3>3. CASE Arg(t) = 2 /\ rest = k
      BY <2>1, <2>2, <2>4, <3>1, <3>3, GoEnd
    <3>4. CASE Arg(t) = 1 /\ rest = <<<<"coef", 2>>>> \o k
      <4>1. /\ <<<<"coef", 2>>>> \o k # <<>> /\ Head(<<<<"coef", 2>>>> \o k) = <<"coef", 2>>
            /\ Tail(<<<<"coef", 2>>>> \o k) = k
        BY <1>5, <1>7, Chained
      <4>2. Fits(op, <<"coef", 2>>, k)
        BY <2>2, CscSteps
      <4>3. rest # <<>> /\ Head(rest) = <<"coef", 2>> /\ Fits(op, Head(rest), Tail(rest))
        BY <3>4, <4>1, <4>2
      <4>4. Goes(t, Head(rest)[1]) /\ Arg(t)' = Head(rest)[2]
        BY <2>1, <2>2, <3>1, <4>3, GoAlong
      <4> QED
        BY <2>4, <3>4, <4>3, <4>4
    <3> QED
      BY <3>2, <3>3, <3>4
  <2> QED
    BY <2>3, <2>4
<1> QED
  BY <1>8, <1>9, <1>10, <1>11, <1>12, <1>13, <1>14

\* Thread t's call is over.
Ended(t) == Control' /\ Name(t)' = "idle" /\ rxOp'[t] = "none"

\* A thread with nothing left ends its call.
LEMMA GoneHome ==
  ASSUME Control, NEW t \in RxThreads, ~Idle(t), GoOn(t, <<>>), rx'.up = rx.up,
         Tail(rxTodo[t]) = <<>>
  PROVE  Ended(t)
<1>1. Left(t, <<>>) = <<>> /\ <<>> \in Seq(StepType)
  BY Here DEF Left
<1>2. Control' /\ rxTodo'[t] = <<>>
  BY <1>1, GoTo
<1> QED
  BY <1>2 DEF Ended, Control, Name, Idle

\* s_dv_timings() goes on to its timings once it has the lock, and ends when it
\* gives it back.
LEMMA TimingsMoves ==
  ASSUME Control, NEW t \in RxThreads
  PROVE  /\ Lock(t) => Goes(t, IF rxOp[t] = "timings" THEN "timings" ELSE "status")
         /\ Unlock(t) => Ended(t)
         /\ Match(t) => Ended(t) \/ (Goes(t, "lock") /\ rxOp[t] = "timings")
         /\ StoreTimings(t) => Goes(t, "vhref")
         /\ ConfigureVhref(t) => Goes(t, "null")
<1> DEFINE op == rxOp[t]
           rest == Tail(rxTodo[t])
<1>1. \A n : At(t, n) => ~Idle(t) /\ Name(t) = n /\ Head(rxTodo[t])[1] = n
                        /\ Fits(op, Head(rxTodo[t]), rest)
  BY Here
<1> USE DEF Belongs, CscNames, IsrNames, EdidNames
<1>2. /\ Do("null") \in StepType /\ Do("choose") \in StepType /\ Do("unlock") \in StepType
      /\ Do("vhref") \in StepType /\ Do("lock") \in StepType
      /\ \A v \in RxTimings : <<"timings", v>> \in StepType /\ <<"timings", v>>[1] = "timings"
                              /\ <<"timings", v>>[2] = v
  BY StepTypes DEF StepNames, Args
<1>3. ASSUME NEW v \in RxTimings, op = "timings"
      PROVE  Fits(op, <<"timings", v>>, <<Do("vhref")>> \o Csc \o Release)
  BY <1>3 DEF Fits, CscFits, TimingsFits, IsrFits, EdidFits
<1>4. ASSUME op = "timings"
      PROVE  Fits(op, Do("vhref"), Csc \o Release)
  BY <1>4, DoNames DEF Fits, CscFits, TimingsFits, IsrFits, EdidFits
<1>5. ASSUME op = "timings"
      PROVE  Fits(op, Do("null"), <<Do("choose")>> \o Release)
  BY <1>5, CscSteps DEF Ends, ColourOps
<1>6. ASSUME op \in {"isr", "probe"}
      PROVE  Fits(op, Do("status"), <<Do("clear"), Do("checkPort"), Do("avi"), Do("unlock")>>)
  BY <1>6, DoNames DEF Fits, CscFits, TimingsFits, IsrFits, EdidFits
<1>7. /\ Tail(Isr) # <<>> /\ Head(Tail(Isr)) = Do("status")
      /\ Tail(Tail(Isr)) = <<Do("clear"), Do("checkPort"), Do("avi"), Do("unlock")>>
  BY DEF Isr
<1>8. Csc \o Release # <<>> /\ Head(Csc \o Release) = Do("null")
      /\ Tail(Csc \o Release) = <<Do("choose")>> \o Release
  BY <1>2 DEF Csc, Release
<1>9. /\ <<Do("vhref")>> \o Csc \o Release # <<>>
      /\ Head(<<Do("vhref")>> \o Csc \o Release) = Do("vhref")
      /\ Tail(<<Do("vhref")>> \o Csc \o Release) = Csc \o Release
  BY <1>2 DEF Csc, Release
<1>10. ASSUME NEW v \in RxTimings
       PROVE  /\ Tail(SetTimings(v)) # <<>> /\ Head(Tail(SetTimings(v))) = <<"timings", v>>
              /\ Tail(Tail(SetTimings(v))) = <<Do("vhref")>> \o Csc \o Release
              /\ Head(SetTimings(v)) = Do("lock") /\ SetTimings(v) # <<>>
              /\ SetTimings(v) \in Seq(StepType)
  BY <1>2 DEF SetTimings, Csc, Release
<1>11. ASSUME Lock(t) PROVE Goes(t, IF op = "timings" THEN "timings" ELSE "status")
  <2>1. At(t, "lock") /\ GoOn(t, <<>>) /\ rx'.up = rx.up
    BY <1>11 DEF Lock
  <2>2. ~Idle(t) /\ Fits(op, Head(rxTodo[t]), rest) /\ Head(rxTodo[t])[1] = "lock"
    BY <1>1, <2>1
  <2>3. CASE op = "timings"
    <3>1. PICK v \in RxTimings : rest = Tail(SetTimings(v))
      BY <2>2, <2>3 DEF Fits, TimingsFits
    <3>2. rest # <<>> /\ Fits(op, Head(rest), Tail(rest)) /\ Head(rest)[1] = "timings"
      BY <1>2, <1>3, <1>10, <2>3, <3>1, ZenonT(60)
    <3> QED
      BY <2>1, <2>2, <2>3, <3>2, GoAlong
  <2>4. CASE op # "timings"
    <3>1. op \in {"isr", "probe"}
      BY <2>2, <2>4 DEF Fits
    <3>2. rest = Tail(Isr)
      BY <2>2, <2>4 DEF Fits, IsrFits
    <3>3. rest # <<>> /\ Fits(op, Head(rest), Tail(rest)) /\ Head(rest)[1] = "status"
      BY <1>6, <1>7, <3>1, <3>2, DoNames
    <3> QED
      BY <2>1, <2>2, <2>4, <3>3, GoAlong
  <2> QED
    BY <2>3, <2>4
<1>12. ASSUME Unlock(t) PROVE Ended(t)
  <2>1. At(t, "unlock") /\ GoOn(t, <<>>) /\ rx'.up = rx.up
    BY <1>12 DEF Unlock
  <2>2. ~Idle(t) /\ rest = <<>>
    BY <1>1, <2>1 DEF Fits, TimingsFits
  <2> QED
    BY <2>1, <2>2, GoneHome
<1>13. ASSUME Match(t) PROVE Ended(t) \/ (Goes(t, "lock") /\ op = "timings")
  <2>1. At(t, "match") /\ rx'.up = rx.up
    BY <1>13 DEF Match
  <2>2. ~Idle(t) /\ rest = <<>> /\ Arg(t) \in RxTimings /\ op = "timings"
    BY <1>1, <2>1 DEF Fits, TimingsFits, Arg
  <2>3. CASE rx.timings = Arg(t)
    <3>1. GoOn(t, <<>>)
      BY <1>13, <2>3 DEF Match
    <3> QED
      BY <2>1, <2>2, <3>1, GoneHome
  <2>4. CASE rx.timings # Arg(t)
    <3> DEFINE more == SetTimings(Arg(t))
    <3>1. GoOn(t, more)
      BY <1>13, <2>4 DEF Match
    <3>2. Left(t, more) = more /\ more \in Seq(StepType)
      BY <1>10, <2>2, ConcatEmptySeq DEF Left
    <3>3. Fits(op, Do("lock"), Tail(more))
      <4>1. Head(SetTimings(Arg(t))) = Do("lock")
        BY <1>10, <2>2
      <4> QED
        BY <2>2, <4>1, DoNames DEF Fits, CscFits, TimingsFits, IsrFits, EdidFits
    <3>4. more # <<>> /\ Head(more) = Do("lock")
      BY <1>10, <2>2
    <3> HIDE DEF more
    <3>5. Goes(t, Do("lock")[1])
      BY <2>1, <2>2, <3>1, <3>2, <3>3, <3>4, GoNext
    <3> QED
      BY <2>2, <3>5, DoNames
  <2> QED
    BY <2>3, <2>4
<1>14. ASSUME StoreTimings(t) PROVE Goes(t, "vhref")
  <2>1. At(t, "timings") /\ GoOn(t, <<>>) /\ rx'.up = rx.up
    BY <1>14 DEF StoreTimings
  <2>2. ~Idle(t) /\ rest = <<Do("vhref")>> \o Csc \o Release /\ op = "timings"
    BY <1>1, <2>1, SMTT(30) DEF Fits, TimingsFits
  <2>3. rest # <<>> /\ Fits(op, Head(rest), Tail(rest)) /\ Head(rest)[1] = "vhref"
    BY <1>4, <1>9, <2>2, DoNames
  <2> QED
    BY <2>1, <2>2, <2>3, GoAlong
<1>15. ASSUME ConfigureVhref(t) PROVE Goes(t, "null")
  <2>1. At(t, "vhref") /\ GoOn(t, <<>>) /\ rx'.up = rx.up
    BY <1>15 DEF ConfigureVhref
  <2>2. ~Idle(t) /\ rest = Csc \o Release /\ op = "timings"
    <3>1. ~Idle(t) /\ Head(rxTodo[t])[1] = "vhref" /\ Fits(op, Head(rxTodo[t]), rest)
      BY <1>1, <2>1
    <3>2. op = "timings"
      BY <3>1 DEF Fits
    <3> QED
      BY <3>1, <3>2 DEF Fits, TimingsFits
  <2>3. rest # <<>> /\ Fits(op, Head(rest), Tail(rest)) /\ Head(rest)[1] = "null"
    BY <1>5, <1>8, <2>2, DoNames
  <2> QED
    BY <2>1, <2>2, <2>3, GoAlong
<1> QED
  BY <1>11, <1>12, <1>13, <1>14, <1>15

\* The probe raises hot plug, resets the chip, sets the range; the interrupt handler
\* reads and clears the flags before it reads what they told.
LEMMA IsrMoves ==
  ASSUME Control, NEW t \in RxThreads, chip.avi \in RxFrames \cup {"rgbfull"}
  PROVE  /\ ReadStatus(t) => Goes(t, "clear")
         /\ ClearStatus(t) => Goes(t, "checkPort")
         /\ CheckPort(t) => Goes(t, "avi")
         /\ ReadAvi(t) => IF "avi" \in rx.status
                          THEN Goes(t, "parse") /\ Arg(t)' = chip.avi ELSE Goes(t, "unlock")
         /\ ParseAvi(t) =>
              \/ /\ rx' = [rx EXCEPT !.avi = Arg(t), !.col = Colorimetry(Arg(t), rx.range)]
                 /\ Goes(t, "null")
              \/ "avi" \in chip.flags /\ rx' = rx /\ Goes(t, "unlock")
         /\ HighAtProbe(t) => Goes(t, "core")
         /\ CoreInit(t) => Goes(t, "range")
<1> DEFINE op == rxOp[t]
           rest == Tail(rxTodo[t])
<1>1. \A n : At(t, n) => ~Idle(t) /\ Head(rxTodo[t])[1] = n /\ Fits(op, Head(rxTodo[t]), rest)
  BY Here
<1> USE DEF Belongs, CscNames, IsrNames, EdidNames
<1>2. /\ Do("null") \in StepType /\ Do("choose") \in StepType /\ Do("unlock") \in StepType
      /\ <<"range", "auto">> \in StepType /\ Do("core") \in StepType /\ Do("high") \in StepType
      /\ \A n \in IsrNames : Do(n) \in StepType
      /\ \A f \in RxFrames \cup {"rgbfull"} : <<"parse", f>> \in StepType
  BY StepTypes DEF StepNames, Args, Ranges
<1>3. \A n \in {"status", "clear", "checkPort", "avi"} : At(t, n) => op \in {"isr", "probe"}
  BY <1>1 DEF Fits
<1> DEFINE after(n) == CASE n = "status"    -> <<Do("clear"), Do("checkPort"), Do("avi"),
                                                Do("unlock")>>
                         [] n = "clear"     -> <<Do("checkPort"), Do("avi"), Do("unlock")>>
                         [] n = "checkPort" -> <<Do("avi"), Do("unlock")>>
                         [] n = "avi"       -> Release
<1>4. /\ \A n \in {"status", "clear", "checkPort", "avi"} : At(t, n) => rest = after(n)
  BY <1>1 DEF Fits, IsrFits
<1>5. /\ after("status") # <<>> /\ Head(after("status")) = Do("clear")
      /\ Tail(after("status")) = after("clear")
      /\ after("clear") # <<>> /\ Head(after("clear")) = Do("checkPort")
      /\ Tail(after("clear")) = after("checkPort")
      /\ after("checkPort") # <<>> /\ Head(after("checkPort")) = Do("avi")
      /\ Tail(after("checkPort")) = Release /\ after("avi") = Release
      /\ Release # <<>> /\ Head(Release) = Do("unlock") /\ Tail(Release) = <<>>
  BY DEF Release
<1>6. ASSUME op \in {"isr", "probe"}
      PROVE  /\ Fits(op, Do("clear"), after("clear"))
             /\ Fits(op, Do("checkPort"), after("checkPort"))
             /\ Fits(op, Do("avi"), Release)
             /\ Fits(op, Do("unlock"), <<>>)
             /\ \A f \in RxFrames \cup {"rgbfull"} : Fits(op, <<"parse", f>>, Release)
  BY <1>6, DoNames, ZenonT(60) DEF Fits, CscFits, TimingsFits, IsrFits, EdidFits
<1> HIDE DEF after
<1>7. ASSUME ReadStatus(t) PROVE Goes(t, "clear")
  <2>1. At(t, "status") /\ GoOn(t, <<>>) /\ rx'.up = rx.up
    BY <1>7 DEF ReadStatus
  <2>2. ~Idle(t) /\ rest # <<>> /\ Fits(op, Head(rest), Tail(rest)) /\ Head(rest)[1] = "clear"
    BY <1>1, <1>3, <1>4, <1>5, <1>6, <2>1, DoNames, ZenonT(60)
  <2> QED
    BY <2>1, <2>2, GoAlong
<1>8. ASSUME ClearStatus(t) PROVE Goes(t, "checkPort")
  <2>1. At(t, "clear") /\ GoOn(t, <<>>) /\ rx'.up = rx.up
    BY <1>8 DEF ClearStatus
  <2>2. /\ ~Idle(t) /\ rest # <<>> /\ Fits(op, Head(rest), Tail(rest))
        /\ Head(rest)[1] = "checkPort"
    BY <1>1, <1>3, <1>4, <1>5, <1>6, <2>1, DoNames, ZenonT(60)
  <2> QED
    BY <2>1, <2>2, GoAlong
<1>9. ASSUME CheckPort(t) PROVE Goes(t, "avi")
  <2>1. At(t, "checkPort") /\ GoOn(t, <<>>)
    BY <1>9 DEF CheckPort
  <2>2. rx'.up = rx.up
    <3>1. CASE rx' = rx
      BY <3>1
    <3>2. CASE rx' = [rx EXCEPT !.port = chip.port]
      BY <3>2
    <3> QED
      BY <1>9, <3>1, <3>2 DEF CheckPort
  <2>3. ~Idle(t) /\ rest # <<>> /\ Fits(op, Head(rest), Tail(rest)) /\ Head(rest)[1] = "avi"
    BY <1>1, <1>3, <1>4, <1>5, <1>6, <2>1, DoNames
  <2> QED
    BY <2>1, <2>2, <2>3, GoAlong
<1>10. ASSUME ReadAvi(t)
       PROVE  IF "avi" \in rx.status THEN Goes(t, "parse") /\ Arg(t)' = chip.avi
              ELSE Goes(t, "unlock")
  <2>1. At(t, "avi") /\ rx'.up = rx.up
    BY <1>10 DEF ReadAvi
  <2>2. ~Idle(t) /\ rest = Release /\ op \in {"isr", "probe"}
    BY <1>1, <1>3, <1>4, <1>5, <2>1
  <2>3. CASE "avi" \in rx.status
    <3>1. GoOn(t, <<<<"parse", chip.avi>>>>) /\ <<"parse", chip.avi>> \in StepType
      BY <1>2, <1>10, <2>3 DEF ReadAvi
    <3>2. Fits(op, <<"parse", chip.avi>>, rest)
      BY <1>6, <2>2
    <3> QED
      BY <2>1, <2>2, <2>3, <3>1, <3>2, GoFirst
  <2>4. CASE "avi" \notin rx.status
    <3>1. GoOn(t, <<>>)
      BY <1>10, <2>4 DEF ReadAvi
    <3>2. rest # <<>> /\ Fits(op, Head(rest), Tail(rest)) /\ Head(rest)[1] = "unlock"
      BY <1>5, <1>6, <2>2, DoNames
    <3> QED
      BY <2>1, <2>2, <2>4, <3>1, <3>2, GoAlong
  <2> QED
    BY <2>3, <2>4
<1>11. ASSUME ParseAvi(t)
       PROVE  \/ /\ rx' = [rx EXCEPT !.avi = Arg(t), !.col = Colorimetry(Arg(t), rx.range)]
                 /\ Goes(t, "null")
              \/ "avi" \in chip.flags /\ rx' = rx /\ Goes(t, "unlock")
  <2>1. At(t, "parse")
    BY <1>11 DEF ParseAvi
  <2>2. ~Idle(t) /\ rest = Release /\ op \in {"isr", "probe"}
    BY <1>1, <2>1 DEF Fits, IsrFits
  <2>3. CASE "avi" \in chip.flags /\ rx' = rx /\ GoOn(t, <<>>)
    <3>1. rest # <<>> /\ Fits(op, Head(rest), Tail(rest)) /\ Head(rest)[1] = "unlock"
      BY <1>5, <1>6, <2>2, DoNames
    <3> QED
      BY <2>2, <2>3, <3>1, GoAlong
  <2>4. CASE /\ rx' = [rx EXCEPT !.avi = Arg(t), !.col = Colorimetry(Arg(t), rx.range)]
             /\ GoOn(t, Csc)
    <3>1. rx'.up = rx.up
      BY <2>4
    <3>2. Csc \in Seq(StepType)
      BY <1>2 DEF Csc
    <3>6. Left(t, Csc) = Csc \o Release
      BY <2>2 DEF Left
    <3>3. Csc \o Release # <<>> /\ Head(Csc \o Release) = Do("null")
          /\ Tail(Csc \o Release) = <<Do("choose")>> \o Release
      BY <1>2 DEF Csc, Release
    <3>4. Fits(op, Do("null"), <<Do("choose")>> \o Release)
      BY <2>2, CscSteps DEF Ends, ColourOps
    <3>5. Goes(t, Do("null")[1])
      BY <2>2, <2>4, <3>1, <3>2, <3>3, <3>4, <3>6, GoNext
    <3> QED
      BY <2>4, <3>5, DoNames
  <2> QED
    BY <1>11, <2>3, <2>4 DEF ParseAvi
<1>12. ASSUME HighAtProbe(t) PROVE Goes(t, "core")
  <2>1. At(t, "high") /\ GoOn(t, <<>>) /\ rx'.up = rx.up
    BY <1>12 DEF HighAtProbe
  <2>2. ~Idle(t) /\ rest = Tail(Probe)
    BY <1>1, <2>1 DEF Fits, IsrFits
  <2>3. op = "probe"
    BY <1>1, <2>1 DEF Fits
  <2>4. Tail(Probe) # <<>> /\ Head(Tail(Probe)) = Do("core")
        /\ Tail(Tail(Probe)) = SetRange("auto") \o Isr
    BY <1>2 DEF Probe, SetRange, Isr, Csc
  <2>5. Fits(op, Do("core"), SetRange("auto") \o Isr)
    BY <2>3, DoNames DEF Fits, CscFits, TimingsFits, IsrFits, EdidFits
  <2>6. rest # <<>> /\ Fits(op, Head(rest), Tail(rest)) /\ Head(rest)[1] = "core"
    BY <2>2, <2>4, <2>5, DoNames
  <2> QED
    BY <2>1, <2>2, <2>6, GoAlong
<1>13. ASSUME CoreInit(t) PROVE Goes(t, "range")
  <2>1. At(t, "core") /\ GoOn(t, <<>>) /\ rx'.up = rx.up
    BY <1>13 DEF CoreInit
  <2>2. ~Idle(t) /\ rest = SetRange("auto") \o Isr
    BY <1>1, <2>1 DEF Fits, IsrFits
  <2>3. op = "probe"
    BY <1>1, <2>1 DEF Fits
  <2> DEFINE r == SetRange("auto") \o Isr
  <2>4. r # <<>> /\ Head(r) = <<"range", "auto">> /\ Tail(r) = Csc \o Isr
    BY <1>2 DEF SetRange, Isr, Csc
  <2>5. Fits(op, <<"range", "auto">>, Csc \o Isr)
    BY <2>3 DEF Fits, CscFits, TimingsFits, IsrFits, EdidFits, Ends, Ranges
  <2>6. rest = r /\ <<"range", "auto">>[1] = "range"
    BY <2>2
  <2> HIDE DEF r
  <2>7. rest # <<>> /\ Fits(op, Head(rest), Tail(rest)) /\ Head(rest)[1] = "range"
    BY <2>4, <2>5, <2>6
  <2> QED
    BY <2>1, <2>2, <2>7, GoAlong
<1> QED
  BY <1>7, <1>8, <1>9, <1>10, <1>11, <1>12, <1>13

\* The call of thread t withdraws the EDID: hot plug is lowered, and that is all.
Withdraws(t) == IF Name(t) = "cancel" THEN Tail(Tail(rxTodo[t])) = <<>>
                ELSE Tail(rxTodo[t]) = <<>>

\* set_edid() cancels the delayed work, lowers hot plug, writes and stores an EDID
\* if there is one, and schedules the delayed work.
LEMMA EdidMoves ==
  ASSUME Control, NEW t \in RxThreads
  PROVE  /\ ForgetEdid(t) => Goes(t, "cancel") /\ Withdraws(t)'
         /\ CancelHpd(t) => Goes(t, "low") /\ (Withdraws(t)' <=> Withdraws(t))
         /\ LowerHpd(t) => IF Withdraws(t) THEN Ended(t) ELSE Goes(t, "edid") /\ Arg(t)' = 1
         /\ WriteEdid(t) =>
              \/ /\ Arg(t) = 1 /\ Goes(t, "edid") /\ Arg(t)' = 2
                 /\ Head(rxTodo'[t])[3] = Head(rxTodo[t])[3]
              \/ Arg(t) = 2 /\ Goes(t, "store") /\ Arg(t)' = Head(rxTodo[t])[3]
         /\ StoreEdid(t) => Goes(t, "enable")
         /\ EnableEdid(t) => Ended(t)
<1> DEFINE op == rxOp[t]
           rest == Tail(rxTodo[t])
<1>1. \A n : At(t, n) => /\ ~Idle(t) /\ Head(rxTodo[t])[1] = n /\ Name(t) = n
                        /\ Fits(op, Head(rxTodo[t]), rest)
  BY Here
<1> USE DEF Belongs, CscNames, IsrNames, EdidNames
<1>2. /\ Do("low") \in StepType /\ Do("enable") \in StepType
      /\ \A i \in {1, 2}, e \in Stored : <<"edid", i, e>> \in StepType
      /\ \A e \in Stored : <<"store", e>> \in StepType
  BY StepTypes DEF StepNames, Args
<1>3. \A n \in EdidNames : At(t, n) => op = "edid"
  BY <1>1 DEF Fits
<1> DEFINE written(e) == <<<<"edid", 1, e>>, <<"edid", 2, e>>, <<"store", e>>, Do("enable")>>
           second(e)  == <<<<"edid", 2, e>>, <<"store", e>>, Do("enable")>>
           third(e)   == <<<<"store", e>>, Do("enable")>>
           lowered(e) == <<Do("low"), <<"edid", 1, e>>, <<"edid", 2, e>>, <<"store", e>>,
                           Do("enable")>>
           last1      == <<Do("enable")>>
           low1       == <<Do("low")>>
           forgot     == <<Do("cancel"), Do("low")>>
<1>4. \A e \in Stored : Tail(SetEdid(e)) = lowered(e)
  BY RxEdidsAssumption DEF SetEdid, Stored
<1>5. \A e \in Stored : lowered(e) # <<>> /\ Head(lowered(e)) = Do("low")
                       /\ Tail(lowered(e)) = written(e)
  OBVIOUS
<1>6. \A e \in Stored : /\ written(e) # <<>> /\ Head(written(e)) = <<"edid", 1, e>>
                       /\ Tail(written(e)) = second(e)
  OBVIOUS
<1>7. \A e \in Stored : /\ second(e) # <<>> /\ Head(second(e)) = <<"edid", 2, e>>
                       /\ Tail(second(e)) = third(e)
  OBVIOUS
<1>8. \A e \in Stored : /\ third(e) # <<>> /\ Head(third(e)) = <<"store", e>>
                       /\ Tail(third(e)) = last1
  OBVIOUS
<1>9. /\ last1 # <<>> /\ Head(last1) = Do("enable") /\ Tail(last1) = <<>>
      /\ low1 # <<>> /\ Head(low1) = Do("low") /\ Tail(low1) = <<>>
      /\ forgot # <<>> /\ Head(forgot) = Do("cancel") /\ Tail(forgot) = low1
  OBVIOUS
<1>10. /\ At(t, "forget") => rest = forgot
       /\ At(t, "cancel") => rest = low1 \/ \E e \in Stored : rest = lowered(e)
       /\ At(t, "low") => rest = <<>> \/ \E e \in Stored : rest = written(e)
       /\ At(t, "edid") => /\ Head(rxTodo[t])[3] \in Stored
                          /\ \/ Arg(t) = 1 /\ rest = second(Head(rxTodo[t])[3])
                             \/ Arg(t) = 2 /\ rest = third(Head(rxTodo[t])[3])
       /\ At(t, "store") => rest = last1 /\ Arg(t) \in Stored
       /\ At(t, "enable") => rest = <<>>
  <2>1. At(t, "cancel") => rest = low1 \/ \E e \in Stored : rest = lowered(e)
    BY <1>1, <1>4 DEF Fits, EdidFits
  <2>2. At(t, "low") => rest = <<>> \/ \E e \in Stored : rest = written(e)
    <3>1. \A e \in Stored : Tail(Tail(SetEdid(e))) = written(e)
      BY <1>4, <1>5
    <3>2. At(t, "low") => rest = <<>> \/ \E e \in Stored : rest = Tail(Tail(SetEdid(e)))
      BY <1>1 DEF Fits, EdidFits
    <3> QED
      BY <3>1, <3>2
  <2>3. At(t, "edid") => /\ Head(rxTodo[t])[3] \in Stored
                         /\ \/ Arg(t) = 1 /\ rest = second(Head(rxTodo[t])[3])
                            \/ Arg(t) = 2 /\ rest = third(Head(rxTodo[t])[3])
    BY <1>1 DEF Fits, EdidFits, Arg
  <2>4. /\ At(t, "forget") => rest = forgot
        /\ At(t, "store") => rest = last1 /\ Arg(t) \in Stored
        /\ At(t, "enable") => rest = <<>>
    BY <1>1 DEF Fits, EdidFits, Arg
  <2> QED
    BY <2>1, <2>2, <2>3, <2>4
<1>11. ASSUME op = "edid", NEW e \in Stored
       PROVE  /\ Fits(op, Do("cancel"), low1) /\ Fits(op, Do("low"), <<>>)
              /\ Fits(op, Do("low"), written(e))
              /\ Fits(op, <<"edid", 1, e>>, second(e)) /\ Fits(op, <<"edid", 2, e>>, third(e))
              /\ Fits(op, <<"store", e>>, last1) /\ Fits(op, Do("enable"), <<>>)
  <2>1. \A e2 \in Stored : Tail(Tail(SetEdid(e2))) = written(e2)
    BY <1>4, <1>5
  <2>2. Fits(op, Do("cancel"), low1) /\ Fits(op, Do("low"), <<>>)
        /\ Fits(op, Do("low"), written(e))
    BY <1>11, <2>1, DoNames DEF Fits, CscFits, TimingsFits, IsrFits, EdidFits
  <2>3. Fits(op, <<"edid", 1, e>>, second(e)) /\ Fits(op, <<"edid", 2, e>>, third(e))
    BY <1>11 DEF Fits, CscFits, TimingsFits, IsrFits, EdidFits
  <2>4. Fits(op, <<"store", e>>, last1) /\ Fits(op, Do("enable"), <<>>)
    BY <1>11, DoNames DEF Fits, CscFits, TimingsFits, IsrFits, EdidFits
  <2> QED
    BY <2>2, <2>3, <2>4
<1> HIDE DEF written, second, third, lowered, last1, low1, forgot
<1>12. ASSUME ForgetEdid(t) PROVE Goes(t, "cancel") /\ Withdraws(t)'
  <2>1. At(t, "forget") /\ GoOn(t, <<>>) /\ rx'.up = rx.up
    BY <1>12 DEF ForgetEdid
  <2>2. ~Idle(t) /\ rest = forgot /\ op = "edid"
    BY <1>1, <1>3, <1>10, <2>1
  <2>3. rest # <<>> /\ Fits(op, Head(rest), Tail(rest)) /\ Head(rest)[1] = "cancel"
    BY <1>9, <1>11, <2>2, DoNames DEF Stored
  <2>4. Goes(t, "cancel") /\ rxTodo'[t] = rest
    BY <2>1, <2>2, <2>3, GoAlong
  <2>5. Tail(Tail(rest)) = <<>>
    BY <1>9, <2>2
  <2> QED
    BY <2>4, <2>5 DEF Withdraws, Goes
<1>13. ASSUME CancelHpd(t) PROVE Goes(t, "low") /\ (Withdraws(t)' <=> Withdraws(t))
  <2>1. At(t, "cancel") /\ GoOn(t, <<>>) /\ rx'.up = rx.up
    BY <1>13 DEF CancelHpd
  <2>2. ~Idle(t) /\ op = "edid" /\ Name(t) = "cancel"
    BY <1>1, <1>3, <2>1
  <2>3. rest # <<>> /\ Fits(op, Head(rest), Tail(rest)) /\ Head(rest)[1] = "low"
    <3>1. CASE rest = low1
      BY <1>9, <1>11, <2>2, <3>1, DoNames DEF Stored
    <3>2. CASE \E e \in Stored : rest = lowered(e)
      BY <1>5, <1>11, <2>2, <3>2, DoNames
    <3> QED
      BY <1>10, <2>1, <3>1, <3>2
  <2>4. Goes(t, "low") /\ rxTodo'[t] = rest
    BY <2>1, <2>2, <2>3, GoAlong
  <2> QED
    BY <2>2, <2>4 DEF Withdraws, Goes
<1>14. ASSUME LowerHpd(t)
       PROVE  IF Withdraws(t) THEN Ended(t) ELSE Goes(t, "edid") /\ Arg(t)' = 1
  <2>1. At(t, "low") /\ GoOn(t, <<>>) /\ rx'.up = rx.up
    BY <1>14 DEF LowerHpd
  <2>2. ~Idle(t) /\ op = "edid" /\ (Withdraws(t) <=> rest = <<>>)
    BY <1>1, <1>3, <2>1 DEF Withdraws
  <2>3. CASE rest = <<>>
    BY <2>1, <2>2, <2>3, GoneHome
  <2>4. CASE rest # <<>>
    <3>1. PICK e \in Stored : rest = written(e)
      BY <1>10, <2>1, <2>4
    <3>2. Fits(op, Head(rest), Tail(rest)) /\ Head(rest) = <<"edid", 1, e>>
      BY <1>6, <1>11, <2>2, <3>1
    <3>3. Goes(t, Head(rest)[1]) /\ Arg(t)' = Head(rest)[2]
      BY <2>1, <2>2, <2>4, <3>2, GoAlong
    <3> QED
      BY <2>2, <2>4, <3>2, <3>3
  <2> QED
    BY <2>3, <2>4
<1>15. ASSUME WriteEdid(t)
       PROVE  \/ /\ Arg(t) = 1 /\ Goes(t, "edid") /\ Arg(t)' = 2
                 /\ Head(rxTodo'[t])[3] = Head(rxTodo[t])[3]
              \/ Arg(t) = 2 /\ Goes(t, "store") /\ Arg(t)' = Head(rxTodo[t])[3]
  <2>1. At(t, "edid") /\ GoOn(t, <<>>) /\ rx'.up = rx.up
    BY <1>15 DEF WriteEdid
  <2> DEFINE e == Head(rxTodo[t])[3]
  <2>2. ~Idle(t) /\ op = "edid" /\ e \in Stored
    BY <1>1, <1>3, <1>10, <2>1
  <2>3. CASE Arg(t) = 1 /\ rest = second(e)
    <3>1. rest # <<>> /\ Fits(op, Head(rest), Tail(rest)) /\ Head(rest) = <<"edid", 2, e>>
      BY <1>7, <1>11, <2>2, <2>3
    <3>2. Goes(t, Head(rest)[1]) /\ Arg(t)' = Head(rest)[2] /\ rxTodo'[t] = rest
      BY <2>1, <2>2, <3>1, GoAlong
    <3> QED
      BY <2>3, <3>1, <3>2
  <2>4. CASE Arg(t) = 2 /\ rest = third(e)
    <3>1. rest # <<>> /\ Fits(op, Head(rest), Tail(rest)) /\ Head(rest) = <<"store", e>>
      BY <1>8, <1>11, <2>2, <2>4
    <3>2. Goes(t, Head(rest)[1]) /\ Arg(t)' = Head(rest)[2]
      BY <2>1, <2>2, <3>1, GoAlong
    <3> QED
      BY <2>4, <3>1, <3>2
  <2> QED
    BY <1>10, <2>1, <2>3, <2>4
<1>16. ASSUME StoreEdid(t) PROVE Goes(t, "enable")
  <2>1. At(t, "store") /\ GoOn(t, <<>>) /\ rx'.up = rx.up
    BY <1>16 DEF StoreEdid
  <2>2. ~Idle(t) /\ rest = last1 /\ op = "edid"
    BY <1>1, <1>3, <1>10, <2>1
  <2>3. rest # <<>> /\ Fits(op, Head(rest), Tail(rest)) /\ Head(rest)[1] = "enable"
    BY <1>9, <1>11, <2>2, DoNames DEF Stored
  <2> QED
    BY <2>1, <2>2, <2>3, GoAlong
<1>17. ASSUME EnableEdid(t) PROVE Ended(t)
  <2>1. At(t, "enable") /\ GoOn(t, <<>>) /\ rx'.up = rx.up
    BY <1>17 DEF EnableEdid
  <2>2. ~Idle(t) /\ rest = <<>>
    BY <1>1, <1>10, <2>1
  <2> QED
    BY <2>1, <2>2, GoneHome
<1> QED
  BY <1>12, <1>13, <1>14, <1>15, <1>16, <1>17

-----------------------------------------------------------------------------
(* Threads and types.                                                      *)

\* A step of thread t leaves the other threads where they are.
LEMMA StepFrame ==
  ASSUME Control, NEW t \in RxThreads, RxStep(t)
  PROVE  /\ \A u \in RxThreads : u # t => rxTodo'[u] = rxTodo[u] /\ rxOp'[u] = rxOp[u]
         /\ UNCHANGED <<rxStage, rxUsed, rxRaced>> /\ ~Idle(t)
<1>1. ~Idle(t)
  BY DEF RxStep, At, Lock, Unlock, Match, StoreTimings, ConfigureVhref, StoreRange, ClearConv,
         ChooseConv, StoreConv, TestConv, WriteBypass, WriteCoef, ReadStatus, ClearStatus,
         CheckPort, ReadAvi, ParseAvi, HighAtProbe, CoreInit, ForgetEdid, CancelHpd, LowerHpd,
         WriteEdid, StoreEdid, EnableEdid
<1>2. ASSUME NEW more, GoOn(t, more)
      PROVE  /\ \A u \in RxThreads : u # t => rxTodo'[u] = rxTodo[u] /\ rxOp'[u] = rxOp[u]
             /\ UNCHANGED <<rxStage, rxUsed, rxRaced>>
  BY <1>2 DEF GoOn, Control
<1>3. CASE WriteCoef(t)
  <2>1. CASE rx.conv = "NULL"
    <3>1. /\ rxTodo' = [rxTodo EXCEPT ![t] = <<Do("dead")>>]
          /\ UNCHANGED <<rxOp, rxStage, rxUsed, rxRaced>>
      BY <1>3, <2>1 DEF WriteCoef
    <3>2. \A u \in RxThreads : u # t => rxTodo'[u] = rxTodo[u]
      BY <3>1 DEF Control
    <3> QED
      BY <1>1, <3>1, <3>2
  <2>2. CASE rx.conv # "NULL"
    <3>1. GoOn(t, <<>>)
      BY <1>3, <2>2 DEF WriteCoef
    <3> QED
      BY <1>1, <1>2, <3>1
  <2> QED
    BY <2>1, <2>2
<1>4. ~WriteCoef(t) => \E more : GoOn(t, more)
  <2>1. Lock(t) \/ Unlock(t) \/ StoreTimings(t) \/ ConfigureVhref(t) \/ StoreRange(t)
          \/ ClearConv(t) \/ StoreConv(t) \/ WriteBypass(t) => \E more : GoOn(t, more)
    BY DEF Lock, Unlock, StoreTimings, ConfigureVhref, StoreRange, ClearConv, StoreConv,
           WriteBypass
  <2>2. Match(t) \/ ChooseConv(t) \/ TestConv(t) \/ ReadAvi(t) => \E more : GoOn(t, more)
    BY DEF Match, ChooseConv, TestConv, ReadAvi
  <2>3. ReadStatus(t) \/ ClearStatus(t) \/ CheckPort(t) \/ ParseAvi(t) \/ HighAtProbe(t)
          \/ CoreInit(t) => \E more : GoOn(t, more)
    BY DEF ReadStatus, ClearStatus, CheckPort, ParseAvi, HighAtProbe, CoreInit
  <2>4. ForgetEdid(t) \/ CancelHpd(t) \/ LowerHpd(t) \/ WriteEdid(t) \/ StoreEdid(t)
          \/ EnableEdid(t) => \E more : GoOn(t, more)
    BY DEF ForgetEdid, CancelHpd, LowerHpd, WriteEdid, StoreEdid, EnableEdid
  <2> QED
    BY <2>1, <2>2, <2>3, <2>4 DEF RxStep
<1> QED
  BY <1>1, <1>2, <1>3, <1>4

\* A step of a program leads to a step of the same program, or ends the call.
LEMMA ControlStep ==
  ASSUME Control, NEW t \in RxThreads, RxStep(t), chip.avi \in RxFrames \cup {"rgbfull"}
  PROVE  Control' /\ rxOp'[t] \in {rxOp[t], "none"}
<1>1. ASSUME NEW n, Goes(t, n)
      PROVE  Control' /\ rxOp'[t] \in {rxOp[t], "none"}
  BY <1>1 DEF Goes
<1>2. Ended(t) => Control' /\ rxOp'[t] \in {rxOp[t], "none"}
  BY DEF Ended
<1>3. ASSUME GoOn(t, <<>>), ~Idle(t) PROVE rxOp'[t] \in {rxOp[t], "none"}
  BY <1>3 DEF GoOn, Control
<1>4. \/ StoreRange(t) \/ ClearConv(t) \/ ChooseConv(t) \/ StoreConv(t) \/ TestConv(t)
      => Control' /\ rxOp'[t] \in {rxOp[t], "none"}
  BY <1>1, CscMoves
<1>5. WriteBypass(t) => Control' /\ rxOp'[t] \in {rxOp[t], "none"}
  <2>1. WriteBypass(t) => GoOn(t, <<>>)
    BY DEF WriteBypass
  <2> QED
    BY <1>1, <1>3, <2>1, CscMoves, StepFrame
<1>6. WriteCoef(t) => Control' /\ rxOp'[t] \in {rxOp[t], "none"}
  <2>1. WriteCoef(t) /\ rx.conv # "NULL" => GoOn(t, <<>>)
    BY DEF WriteCoef
  <2> QED
    BY <1>1, <1>3, <2>1, CscMoves, StepFrame
<1>7. Lock(t) \/ Unlock(t) \/ Match(t) \/ StoreTimings(t) \/ ConfigureVhref(t)
      => Control' /\ rxOp'[t] \in {rxOp[t], "none"}
  BY <1>1, <1>2, TimingsMoves
<1>8. ReadStatus(t) \/ ClearStatus(t) \/ CheckPort(t) \/ ReadAvi(t) \/ ParseAvi(t)
        \/ HighAtProbe(t) \/ CoreInit(t)
      => Control' /\ rxOp'[t] \in {rxOp[t], "none"}
  BY <1>1, IsrMoves
<1>9. ForgetEdid(t) \/ CancelHpd(t) \/ LowerHpd(t) \/ WriteEdid(t) \/ StoreEdid(t)
        \/ EnableEdid(t)
      => Control' /\ rxOp'[t] \in {rxOp[t], "none"}
  BY <1>1, <1>2, EdidMoves
<1> QED
  BY <1>4, <1>5, <1>6, <1>7, <1>8, <1>9 DEF RxStep

\* A thread enters a call.
LEMMA BeginFacts ==
  ASSUME Control, NEW t \in RxThreads, NEW op \in RxOps, NEW steps \in Seq(StepType),
         Begin(t, op, steps)
  PROVE  /\ Idle(t) /\ rxOp[t] = "none" /\ rxTodo'[t] = steps /\ rxOp'[t] = op
         /\ \A u \in RxThreads : u # t => rxTodo'[u] = rxTodo[u] /\ rxOp'[u] = rxOp[u]
         /\ rxTodo' \in [RxThreads -> Seq(StepType)] /\ rxOp' \in [RxThreads -> RxOps]
         /\ rxRaced \subseteq rxRaced' /\ rxRaced' \subseteq rxRaced \cup {"csc", "edid"}
         /\ \A u \in RxThreads \ {t} :
              /\ op = "edid" /\ rxOp[u] = "edid" => "edid" \in rxRaced'
              /\ op = "ctrl" /\ rxOp[u] \in CscOps => "csc" \in rxRaced'
              /\ op \in CscOps /\ rxOp[u] = "ctrl" => "csc" \in rxRaced'
<1>1. Idle(t) /\ rxOp[t] = "none"
  BY DEF Begin, Control
<1>2. /\ rxTodo'[t] = steps /\ rxOp'[t] = op
      /\ \A u \in RxThreads : u # t => rxTodo'[u] = rxTodo[u] /\ rxOp'[u] = rxOp[u]
      /\ rxTodo' \in [RxThreads -> Seq(StepType)] /\ rxOp' \in [RxThreads -> RxOps]
  BY DEF Begin, Control
<1> DEFINE met == {rxOp[u] : u \in RxThreads \ {t}}
<1>3. rxRaced' = rxRaced
        \cup (IF op = "edid" /\ "edid" \in met THEN {"edid"} ELSE {})
        \cup (IF \/ op = "ctrl" /\ met \cap CscOps # {}
                 \/ op \in CscOps /\ "ctrl" \in met THEN {"csc"} ELSE {})
  BY DEF Begin
<1>4. \A u \in RxThreads \ {t} : rxOp[u] \in met
  OBVIOUS
<1> HIDE DEF met
<1>5. rxRaced \subseteq rxRaced' /\ rxRaced' \subseteq rxRaced \cup {"csc", "edid"}
  BY <1>3
<1>6. ASSUME NEW u \in RxThreads \ {t}
      PROVE  /\ op = "edid" /\ rxOp[u] = "edid" => "edid" \in rxRaced'
             /\ op = "ctrl" /\ rxOp[u] \in CscOps => "csc" \in rxRaced'
             /\ op \in CscOps /\ rxOp[u] = "ctrl" => "csc" \in rxRaced'
  BY <1>3, <1>4
<1> QED
  BY <1>1, <1>2, <1>5, <1>6

\* Control is kept by a thread that enters a call.
LEMMA ControlBegin ==
  ASSUME Control, NEW t \in RxThreads, NEW op \in RxOps, NEW steps \in Seq(StepType),
         Begin(t, op, steps), steps # <<>>, op # "none",
         Fits(op, Head(steps), Tail(steps)),
         rxStage' \in {"new", "probed", "edid", "done"},
         t = "init" => op \in OpsAt(rxStage'),
         t # "init" => rxStage' = rxStage /\ rx'.up /\ rx'.up = rx.up,
         t = "ioctl" => op \in {"timings", "ctrl", "edid"}, t = "irq" => op = "isr",
         rx.up => rx'.up, rx'.up <=> rxStage' \in {"edid", "done"}
  PROVE  Control'
<1>1. \A u \in RxThreads : (rxOp'[u] = "none" <=> rxTodo'[u] = <<>>)
        /\ (rxTodo'[u] # <<>> => Fits(rxOp'[u], Head(rxTodo'[u]), Tail(rxTodo'[u])))
  BY BeginFacts DEF Control, Idle
<1>2. /\ rxOp'["init"] \in OpsAt(rxStage')
      /\ rxOp'["ioctl"] \in {"none", "timings", "ctrl", "edid"}
      /\ rxOp'["irq"] \in {"none", "isr"}
      /\ ~rx'.up => rxOp'["ioctl"] = "none" /\ rxOp'["irq"] = "none"
  BY BeginFacts DEF Control, RxThreads
<1> QED
  BY <1>1, <1>2, BeginFacts DEF Control, Idle

\* The programs of the calls are sequences of steps that fit.
LEMMA Programs ==
  /\ Isr \in Seq(StepType) /\ Isr # <<>> /\ Head(Isr) = Do("lock")
  /\ Fits("isr", Head(Isr), Tail(Isr))
  /\ Probe \in Seq(StepType) /\ Probe # <<>> /\ Head(Probe) = Do("high")
  /\ Fits("probe", Head(Probe), Tail(Probe))
  /\ \A e \in Stored \cup {"none"} :
       /\ SetEdid(e) \in Seq(StepType) /\ SetEdid(e) # <<>>
       /\ Head(SetEdid(e)) = IF e = "none" THEN Do("forget") ELSE Do("cancel")
       /\ e # "none" => Tail(Tail(SetEdid(e))) # <<>>
       /\ Fits("edid", Head(SetEdid(e)), Tail(SetEdid(e)))
  /\ \A v \in RxTimings :
       LET p == <<<<"match", v>>>>
       IN  /\ p \in Seq(StepType) /\ p # <<>> /\ Head(p) = <<"match", v>>
           /\ Fits("timings", Head(p), Tail(p))
  /\ \A r \in Ranges :
       /\ SetRange(r) \in Seq(StepType) /\ SetRange(r) # <<>>
       /\ Head(SetRange(r)) = <<"range", r>> /\ Fits("ctrl", Head(SetRange(r)), Tail(SetRange(r)))
<1> USE DEF Belongs, CscNames, IsrNames, EdidNames
<1>1. /\ Do("null") \in StepType /\ Do("choose") \in StepType /\ Do("unlock") \in StepType
      /\ Do("lock") \in StepType /\ Do("status") \in StepType /\ Do("clear") \in StepType
      /\ Do("checkPort") \in StepType /\ Do("avi") \in StepType
      /\ Do("forget") \in StepType /\ Do("cancel") \in StepType /\ Do("low") \in StepType
      /\ Do("enable") \in StepType /\ Do("core") \in StepType /\ Do("high") \in StepType
  BY StepTypes DEF StepNames
<1>2. /\ \A i \in {1, 2}, e \in Stored : <<"edid", i, e>> \in StepType
      /\ \A e \in Stored : <<"store", e>> \in StepType
      /\ \A r \in Ranges : <<"range", r>> \in StepType
      /\ \A v \in RxTimings : <<"match", v>> \in StepType
  BY StepTypes DEF StepNames, Args
<1>3. /\ Isr \in Seq(StepType) /\ Isr # <<>> /\ Head(Isr) = Do("lock")
      /\ Fits("isr", Head(Isr), Tail(Isr))
  <2>1. Isr \in Seq(StepType) /\ Isr # <<>> /\ Head(Isr) = Do("lock")
    BY <1>1 DEF Isr
  <2>2. Fits("isr", Do("lock"), Tail(Isr))
    BY DoNames DEF Fits, CscFits, TimingsFits, IsrFits, EdidFits
  <2> QED
    BY <2>1, <2>2
<1>4. /\ Probe \in Seq(StepType) /\ Probe # <<>> /\ Head(Probe) = Do("high")
      /\ Fits("probe", Head(Probe), Tail(Probe))
  <2>1. SetRange("auto") \in Seq(StepType)
    BY <1>1, <1>2 DEF SetRange, Csc, Ranges
  <2>2. Probe \in Seq(StepType) /\ Probe # <<>> /\ Head(Probe) = Do("high")
    <3> DEFINE begun == <<Do("high"), Do("core")>> \o SetRange("auto")
    <3>1. begun \in Seq(StepType) /\ begun # <<>> /\ Head(begun) = Do("high")
      BY <1>1, <2>1
    <3>2. Probe = begun \o Isr
      BY DEF Probe
    <3> QED
      BY <1>3, <3>1, <3>2
  <2>3. Fits("probe", Do("high"), Tail(Probe))
    BY DoNames DEF Fits, CscFits, TimingsFits, IsrFits, EdidFits
  <2> QED
    BY <2>2, <2>3
<1>5. ASSUME NEW e \in Stored \cup {"none"}
      PROVE  /\ SetEdid(e) \in Seq(StepType) /\ SetEdid(e) # <<>>
             /\ Head(SetEdid(e)) = IF e = "none" THEN Do("forget") ELSE Do("cancel")
             /\ e # "none" => Tail(Tail(SetEdid(e))) # <<>>
             /\ Fits("edid", Head(SetEdid(e)), Tail(SetEdid(e)))
  <2>1. CASE e = "none"
    <3> DEFINE p == <<Do("forget"), Do("cancel"), Do("low")>>
    <3>1. /\ p \in Seq(StepType) /\ p # <<>> /\ Head(p) = Do("forget")
          /\ Tail(p) = <<Do("cancel"), Do("low")>>
      BY <1>1
    <3>2. Fits("edid", Do("forget"), <<Do("cancel"), Do("low")>>)
      BY DoNames DEF Fits, CscFits, TimingsFits, IsrFits, EdidFits
    <3>3. SetEdid(e) = p
      BY <2>1 DEF SetEdid
    <3> HIDE DEF p
    <3> QED
      BY <2>1, <3>1, <3>2, <3>3
  <2>2. CASE e # "none"
    <3> DEFINE p == <<Do("cancel"), Do("low"), <<"edid", 1, e>>, <<"edid", 2, e>>,
                      <<"store", e>>, Do("enable")>>
    <3>1. e \in Stored
      BY <2>2
    <3>2. p \in Seq(StepType) /\ p # <<>> /\ Head(p) = Do("cancel") /\ Tail(Tail(p)) # <<>>
      BY <1>1, <1>2, <3>1
    <3>3. SetEdid(e) = p
      BY <2>2 DEF SetEdid
    <3>4. Fits("edid", Do("cancel"), Tail(SetEdid(e)))
      BY <3>1, DoNames DEF Fits, CscFits, TimingsFits, IsrFits, EdidFits
    <3> HIDE DEF p
    <3> QED
      BY <2>2, <3>2, <3>3, <3>4
  <2> QED
    BY <2>1, <2>2
<1>6. ASSUME NEW v \in RxTimings
      PROVE  LET p == <<<<"match", v>>>>
             IN  /\ p \in Seq(StepType) /\ p # <<>> /\ Head(p) = <<"match", v>>
                 /\ Fits("timings", Head(p), Tail(p))
  <2> DEFINE p == <<<<"match", v>>>>
  <2>1. p \in Seq(StepType) /\ p # <<>> /\ Head(p) = <<"match", v>> /\ Tail(p) = <<>>
    BY <1>2
  <2>2. Fits("timings", <<"match", v>>, <<>>)
    BY DEF Fits, CscFits, TimingsFits, IsrFits, EdidFits
  <2> HIDE DEF p
  <2>3. Fits("timings", Head(p), Tail(p))
    BY <2>1, <2>2
  <2> QED
    BY <2>1, <2>3 DEF p
<1>7. ASSUME NEW r \in Ranges
      PROVE  /\ SetRange(r) \in Seq(StepType) /\ SetRange(r) # <<>>
             /\ Head(SetRange(r)) = <<"range", r>>
             /\ Fits("ctrl", Head(SetRange(r)), Tail(SetRange(r)))
  <2>1. Csc \in Seq(StepType) /\ <<"range", r>> \in StepType
    BY <1>1, <1>2 DEF Csc
  <2>2. /\ SetRange(r) \in Seq(StepType) /\ SetRange(r) # <<>>
        /\ Head(SetRange(r)) = <<"range", r>> /\ Tail(SetRange(r)) = Csc
    BY <2>1, Chained DEF SetRange
  <2>3. Csc = Csc \o <<>>
    BY <2>1, ConcatEmptySeq
  <2>4. Fits("ctrl", <<"range", r>>, Csc)
    BY <2>3 DEF Fits, CscFits, TimingsFits, IsrFits, EdidFits, Ends
  <2> QED
    BY <2>2, <2>4
<1> QED
  BY <1>3, <1>4, <1>5, <1>6, <1>7

\* The types of the chip and of the driver's state, as RxTypeOK has them.
ChipType ==
  [port : BOOLEAN, avi : RxFrames \cup {"rgbfull"}, flags : SUBSET Flags, bypass : BOOLEAN,
   matrix : [1 .. 2 -> Convs \cup {"NULL"}], vhref : RxTimings, edid : [1 .. 2 -> Edids],
   hpd : BOOLEAN]

StateType ==
  [port : BOOLEAN, avi : RxFrames \cup {"rgbfull"}, status : SUBSET Flags, range : Ranges,
   col : {"rgb", "yuv"} \X {"full", "limited"}, conv : Convs \cup {"NULL"},
   timings : RxTimings, edid : Edids, blocks : {0, 2}, present : BOOLEAN,
   dwork : {"idle", "pending", "running"}, lock : RxThreads \cup {"free"}, work : BOOLEAN,
   up : BOOLEAN]

\* Entering a call takes a thread to its first step.
LEMMA CallMoves ==
  ASSUME Control, rx \in StateType
  PROVE  /\ IrqWork => Control' /\ Name("irq")' = "lock" /\ rxOp'["irq"] = "isr"
         /\ InitCall =>
              /\ Control'
              /\ \/ /\ rxStage = "new" /\ Begin("init", "probe", Probe) /\ rxStage' = "probed"
                    /\ rx' = rx /\ Name("init")' = "high" /\ rxOp'["init"] = "probe"
                 \/ /\ rxStage = "probed" /\ rxStage' = "edid" /\ rx' = [rx EXCEPT !.up = TRUE]
                    /\ Begin("init", "edid", SetEdid("builtin"))
                    /\ Name("init")' = "cancel" /\ ~Withdraws("init")' /\ rxOp'["init"] = "edid"
                 \/ /\ rxStage = "edid" /\ rxStage' = "done" /\ rx' = rx
                    /\ Begin("init", "timings", <<<<"match", "720p60">>>>)
                    /\ Name("init")' = "match" /\ rxOp'["init"] = "timings"
         /\ IoctlCall =>
              /\ Control' /\ UNCHANGED <<chip, rx, rxStage>>
              /\ \/ /\ rxOp'["ioctl"] = "timings" /\ Name("ioctl")' = "match"
                    /\ \E v \in RxTimings : Begin("ioctl", "timings", <<<<"match", v>>>>)
                 \/ /\ rxOp'["ioctl"] = "ctrl" /\ Name("ioctl")' = "range"
                    /\ \E r \in Ranges : Begin("ioctl", "ctrl", SetRange(r))
                 \/ /\ rxOp'["ioctl"] = "edid"
                    /\ \E e \in RxEdids \cup {"none"} : Begin("ioctl", "edid", SetEdid(e))
                    /\ \/ Name("ioctl")' = "forget"
                       \/ Name("ioctl")' = "cancel" /\ ~Withdraws("ioctl")'
<1>1. /\ "init" \in RxThreads /\ "ioctl" \in RxThreads /\ "irq" \in RxThreads
      /\ {"probe", "edid", "timings", "isr", "ctrl"} \subseteq RxOps
  BY DEF RxThreads, RxOps
<1>2. ASSUME NEW t \in RxThreads, NEW op \in RxOps, NEW steps \in Seq(StepType),
             Begin(t, op, steps), steps # <<>>
      PROVE  rxOp'[t] = op /\ rxTodo'[t] = steps /\ Name(t)' = Head(steps)[1]
  BY <1>2, BeginFacts DEF Name, Idle
<1>3. ASSUME IrqWork
      PROVE  Control' /\ Name("irq")' = "lock" /\ rxOp'["irq"] = "isr"
  <2>1. /\ rx.up /\ Begin("irq", "isr", Isr) /\ rx' = [rx EXCEPT !.work = FALSE]
        /\ rxStage' = rxStage
    BY <1>3 DEF IrqWork
  <2>2. rx'.up = rx.up
    BY <2>1 DEF StateType
  <2>3. Control'
    BY <1>1, <2>1, <2>2, Programs, ControlBegin DEF Control
  <2> QED
    BY <1>1, <1>2, <2>1, <2>3, Programs, DoNames
<1>4. ASSUME InitCall
      PROVE  /\ Control'
             /\ \/ /\ rxStage = "new" /\ Begin("init", "probe", Probe) /\ rxStage' = "probed"
                   /\ rx' = rx /\ Name("init")' = "high" /\ rxOp'["init"] = "probe"
                \/ /\ rxStage = "probed" /\ rxStage' = "edid" /\ rx' = [rx EXCEPT !.up = TRUE]
                   /\ Begin("init", "edid", SetEdid("builtin"))
                   /\ Name("init")' = "cancel" /\ ~Withdraws("init")' /\ rxOp'["init"] = "edid"
                \/ /\ rxStage = "edid" /\ rxStage' = "done" /\ rx' = rx
                   /\ Begin("init", "timings", <<<<"match", "720p60">>>>)
                   /\ Name("init")' = "match" /\ rxOp'["init"] = "timings"
  <2>1. CASE rxStage = "new" /\ Begin("init", "probe", Probe) /\ rxStage' = "probed" /\ rx' = rx
    <3>1. "probe" \in OpsAt(rxStage')
      BY <2>1 DEF OpsAt
    <3>2. Control'
      BY <1>1, <2>1, <3>1, Programs, ControlBegin DEF Control
    <3> QED
      BY <1>1, <1>2, <2>1, <3>2, Programs, DoNames
  <2>2. CASE /\ rxStage = "probed" /\ Begin("init", "edid", SetEdid("builtin"))
             /\ rxStage' = "edid" /\ rx' = [rx EXCEPT !.up = TRUE]
    <3>1. "edid" \in OpsAt(rxStage')
      BY <2>2 DEF OpsAt
    <3>2. "builtin" \in Stored \cup {"none"} /\ "builtin" # "none"
      BY DEF Stored
    <3>3. /\ SetEdid("builtin") \in Seq(StepType) /\ SetEdid("builtin") # <<>>
          /\ Head(SetEdid("builtin")) = Do("cancel") /\ Tail(Tail(SetEdid("builtin"))) # <<>>
          /\ Fits("edid", Head(SetEdid("builtin")), Tail(SetEdid("builtin")))
      BY <3>2, Programs
    <3>4. rx'.up
      BY <2>2 DEF StateType
    <3>5. Control'
      BY <1>1, <2>2, <3>1, <3>3, <3>4, ControlBegin DEF Control
    <3>6. Name("init")' = "cancel" /\ rxOp'["init"] = "edid"
          /\ rxTodo'["init"] = SetEdid("builtin")
      BY <1>1, <1>2, <2>2, <3>3, DoNames
    <3>7. ~Withdraws("init")'
      BY <3>3, <3>6 DEF Withdraws
    <3> QED
      BY <2>2, <3>5, <3>6, <3>7
  <2>3. CASE /\ rxStage = "edid" /\ Begin("init", "timings", <<<<"match", "720p60">>>>)
             /\ rxStage' = "done" /\ rx' = rx
    <3>1. "timings" \in OpsAt(rxStage')
      BY <2>3 DEF OpsAt
    <3> DEFINE p == <<<<"match", "720p60">>>>
    <3>2. /\ p \in Seq(StepType) /\ p # <<>> /\ Head(p) = <<"match", "720p60">>
          /\ Fits("timings", Head(p), Tail(p))
      BY Programs, RxTimingsAssumption
    <3> HIDE DEF p
    <3>3. Begin("init", "timings", p)
      BY <2>3 DEF p
    <3>4. Control'
      BY <1>1, <2>3, <3>1, <3>2, <3>3, ControlBegin DEF Control
    <3> QED
      BY <1>1, <1>2, <2>3, <3>2, <3>3, <3>4
  <2> QED
    BY <1>4, <2>1, <2>2, <2>3 DEF InitCall
<1>5. ASSUME IoctlCall
      PROVE  /\ Control' /\ UNCHANGED <<chip, rx, rxStage>>
             /\ \/ /\ rxOp'["ioctl"] = "timings" /\ Name("ioctl")' = "match"
                   /\ \E v \in RxTimings : Begin("ioctl", "timings", <<<<"match", v>>>>)
                \/ /\ rxOp'["ioctl"] = "ctrl" /\ Name("ioctl")' = "range"
                   /\ \E r \in Ranges : Begin("ioctl", "ctrl", SetRange(r))
                \/ /\ rxOp'["ioctl"] = "edid"
                   /\ \E e \in RxEdids \cup {"none"} : Begin("ioctl", "edid", SetEdid(e))
                   /\ \/ Name("ioctl")' = "forget"
                      \/ Name("ioctl")' = "cancel" /\ ~Withdraws("ioctl")'
  <2>1. rx.up /\ UNCHANGED <<chip, rx, rxStage>>
    BY <1>5 DEF IoctlCall
  <2>2. ASSUME NEW v \in RxTimings, Begin("ioctl", "timings", <<<<"match", v>>>>)
        PROVE  Control' /\ rxOp'["ioctl"] = "timings" /\ Name("ioctl")' = "match"
    <3> DEFINE p == <<<<"match", v>>>>
    <3>1. /\ p \in Seq(StepType) /\ p # <<>> /\ Head(p) = <<"match", v>>
          /\ Fits("timings", Head(p), Tail(p))
      BY Programs
    <3> HIDE DEF p
    <3>2. Begin("ioctl", "timings", p)
      BY <2>2 DEF p
    <3>3. Control'
      BY <1>1, <2>1, <3>1, <3>2, ControlBegin DEF Control
    <3> QED
      BY <1>1, <1>2, <3>1, <3>2, <3>3
  <2>3. ASSUME NEW r \in Ranges, Begin("ioctl", "ctrl", SetRange(r))
        PROVE  Control' /\ rxOp'["ioctl"] = "ctrl" /\ Name("ioctl")' = "range"
    <3>1. /\ SetRange(r) \in Seq(StepType) /\ SetRange(r) # <<>>
          /\ Head(SetRange(r)) = <<"range", r>>
          /\ Fits("ctrl", Head(SetRange(r)), Tail(SetRange(r)))
      BY Programs
    <3>2. Control'
      BY <1>1, <2>1, <2>3, <3>1, ControlBegin DEF Control
    <3> QED
      BY <1>1, <1>2, <2>3, <3>1, <3>2
  <2>4. ASSUME NEW e \in RxEdids \cup {"none"}, Begin("ioctl", "edid", SetEdid(e))
        PROVE  /\ Control' /\ rxOp'["ioctl"] = "edid"
               /\ \/ Name("ioctl")' = "forget"
                  \/ Name("ioctl")' = "cancel" /\ ~Withdraws("ioctl")'
    <3>1. e \in Stored \cup {"none"}
      BY DEF Stored
    <3>2. /\ SetEdid(e) \in Seq(StepType) /\ SetEdid(e) # <<>>
          /\ Head(SetEdid(e)) = IF e = "none" THEN Do("forget") ELSE Do("cancel")
          /\ e # "none" => Tail(Tail(SetEdid(e))) # <<>>
          /\ Fits("edid", Head(SetEdid(e)), Tail(SetEdid(e)))
      BY <3>1, Programs
    <3>3. Control'
      BY <1>1, <2>1, <2>4, <3>2, ControlBegin DEF Control
    <3>4. rxOp'["ioctl"] = "edid" /\ rxTodo'["ioctl"] = SetEdid(e)
          /\ Name("ioctl")' = IF e = "none" THEN "forget" ELSE "cancel"
      BY <1>1, <1>2, <2>4, <3>2, DoNames
    <3> QED
      BY <3>2, <3>3, <3>4 DEF Withdraws
  <2> QED
    BY <1>5, <2>1, <2>2, <2>3, <2>4 DEF IoctlCall
<1> QED
  BY <1>3, <1>4, <1>5

\* Control is kept whatever happens.
LEMMA ControlNext == Control /\ RxTypeOK /\ [RxNext]_rxVars => Control'
<1> SUFFICES ASSUME Control, RxTypeOK, [RxNext]_rxVars PROVE Control'
  OBVIOUS
<1>1. rx \in StateType /\ chip.avi \in RxFrames \cup {"rgbfull"}
  BY DEF RxTypeOK, StateType
<1>2. ASSUME rx'.up = rx.up, UNCHANGED <<rxTodo, rxOp, rxStage>> PROVE Control'
  BY <1>2 DEF Control, Idle
<1>3. CASE PortEvent \/ AviEvent
  <2>1. rx' = [rx EXCEPT !.work = @ \/ (chip.flags = {} /\ rx.up)]
        /\ UNCHANGED <<rxTodo, rxOp, rxStage>>
    BY <1>3 DEF PortEvent, AviEvent, SourceEvent
  <2>2. rx'.up = rx.up
    BY <1>1, <2>1 DEF StateType
  <2> QED
    BY <1>2, <2>1, <2>2
<1>4. CASE HpdWork
  <2>1. UNCHANGED <<rxTodo, rxOp, rxStage>>
    BY <1>4 DEF HpdWork
  <2>2. rx'.up = rx.up
    <3>1. CASE rx' = [rx EXCEPT !.dwork = "running"]
      BY <1>1, <3>1 DEF StateType
    <3>2. CASE rx' = [rx EXCEPT !.dwork = "idle", !.present = TRUE]
      BY <1>1, <3>2 DEF StateType
    <3> QED
      BY <1>4, <3>1, <3>2 DEF HpdWork
  <2> QED
    BY <1>2, <2>1, <2>2
<1>5. CASE IrqWork \/ InitCall \/ IoctlCall
  BY <1>1, <1>5, CallMoves
<1>6. CASE \E t \in RxThreads : RxStep(t)
  BY <1>1, <1>6, ControlStep
<1>7. CASE UNCHANGED rxVars
  BY <1>2, <1>7 DEF rxVars
<1> QED
  BY <1>3, <1>4, <1>5, <1>6, <1>7 DEF RxNext

\* The arguments of the steps have their types.
LEMMA ArgTypes ==
  ASSUME Control, NEW t \in RxThreads
  PROVE  /\ At(t, "timings") => Arg(t) \in RxTimings
         /\ At(t, "range") => Arg(t) \in Ranges
         /\ At(t, "conv") => Arg(t) \in Convs \cup {"NULL"}
         /\ At(t, "coef") => Arg(t) \in 1 .. 2
         /\ At(t, "parse") => Arg(t) \in RxFrames \cup {"rgbfull"}
         /\ At(t, "edid") => Arg(t) \in 1 .. 2 /\ Head(rxTodo[t])[3] \in Stored
         /\ At(t, "store") => Arg(t) \in Stored
<1>1. \A n : At(t, n) => Head(rxTodo[t])[1] = n /\ Fits(rxOp[t], Head(rxTodo[t]), Tail(rxTodo[t]))
  BY Here
<1>2. /\ At(t, "timings") => Arg(t) \in RxTimings
      /\ At(t, "range") => Arg(t) \in Ranges
  BY <1>1 DEF Fits, TimingsFits, Arg
<1>3. /\ At(t, "conv") => Arg(t) \in Convs \cup {"NULL"}
      /\ At(t, "coef") => Arg(t) \in 1 .. 2
  BY <1>1 DEF Fits, CscFits, Arg
<1>4. At(t, "parse") => Arg(t) \in RxFrames \cup {"rgbfull"}
  BY <1>1 DEF Fits, IsrFits, Arg
<1>5. /\ At(t, "edid") => Arg(t) \in 1 .. 2 /\ Head(rxTodo[t])[3] \in Stored
      /\ At(t, "store") => Arg(t) \in Stored
  BY <1>1 DEF Fits, EdidFits, Arg
<1> QED
  BY <1>2, <1>3, <1>4, <1>5

\* The chip and the driver's state keep their types in every step of a program.
LEMMA DataStep ==
  ASSUME Control, chip \in ChipType, rx \in StateType, NEW t \in RxThreads, RxStep(t)
  PROVE  chip' \in ChipType /\ rx' \in StateType
<1> USE DEF Stored, Edids
<1>1. \A f \in RxFrames \cup {"rgbfull"}, r \in Ranges :
        Colorimetry(f, r) \in {"rgb", "yuv"} \X {"full", "limited"}
  BY DEF Colorimetry, Ranges
<1>2. CASE Lock(t) \/ Unlock(t)
  <2>1. chip' = chip
    BY <1>2 DEF Lock, Unlock
  <2>2. \E l \in RxThreads \cup {"free"} : rx' = [rx EXCEPT !.lock = l]
    BY <1>2 DEF Lock, Unlock
  <2>3. PICK l \in RxThreads \cup {"free"} : rx' = [rx EXCEPT !.lock = l]
    BY <2>2
  <2> QED
    BY <2>1, <2>3 DEF StateType
<1>3. CASE Match(t) \/ ChooseConv(t) \/ TestConv(t) \/ ReadAvi(t)
  BY <1>3 DEF Match, ChooseConv, TestConv, ReadAvi
<1>4. CASE StoreTimings(t)
  <2>1. Arg(t) \in RxTimings /\ chip' = chip /\ rx' = [rx EXCEPT !.timings = Arg(t)]
    BY <1>4, ArgTypes DEF StoreTimings
  <2> QED
    BY <2>1 DEF StateType
<1>5. CASE ConfigureVhref(t)
  <2>1. rx' = rx /\ chip' = [chip EXCEPT !.vhref = rx.timings] /\ rx.timings \in RxTimings
    BY <1>5 DEF ConfigureVhref, StateType
  <2> QED
    BY <2>1 DEF ChipType
<1>6. CASE StoreRange(t)
  <2>1. /\ Arg(t) \in Ranges /\ chip' = chip
        /\ rx' = [rx EXCEPT !.range = Arg(t), !.col = Colorimetry(rx.avi, Arg(t))]
    BY <1>6, ArgTypes DEF StoreRange
  <2>2. Colorimetry(rx.avi, Arg(t)) \in {"rgb", "yuv"} \X {"full", "limited"}
    BY <1>1, <2>1 DEF StateType
  <2> QED
    BY <2>1, <2>2 DEF StateType
<1>7. CASE ClearConv(t) \/ StoreConv(t)
  <2>1. chip' = chip
    BY <1>7 DEF ClearConv, StoreConv
  <2>2. \E c \in Convs \cup {"NULL"} : rx' = rx \/ rx' = [rx EXCEPT !.conv = c]
    BY <1>7, ArgTypes DEF ClearConv, StoreConv
  <2>3. PICK c \in Convs \cup {"NULL"} : rx' = rx \/ rx' = [rx EXCEPT !.conv = c]
    BY <2>2
  <2> QED
    BY <2>1, <2>3 DEF StateType
<1>8. CASE WriteBypass(t)
  <2>1. rx' = rx /\ chip' = [chip EXCEPT !.bypass = At(t, "bypass")]
    BY <1>8 DEF WriteBypass
  <2>2. At(t, "bypass") \in BOOLEAN
    BY DEF At
  <2> QED
    BY <2>1, <2>2 DEF ChipType
<1>9. CASE WriteCoef(t)
  <2>1. rx' = rx /\ (chip' = chip \/ chip' = [chip EXCEPT !.matrix[Arg(t)] = rx.conv])
        /\ Arg(t) \in 1 .. 2 /\ rx.conv \in Convs \cup {"NULL"}
    BY <1>9, ArgTypes DEF WriteCoef, StateType
  <2> QED
    BY <2>1 DEF ChipType
<1>10. CASE ReadStatus(t)
  <2>1. chip' = chip /\ rx' = [rx EXCEPT !.status = chip.flags] /\ chip.flags \in SUBSET Flags
    BY <1>10 DEF ReadStatus, ChipType
  <2> QED
    BY <2>1 DEF StateType
<1>11. CASE ClearStatus(t)
  <2>1. rx' = rx /\ chip' = [chip EXCEPT !.flags = chip.flags \ rx.status]
        /\ (chip.flags \ rx.status) \in SUBSET Flags
    BY <1>11 DEF ClearStatus, ChipType
  <2> QED
    BY <2>1 DEF ChipType
<1>12. CASE CheckPort(t)
  <2>1. chip' = chip /\ (rx' = rx \/ rx' = [rx EXCEPT !.port = chip.port]) /\ chip.port \in BOOLEAN
    BY <1>12 DEF CheckPort, ChipType
  <2> QED
    BY <2>1 DEF StateType
<1>13. CASE ParseAvi(t)
  <2>1. /\ chip' = chip /\ Arg(t) \in RxFrames \cup {"rgbfull"}
        /\ \/ rx' = rx
           \/ rx' = [rx EXCEPT !.avi = Arg(t), !.col = Colorimetry(Arg(t), rx.range)]
    BY <1>13, ArgTypes DEF ParseAvi
  <2>2. Colorimetry(Arg(t), rx.range) \in {"rgb", "yuv"} \X {"full", "limited"}
    BY <1>1, <2>1 DEF StateType
  <2> QED
    BY <2>1, <2>2, ZenonT(60) DEF StateType
<1>14. CASE HighAtProbe(t) \/ LowerHpd(t)
  <2>1. rx' = rx /\ \E b \in BOOLEAN : chip' = [chip EXCEPT !.hpd = b]
    BY <1>14 DEF HighAtProbe, LowerHpd
  <2> QED
    BY <2>1 DEF ChipType
<1>15. CASE CoreInit(t)
  <2> DEFINE m == [i \in 1 .. 2 |-> "RGBLIM"]
  <2>1. /\ chip' = [chip EXCEPT !.flags = {}, !.matrix = m, !.bypass = FALSE]
        /\ rx' = [rx EXCEPT !.conv = "RGBLIM", !.port = chip.port]
    BY <1>15 DEF CoreInit
  <2>2. m \in [1 .. 2 -> Convs \cup {"NULL"}] /\ chip.port \in BOOLEAN /\ "RGBLIM" \in Convs
    BY DEF Convs, ChipType
  <2> HIDE DEF m
  <2>3. chip' \in ChipType
    BY <2>1, <2>2 DEF ChipType
  <2>4. rx' \in StateType
    BY <2>1, <2>2 DEF StateType
  <2> QED
    BY <2>3, <2>4
<1>16. CASE ForgetEdid(t)
  BY <1>16 DEF ForgetEdid, StateType
<1>17. CASE CancelHpd(t) \/ EnableEdid(t)
  <2>1. chip' = chip
    BY <1>17 DEF CancelHpd, EnableEdid
  <2>2. \E d \in {"idle", "pending", "running"} : rx' = [rx EXCEPT !.dwork = d]
    BY <1>17 DEF CancelHpd, EnableEdid, StateType
  <2> QED
    BY <2>1, <2>2 DEF StateType
<1>18. CASE WriteEdid(t)
  <2>1. rx' = rx /\ chip' = [chip EXCEPT !.edid[Arg(t)] = Head(rxTodo[t])[3]]
        /\ Arg(t) \in 1 .. 2 /\ Head(rxTodo[t])[3] \in Edids
    BY <1>18, ArgTypes DEF WriteEdid
  <2> QED
    BY <2>1 DEF ChipType
<1>19. CASE StoreEdid(t)
  <2>1. chip' = chip /\ rx' = [rx EXCEPT !.edid = Arg(t), !.blocks = 2] /\ Arg(t) \in Edids
    BY <1>19, ArgTypes DEF StoreEdid
  <2> QED
    BY <2>1 DEF StateType
<1> QED
  BY <1>2, <1>3, <1>4, <1>5, <1>6, <1>7, <1>8, <1>9, <1>10, <1>11, <1>12, <1>13, <1>14, <1>15,
     <1>16, <1>17, <1>18, <1>19 DEF RxStep

\* Types and control together.
RxTypes == RxTypeOK /\ Control

\* Every step keeps the types, and every thread at a step of one of its calls.
LEMMA TypesStep == RxTypes /\ [RxNext]_rxVars => RxTypes'
<1> SUFFICES ASSUME RxTypes, [RxNext]_rxVars PROVE RxTypes'
  OBVIOUS
<1>1. Control'
  BY ControlNext DEF RxTypes
<1>2. chip \in ChipType /\ rx \in StateType /\ Control
  BY DEF RxTypes, RxTypeOK, ChipType, StateType
<1>3. chip' \in ChipType /\ rx' \in StateType
  <2>1. CASE PortEvent \/ AviEvent
    <3>1. \E f \in Flags : chip' = [chip EXCEPT !.port = ~chip.port, !.flags = @ \cup {f}]
            \/ \E a \in RxFrames : chip' = [chip EXCEPT !.avi = a, !.flags = @ \cup {f}]
      BY <1>2, <2>1 DEF PortEvent, AviEvent, SourceEvent, ChipType, Flags
    <3>2. rx' = [rx EXCEPT !.work = rx.work \/ (chip.flags = {} /\ rx.up)]
      BY <2>1 DEF PortEvent, AviEvent, SourceEvent
    <3>3. chip' \in ChipType
      <4>1. PICK f \in Flags :
              \/ chip' = [chip EXCEPT !.port = ~chip.port, !.flags = @ \cup {f}]
              \/ \E a \in RxFrames : chip' = [chip EXCEPT !.avi = a, !.flags = @ \cup {f}]
        BY <3>1
      <4>2. chip.flags \cup {f} \in SUBSET Flags
        BY <1>2 DEF ChipType
      <4>3. CASE chip' = [chip EXCEPT !.port = ~chip.port, !.flags = @ \cup {f}]
        BY <1>2, <4>2, <4>3 DEF ChipType
      <4>4. ASSUME NEW a \in RxFrames, chip' = [chip EXCEPT !.avi = a, !.flags = @ \cup {f}]
            PROVE  chip' \in ChipType
        BY <1>2, <4>2, <4>4 DEF ChipType
      <4> QED
        BY <4>1, <4>3, <4>4
    <3>4. (rx.work \/ (chip.flags = {} /\ rx.up)) \in BOOLEAN
      OBVIOUS
    <3>5. rx' \in StateType
      BY <1>2, <3>2, <3>4 DEF StateType
    <3> QED
      BY <3>3, <3>5
  <2>2. CASE IrqWork
    BY <1>2, <2>2 DEF IrqWork, StateType
  <2>3. CASE InitCall \/ IoctlCall
    <3>1. chip' = chip /\ (rx' = rx \/ rx' = [rx EXCEPT !.up = TRUE])
      BY <2>3 DEF InitCall, IoctlCall
    <3> QED
      BY <1>2, <3>1 DEF StateType
  <2>4. CASE HpdWork
    <3>1. /\ chip' = chip \/ chip' = [chip EXCEPT !.hpd = TRUE]
          /\ \/ rx' = [rx EXCEPT !.dwork = "running"]
             \/ rx' = [rx EXCEPT !.dwork = "idle", !.present = TRUE]
      BY <2>4 DEF HpdWork
    <3>2. chip' \in ChipType
      BY <1>2, <3>1 DEF ChipType
    <3>3. rx' \in StateType
      <4>1. CASE rx' = [rx EXCEPT !.dwork = "running"]
        BY <1>2, <4>1 DEF StateType
      <4>2. CASE rx' = [rx EXCEPT !.dwork = "idle", !.present = TRUE]
        BY <1>2, <4>2 DEF StateType
      <4> QED
        BY <3>1, <4>1, <4>2
    <3> QED
      BY <3>2, <3>3
  <2>5. CASE \E t \in RxThreads : RxStep(t)
    BY <1>2, <2>5, DataStep
  <2>6. CASE UNCHANGED rxVars
    BY <1>2, <2>6 DEF rxVars
  <2> QED
    BY <2>1, <2>2, <2>3, <2>4, <2>5, <2>6 DEF RxNext
<1>4. rxUsed' \in 0 .. MaxRxUses
  <2>1. rxUsed \in 0 .. MaxRxUses
    BY DEF RxTypes, RxTypeOK
  <2>2. rxUsed' = rxUsed \/ (rxUsed < MaxRxUses /\ rxUsed' = rxUsed + 1)
    <3>1. ASSUME NEW t \in RxThreads, RxStep(t) PROVE rxUsed' = rxUsed
      BY <1>2, <3>1, StepFrame
    <3>2. PortEvent \/ AviEvent \/ IoctlCall => rxUsed < MaxRxUses /\ rxUsed' = rxUsed + 1
      BY DEF PortEvent, AviEvent, SourceEvent, IoctlCall
    <3>3. /\ IrqWork => rxUsed' = rxUsed
          /\ InitCall => rxUsed' = rxUsed
          /\ HpdWork => rxUsed' = rxUsed
          /\ UNCHANGED rxVars => rxUsed' = rxUsed
      BY DEF IrqWork, InitCall, HpdWork, rxVars
    <3> QED
      BY <3>1, <3>2, <3>3 DEF RxNext
  <2> QED
    BY <2>1, <2>2, RxUsesAssumption
<1>5. rxRaced' \subseteq {"csc", "edid"}
  <2>1. rxRaced \subseteq {"csc", "edid"}
    BY DEF RxTypes, RxTypeOK
  <2>2. ASSUME NEW t \in RxThreads, RxStep(t) PROVE rxRaced' = rxRaced
    BY <1>2, <2>2, StepFrame
  <2>3. ASSUME NEW t, NEW op, NEW steps, Begin(t, op, steps)
        PROVE  rxRaced' \subseteq rxRaced \cup {"csc", "edid"}
    BY <2>3 DEF Begin
  <2>4. CASE IrqWork \/ InitCall \/ IoctlCall
    BY <2>1, <2>3, <2>4 DEF IrqWork, InitCall, IoctlCall
  <2>5. CASE PortEvent \/ AviEvent \/ HpdWork \/ UNCHANGED rxVars
    BY <2>1, <2>5 DEF PortEvent, AviEvent, SourceEvent, HpdWork, rxVars
  <2> QED
    BY <2>1, <2>2, <2>4, <2>5 DEF RxNext
<1> QED
  BY <1>1, <1>3, <1>4, <1>5 DEF RxTypes, RxTypeOK, Control, ChipType, StateType

\* They hold before the probe.
LEMMA TypesInit == RxInit => RxTypes
<1> SUFFICES ASSUME RxInit PROVE RxTypes
  OBVIOUS
<1>1. chip \in ChipType
  BY RxTimingsAssumption DEF RxInit, ChipType, Edids, Convs, Flags
<1>2. rx \in StateType
  BY RxTimingsAssumption DEF RxInit, StateType, Edids, Convs, Flags, Ranges
<1>3. Control
  BY DEF RxInit, Control, Idle, OpsAt, RxThreads, RxOps
<1> QED
  BY <1>1, <1>2, <1>3, RxUsesAssumption
     DEF RxInit, RxTypes, RxTypeOK, ChipType, StateType, Control

-----------------------------------------------------------------------------
(* Where the threads are.                                                  *)

\* The call of a thread and the step it is at.
PlaceOf(t) ==
  /\ Name(t) \in StepNames \cup {"idle"} /\ rxOp[t] \in RxOps
  /\ \A n \in StepNames : At(t, n) <=> Name(t) = n
  /\ rxOp[t] = "none" <=> Name(t) = "idle"
  /\ rxOp[t] = "edid" <=> Name(t) \in EdidNames
  /\ Name(t) \in {"status", "clear", "checkPort", "avi", "parse"} => rxOp[t] \in {"isr", "probe"}
  /\ Name(t) \in {"high", "core"} => rxOp[t] = "probe"
  /\ Name(t) = "range" => rxOp[t] \in {"ctrl", "probe"}
  /\ Name(t) \in {"match", "timings", "vhref"} => rxOp[t] = "timings"
  /\ Name(t) \in {"lock", "unlock"} => rxOp[t] \in {"timings", "isr", "probe"}

\* Where the threads are, and who may meet: the probe is alone.
Places ==
  /\ \A t \in RxThreads : PlaceOf(t)
  /\ rxOp["init"] \in {"none", "probe", "edid", "timings"}
  /\ rxOp["ioctl"] \in {"none", "timings", "ctrl", "edid"} /\ rxOp["irq"] \in {"none", "isr"}
  /\ rx.up => rxOp["init"] # "probe" /\ rxStage \notin {"new", "probed"}
  /\ ~rx.up => rxOp["ioctl"] = "none" /\ rxOp["irq"] = "none"
  /\ rxStage = "new" => ~rx.up /\ rxOp["init"] = "none"
  /\ rxOp["init"] = "edid" => rxStage = "edid"
  /\ rxOp["init"] = "probe" => rxStage = "probed" /\ ~rx.up

\* The rest of a program tells where its thread is, and which calls may meet.
LEMMA Where == Control => Places
<1> SUFFICES ASSUME Control PROVE Places
  OBVIOUS
<1>1. ASSUME NEW t \in RxThreads PROVE PlaceOf(t)
  <2>1. CASE Idle(t)
    <3>1. Name(t) = "idle" /\ rxOp[t] = "none" /\ \A n : ~At(t, n)
      BY <2>1 DEF Control, Name, At
    <3> QED
      BY <3>1 DEF PlaceOf, StepNames, CscNames, IsrNames, EdidNames, RxOps
  <2>2. CASE ~Idle(t)
    <3>1. Name(t) = Head(rxTodo[t])[1] /\ rxOp[t] # "none" /\ \A n : At(t, n) <=> Name(t) = n
      BY <2>2 DEF Control, Name, At
    <3>2. Belongs(rxOp[t], Name(t)) /\ rxOp[t] \in RxOps
      BY <2>2, <3>1 DEF Control, Fits
    <3> QED
      BY <3>1, <3>2
         DEF PlaceOf, Belongs, StepNames, CscNames, IsrNames, EdidNames, RxOps
  <2> QED
    BY <2>1, <2>2
<1>2. rxOp["init"] \in {"none", "probe", "edid", "timings"}
      /\ (rxStage = "new" => rxOp["init"] = "none")
      /\ (rxOp["init"] = "edid" => rxStage = "edid")
      /\ (rxOp["init"] = "probe" => rxStage = "probed")
  BY DEF Control, OpsAt
<1>3. rx.up <=> rxStage \in {"edid", "done"}
  BY DEF Control
<1> QED
  BY <1>1, <1>2, <1>3 DEF Places, Control

-----------------------------------------------------------------------------
(* What the chip no longer flags has been taken in.                        *)

\* Before the chip is reset it flags nothing: the source is not looked at yet.
Fresh == rxStage = "new" \/ Name("init") \in {"high", "core"}

FreshQuiet == Fresh => chip.flags = {} /\ rx.avi = chip.avi

\* An infoframe being unpacked is the last one, or the next is flagged.
ParseKnown == \A t \in RxThreads :
  Name(t) = "parse" => "avi" \in chip.flags \/ Arg(t) = chip.avi

\* A port change is flagged, taken in, or about to be: its flag was read.
PortKnown == \/ "port" \in chip.flags \/ rx.port = chip.port \/ Fresh
             \/ \E t \in RxThreads : Name(t) = "checkPort" /\ "port" \in rx.status

\* An infoframe is flagged, taken in, or about to be.
AviKnown == \/ "avi" \in chip.flags \/ rx.avi = chip.avi
            \/ \E t \in RxThreads : \/ Name(t) \in {"checkPort", "avi"} /\ "avi" \in rx.status
                                    \/ Name(t) = "parse"

\* What the chip no longer flags has been, or is being, taken in.
FlagsInv == FreshQuiet /\ ParseKnown /\ PortKnown /\ AviKnown

\* The steps and the fields they depend on.
FlagNames == {"high", "core", "checkPort", "avi", "parse"}
FlagData  == <<chip.flags, chip.port, chip.avi, rx.port, rx.avi, rx.status>>

\* The probe and the interrupt handler are never both running.
LEMMA OneHandler ==
  ASSUME Places, NEW t \in RxThreads, NEW u \in RxThreads,
         rxOp[t] \in {"isr", "probe"}, rxOp[u] \in {"isr", "probe"}
  PROVE  t = u
BY DEF Places, RxThreads

\* A thread that is not told of keeps its step and its argument.
LEMMA SamePlace ==
  ASSUME NEW u, rxTodo'[u] = rxTodo[u]
  PROVE  Name(u)' = Name(u) /\ Arg(u)' = Arg(u)
BY DEF Name, Arg, Idle

\* A step away from the flags.
LEMMA FlagsStill ==
  ASSUME FlagsInv, NEW t \in RxThreads, UNCHANGED FlagData,
         \A u \in RxThreads : u # t => rxTodo'[u] = rxTodo[u],
         Name(t) \notin FlagNames, Name(t)' \notin FlagNames,
         rxStage' = "new" <=> rxStage = "new"
  PROVE  FlagsInv'
<1>1. \A u \in RxThreads : u # t => Name(u)' = Name(u) /\ Arg(u)' = Arg(u)
  BY SamePlace
<1>2. "init" \in RxThreads
  BY DEF RxThreads
<1>3. Fresh' <=> Fresh
  BY <1>1, <1>2 DEF Fresh, FlagNames
<1>4. /\ chip'.flags = chip.flags /\ chip'.port = chip.port /\ chip'.avi = chip.avi
      /\ rx'.port = rx.port /\ rx'.avi = rx.avi /\ rx'.status = rx.status
  BY DEF FlagData
<1>5. FreshQuiet'
  BY <1>3, <1>4 DEF FlagsInv, FreshQuiet
<1>6. ParseKnown'
  BY <1>1, <1>4 DEF FlagsInv, ParseKnown, FlagNames
<1>7. PortKnown'
  BY <1>1, <1>3, <1>4 DEF FlagsInv, PortKnown, FlagNames
<1>8. AviKnown'
  BY <1>1, <1>4 DEF FlagsInv, AviKnown, FlagNames
<1> QED
  BY <1>5, <1>6, <1>7, <1>8 DEF FlagsInv

\* The steps away from the flags, by name.
LEMMA AwayFromFlags ==
  ASSUME RxTypes, NEW t \in RxThreads, RxStep(t), Name(t) \notin FlagNames \cup {"status", "clear"}
  PROVE  UNCHANGED FlagData /\ Name(t)' \notin FlagNames
<1> USE DEF FlagNames
<1>1. /\ Control /\ Places /\ chip \in ChipType /\ rx \in StateType
      /\ chip.avi \in RxFrames \cup {"rgbfull"}
  BY Where DEF RxTypes, RxTypeOK, ChipType, StateType
<1>2. \A n \in StepNames : At(t, n) => Name(t) = n
  BY <1>1 DEF Places, PlaceOf
<1>3. ~(\/ ReadStatus(t) \/ ClearStatus(t) \/ CheckPort(t) \/ ReadAvi(t) \/ ParseAvi(t)
        \/ HighAtProbe(t) \/ CoreInit(t))
  BY <1>2 DEF ReadStatus, ClearStatus, CheckPort, ReadAvi, ParseAvi, HighAtProbe, CoreInit,
              StepNames, IsrNames
<1>4. CASE Lock(t) \/ Unlock(t) \/ Match(t) \/ StoreTimings(t) \/ ConfigureVhref(t)
  <2>1. Name(t)' \notin FlagNames
    BY <1>1, <1>4, TimingsMoves DEF Goes, Ended
  <2>2. CASE Lock(t) \/ Unlock(t)
    BY <1>1, <2>1, <2>2 DEF Lock, Unlock, StateType, FlagData
  <2>3. CASE Match(t) \/ StoreTimings(t) \/ ConfigureVhref(t)
    BY <1>1, <2>1, <2>3 DEF Match, StoreTimings, ConfigureVhref, StateType, ChipType, FlagData
  <2> QED
    BY <1>4, <2>2, <2>3
<1>5. CASE StoreRange(t) \/ ClearConv(t) \/ ChooseConv(t) \/ StoreConv(t) \/ TestConv(t)
  <2>1. Name(t)' \notin FlagNames
    BY <1>1, <1>5, CscMoves DEF Goes
  <2>2. CASE StoreRange(t)
    BY <1>1, <2>1, <2>2 DEF StoreRange, StateType, FlagData
  <2>3. CASE ClearConv(t)
    BY <1>1, <2>1, <2>3 DEF ClearConv, StateType, FlagData
  <2>4. CASE StoreConv(t)
    BY <1>1, <2>1, <2>4 DEF StoreConv, StateType, FlagData
  <2>5. CASE ChooseConv(t) \/ TestConv(t)
    BY <1>1, <2>1, <2>5 DEF ChooseConv, TestConv, FlagData
  <2> QED
    BY <1>5, <2>2, <2>3, <2>4, <2>5
<1>6. CASE WriteBypass(t)
  <2>1. Name(t)' \notin FlagNames
    BY <1>1, <1>6, CscMoves DEF Goes, Over
  <2> QED
    BY <1>1, <1>6, <2>1 DEF WriteBypass, ChipType, FlagData
<1>7. CASE WriteCoef(t)
  <2>1. Name(t)' \notin FlagNames
    BY <1>1, <1>7, CscMoves DEF Goes, Over
  <2>2. rx' = rx /\ (chip' = chip \/ chip' = [chip EXCEPT !.matrix[Arg(t)] = rx.conv])
    BY <1>7 DEF WriteCoef
  <2> QED
    BY <1>1, <2>1, <2>2 DEF ChipType, FlagData
<1>8. CASE ForgetEdid(t) \/ CancelHpd(t) \/ LowerHpd(t) \/ WriteEdid(t) \/ StoreEdid(t)
             \/ EnableEdid(t)
  <2>1. Name(t)' \notin FlagNames
    BY <1>1, <1>8, EdidMoves DEF Goes, Ended
  <2>2. CASE LowerHpd(t) \/ WriteEdid(t)
    BY <1>1, <2>1, <2>2 DEF LowerHpd, WriteEdid, ChipType, FlagData
  <2>3. CASE ForgetEdid(t) \/ CancelHpd(t)
    BY <1>1, <2>1, <2>3, ZenonT(60) DEF ForgetEdid, CancelHpd, StateType, FlagData
  <2>4. CASE StoreEdid(t) \/ EnableEdid(t)
    BY <1>1, <2>1, <2>4, ZenonT(60) DEF StoreEdid, EnableEdid, StateType, FlagData
  <2> QED
    BY <1>8, <2>2, <2>3, <2>4
<1> QED
  BY <1>3, <1>4, <1>5, <1>6, <1>7, <1>8 DEF RxStep

\* The handler's steps keep what the flags tell.
LEMMA FlagsHandled ==
  ASSUME RxTypes, FlagsInv, NEW t \in RxThreads, RxStep(t),
         Name(t) \in FlagNames \cup {"status", "clear"}
  PROVE  FlagsInv'
<1> USE DEF FlagNames
<1>1. /\ Control /\ Places /\ chip \in ChipType /\ rx \in StateType
      /\ chip.avi \in RxFrames \cup {"rgbfull"}
  BY Where DEF RxTypes, RxTypeOK, ChipType, StateType
<1>2. \A n \in StepNames : At(t, n) <=> Name(t) = n
  BY <1>1 DEF Places, PlaceOf
<1>3. \A u \in RxThreads : u # t => Name(u)' = Name(u) /\ Arg(u)' = Arg(u)
  BY <1>1, SamePlace, StepFrame
<1>4. rxOp[t] \in {"isr", "probe"} /\ rxStage' = rxStage
  BY <1>1, StepFrame DEF Places, PlaceOf
<1>5. \A u \in RxThreads : u # t => Name(u) \notin FlagNames \cup {"status", "clear"}
  BY <1>1, <1>4, OneHandler DEF Places, PlaceOf
<1>6. rxStage # "new" /\ "init" \in RxThreads
  BY <1>1, <1>4 DEF Places, RxThreads
<1>7. CASE ReadStatus(t)
  <2>1. Name(t) = "status" /\ chip' = chip /\ rx' = [rx EXCEPT !.status = chip.flags]
    BY <1>2, <1>7 DEF ReadStatus, StepNames, IsrNames
  <2>2. rx'.port = rx.port /\ rx'.avi = rx.avi
    BY <1>1, <2>1 DEF StateType
  <2>3. Name(t)' = "clear"
    BY <1>1, <1>7, IsrMoves DEF Goes
  <2>4. ~Fresh' /\ ~Fresh
    BY <1>3, <1>4, <1>5, <1>6, <2>1, <2>3 DEF Fresh
  <2> QED
    BY <1>3, <1>5, <2>1, <2>2, <2>3, <2>4
       DEF FlagsInv, FreshQuiet, ParseKnown, PortKnown, AviKnown
<1>8. CASE ClearStatus(t)
  <2>1. Name(t) = "clear" /\ rx' = rx /\ chip' = [chip EXCEPT !.flags = chip.flags \ rx.status]
    BY <1>2, <1>8 DEF ClearStatus, StepNames, IsrNames
  <2>2. /\ chip'.port = chip.port /\ chip'.avi = chip.avi
        /\ chip'.flags = chip.flags \ rx.status
    BY <1>1, <2>1 DEF ChipType
  <2>3. Name(t)' = "checkPort"
    BY <1>1, <1>8, IsrMoves DEF Goes
  <2>4. ~Fresh' /\ ~Fresh
    BY <1>3, <1>4, <1>5, <1>6, <2>1, <2>3 DEF Fresh
  <2> QED
    BY <1>3, <1>5, <2>1, <2>2, <2>3, <2>4
       DEF FlagsInv, FreshQuiet, ParseKnown, PortKnown, AviKnown
<1>9. CASE CheckPort(t)
  <2>1. /\ Name(t) = "checkPort" /\ chip' = chip
        /\ rx' = IF "port" \in rx.status THEN [rx EXCEPT !.port = chip.port] ELSE rx
    BY <1>2, <1>9 DEF CheckPort, StepNames, IsrNames
  <2>2. /\ rx'.port = IF "port" \in rx.status THEN chip.port ELSE rx.port
        /\ rx'.avi = rx.avi /\ rx'.status = rx.status
    BY <1>1, <2>1 DEF StateType
  <2>3. Name(t)' = "avi"
    BY <1>1, <1>9, IsrMoves DEF Goes
  <2>4. ~Fresh' /\ ~Fresh
    BY <1>3, <1>4, <1>5, <1>6, <2>1, <2>3 DEF Fresh
  <2> QED
    BY <1>3, <1>5, <2>1, <2>2, <2>3, <2>4
       DEF FlagsInv, FreshQuiet, ParseKnown, PortKnown, AviKnown
<1>10. CASE ReadAvi(t)
  <2>1. Name(t) = "avi" /\ chip' = chip /\ rx' = rx
    BY <1>2, <1>10 DEF ReadAvi, StepNames, IsrNames
  <2>2. IF "avi" \in rx.status THEN Name(t)' = "parse" /\ Arg(t)' = chip.avi
                               ELSE Name(t)' = "unlock"
    BY <1>1, <1>10, IsrMoves DEF Goes
  <2>3. ~Fresh' /\ ~Fresh
    BY <1>3, <1>4, <1>5, <1>6, <2>1, <2>2 DEF Fresh
  <2> QED
    BY <1>3, <1>5, <2>1, <2>2, <2>3
       DEF FlagsInv, FreshQuiet, ParseKnown, PortKnown, AviKnown
<1>11. CASE ParseAvi(t)
  <2>1. Name(t) = "parse" /\ chip' = chip
    BY <1>2, <1>11 DEF ParseAvi, StepNames, IsrNames
  <2>2. \/ /\ rx' = [rx EXCEPT !.avi = Arg(t), !.col = Colorimetry(Arg(t), rx.range)]
           /\ Name(t)' = "null"
        \/ "avi" \in chip.flags /\ rx' = rx /\ Name(t)' = "unlock"
    BY <1>1, <1>11, IsrMoves DEF Goes
  <2>3. /\ rx'.port = rx.port /\ rx'.status = rx.status
        /\ rx'.avi = Arg(t) \/ (rx'.avi = rx.avi /\ "avi" \in chip.flags)
    BY <1>1, <2>2 DEF StateType
  <2>4. ~Fresh' /\ ~Fresh
    BY <1>3, <1>4, <1>5, <1>6, <2>1, <2>2 DEF Fresh
  <2> QED
    BY <1>3, <1>5, <2>1, <2>2, <2>3, <2>4
       DEF FlagsInv, FreshQuiet, ParseKnown, PortKnown, AviKnown
<1>12. CASE HighAtProbe(t)
  <2>1. Name(t) = "high" /\ rx' = rx /\ chip' = [chip EXCEPT !.hpd = TRUE]
    BY <1>2, <1>12 DEF HighAtProbe, StepNames
  <2>2. chip'.port = chip.port /\ chip'.avi = chip.avi /\ chip'.flags = chip.flags
    BY <1>1, <2>1 DEF ChipType
  <2>3. Name(t)' = "core" /\ t = "init"
    BY <1>1, <1>12, <2>1, IsrMoves DEF Goes, Places, PlaceOf, RxThreads
  <2>4. Fresh' /\ Fresh
    BY <2>1, <2>3 DEF Fresh
  <2> QED
    BY <1>3, <1>5, <2>1, <2>2, <2>3, <2>4
       DEF FlagsInv, FreshQuiet, ParseKnown, PortKnown, AviKnown
<1>13. CASE CoreInit(t)
  <2>1. /\ Name(t) = "core" /\ rx' = [rx EXCEPT !.conv = "RGBLIM", !.port = chip.port]
        /\ chip' = [chip EXCEPT !.flags = {}, !.matrix = [i \in 1 .. 2 |-> "RGBLIM"],
                                !.bypass = FALSE]
    BY <1>2, <1>13 DEF CoreInit, StepNames
  <2>2. /\ chip'.port = chip.port /\ chip'.avi = chip.avi
        /\ rx'.port = chip.port /\ rx'.avi = rx.avi
    BY <1>1, <2>1 DEF ChipType, StateType
  <2>3. Name(t)' = "range" /\ t = "init"
    BY <1>1, <1>13, <2>1, IsrMoves DEF Goes, Places, PlaceOf, RxThreads
  <2>4. ~Fresh' /\ Fresh
    BY <1>4, <1>6, <2>1, <2>3 DEF Fresh
  <2> QED
    BY <1>3, <1>5, <2>1, <2>2, <2>3, <2>4
       DEF FlagsInv, FreshQuiet, ParseKnown, PortKnown, AviKnown
<1> QED
  <2>1. \/ At(t, "status") \/ At(t, "clear") \/ At(t, "checkPort") \/ At(t, "avi")
        \/ At(t, "parse") \/ At(t, "high") \/ At(t, "core")
    BY <1>2 DEF StepNames, IsrNames
  <2>2. \A n \in StepNames, m \in StepNames : At(t, n) /\ At(t, m) => n = m
    BY <1>2
  <2> QED
    BY <1>7, <1>8, <1>9, <1>10, <1>11, <1>12, <1>13, <1>2
       DEF RxStep, StepNames, IsrNames, CscNames, EdidNames, Lock, Unlock, Match, StoreTimings,
           ConfigureVhref, StoreRange, ClearConv, ChooseConv, StoreConv, TestConv, WriteBypass,
           WriteCoef, ForgetEdid, CancelHpd, LowerHpd, WriteEdid, StoreEdid, EnableEdid

\* Every step keeps what the flags tell.
LEMMA FlagsNext == RxTypes /\ FlagsInv /\ [RxNext]_rxVars => FlagsInv'
<1> SUFFICES ASSUME RxTypes, FlagsInv, [RxNext]_rxVars PROVE FlagsInv'
  OBVIOUS
<1>1. Control /\ Places /\ chip \in ChipType /\ rx \in StateType
  BY Where DEF RxTypes, RxTypeOK, ChipType, StateType
<1>2. "init" \in RxThreads /\ "ioctl" \in RxThreads /\ "irq" \in RxThreads
  BY DEF RxThreads
<1>3. \A t \in RxThreads, n \in StepNames : At(t, n) <=> Name(t) = n
  BY <1>1 DEF Places, PlaceOf
<1>4. CASE PortEvent \/ AviEvent
  <2>1. /\ rxStage # "new" /\ ~(\E t \in RxThreads : At(t, "high") \/ At(t, "core"))
        /\ UNCHANGED <<rxTodo, rxOp, rxStage>>
        /\ rx' = [rx EXCEPT !.work = @ \/ (chip.flags = {} /\ rx.up)]
    BY <1>4 DEF PortEvent, AviEvent, SourceEvent
  <2>2. \A t \in RxThreads : Name(t)' = Name(t) /\ Arg(t)' = Arg(t)
    BY <2>1, SamePlace
  <2>3. ~Fresh /\ ~Fresh'
    BY <1>2, <1>3, <2>1, <2>2 DEF Fresh, StepNames
  <2>4. rx'.port = rx.port /\ rx'.avi = rx.avi /\ rx'.status = rx.status
    BY <1>1, <2>1 DEF StateType
  <2>5. \/ "port" \in chip'.flags /\ chip'.avi = chip.avi /\ chip.flags \subseteq chip'.flags
        \/ "avi" \in chip'.flags /\ chip'.port = chip.port /\ chip.flags \subseteq chip'.flags
    <3>1. CASE PortEvent
      <4>1. chip' = [chip EXCEPT !.port = ~chip.port, !.flags = chip.flags \cup {"port"}]
        BY <1>1, <3>1 DEF PortEvent, SourceEvent, ChipType
      <4> QED
        BY <1>1, <4>1 DEF ChipType
    <3>2. CASE AviEvent
      <4>1. PICK f \in RxFrames :
              chip' = [chip EXCEPT !.avi = f, !.flags = chip.flags \cup {"avi"}]
        BY <1>1, <3>2 DEF AviEvent, SourceEvent, ChipType
      <4> QED
        BY <1>1, <4>1 DEF ChipType
    <3> QED
      BY <1>4, <3>1, <3>2
  <2> QED
    BY <2>2, <2>3, <2>4, <2>5 DEF FlagsInv, FreshQuiet, ParseKnown, PortKnown, AviKnown
<1>5. CASE IrqWork
  <2>1. UNCHANGED <<chip, rxStage>> /\ rx' = [rx EXCEPT !.work = FALSE] /\ Begin("irq", "isr", Isr)
    BY <1>5 DEF IrqWork
  <2>2. UNCHANGED FlagData
    BY <1>1, <2>1 DEF FlagData, StateType
  <2>3. Name("irq") = "idle" /\ Name("irq")' = "lock"
    BY <1>1, <1>5, <2>1, CallMoves DEF Begin, Name
  <2>4. \A u \in RxThreads : u # "irq" => rxTodo'[u] = rxTodo[u]
    BY <1>1, <2>1 DEF Begin, Control
  <2> QED
    BY <1>2, <2>1, <2>2, <2>3, <2>4, FlagsStill DEF FlagNames
<1>6. CASE InitCall
  <2>1. UNCHANGED chip /\ (rx' = rx \/ rx' = [rx EXCEPT !.up = TRUE])
        /\ \E op, steps : Begin("init", op, steps)
    BY <1>6 DEF InitCall
  <2>2. UNCHANGED FlagData
    BY <1>1, <2>1 DEF FlagData, StateType
  <2>3. Name("init") = "idle"
    BY <2>1 DEF Begin, Name
  <2>4. \A u \in RxThreads : u # "init" => rxTodo'[u] = rxTodo[u]
    BY <1>1, <2>1 DEF Begin, Control
  <2>5. \/ rxStage = "new" /\ Name("init")' = "high"
        \/ rxStage = "probed" /\ rxStage' = "edid" /\ Name("init")' = "cancel"
        \/ rxStage = "edid" /\ rxStage' = "done" /\ Name("init")' = "match"
    BY <1>1, <1>6, CallMoves
  <2>6. CASE rxStage = "new" /\ Name("init")' = "high"
    <3>1. Fresh /\ Fresh'
      BY <2>6 DEF Fresh
    <3>2. \A u \in RxThreads : u # "init" => Name(u)' = Name(u) /\ Arg(u)' = Arg(u)
      BY <2>4, SamePlace
    <3> QED
      BY <2>2, <2>3, <2>6, <3>1, <3>2
         DEF FlagsInv, FreshQuiet, ParseKnown, PortKnown, AviKnown, FlagData
  <2>7. CASE rxStage # "new"
    BY <1>2, <2>2, <2>3, <2>4, <2>5, <2>7, FlagsStill DEF FlagNames
  <2> QED
    BY <2>5, <2>6, <2>7
<1>7. CASE IoctlCall
  <2>1. UNCHANGED <<chip, rx, rxStage>> /\ \E op, steps : Begin("ioctl", op, steps)
    BY <1>7 DEF IoctlCall
  <2>2. UNCHANGED FlagData
    BY <2>1 DEF FlagData
  <2>3. Name("ioctl") = "idle" /\ Name("ioctl")' \in {"match", "range", "forget", "cancel"}
    BY <1>1, <1>7, <2>1, CallMoves DEF Begin, Name
  <2>4. \A u \in RxThreads : u # "ioctl" => rxTodo'[u] = rxTodo[u]
    BY <1>1, <2>1 DEF Begin, Control
  <2> QED
    BY <1>2, <2>1, <2>2, <2>3, <2>4, FlagsStill DEF FlagNames
<1>8. CASE HpdWork \/ UNCHANGED rxVars
  <2>1. UNCHANGED <<rxTodo, rxStage>>
    BY <1>8 DEF HpdWork, rxVars
  <2>2. UNCHANGED FlagData
    <3>1. chip' = chip \/ chip' = [chip EXCEPT !.hpd = TRUE]
      BY <1>8 DEF HpdWork, rxVars
    <3>2. \/ rx' = rx \/ rx' = [rx EXCEPT !.dwork = "running"]
          \/ rx' = [rx EXCEPT !.dwork = "idle", !.present = TRUE]
      BY <1>8 DEF HpdWork, rxVars
    <3>3. chip'.flags = chip.flags /\ chip'.port = chip.port /\ chip'.avi = chip.avi
      BY <1>1, <3>1 DEF ChipType
    <3>4. rx'.port = rx.port /\ rx'.avi = rx.avi /\ rx'.status = rx.status
      BY <1>1, <3>2 DEF StateType
    <3> QED
      BY <3>3, <3>4 DEF FlagData
  <2>3. \A t \in RxThreads : Name(t)' = Name(t) /\ Arg(t)' = Arg(t)
    BY <2>1, SamePlace
  <2>4. Fresh' <=> Fresh
    BY <1>2, <2>1, <2>3 DEF Fresh
  <2> QED
    BY <2>2, <2>3, <2>4
       DEF FlagsInv, FreshQuiet, ParseKnown, PortKnown, AviKnown, FlagData
<1>9. ASSUME NEW t \in RxThreads, RxStep(t) PROVE FlagsInv'
  <2>1. CASE Name(t) \in FlagNames \cup {"status", "clear"}
    BY <1>9, <2>1, FlagsHandled
  <2>2. CASE Name(t) \notin FlagNames \cup {"status", "clear"}
    <3>1. UNCHANGED FlagData /\ Name(t)' \notin FlagNames
      BY <1>9, <2>2, AwayFromFlags
    <3>2. (\A u \in RxThreads : u # t => rxTodo'[u] = rxTodo[u]) /\ rxStage' = rxStage
      BY <1>1, <1>9, StepFrame
    <3> QED
      BY <2>2, <3>1, <3>2, FlagsStill
  <2> QED
    BY <2>1, <2>2
<1> QED
  BY <1>4, <1>5, <1>6, <1>7, <1>8, <1>9 DEF RxNext

\* A chip that was not looked at flags nothing.
LEMMA FlagsInit == RxInit => FlagsInv
BY DEF RxInit, FlagsInv, FreshQuiet, ParseKnown, PortKnown, AviKnown, Fresh, Name, Idle

\* When no handler runs, what is not flagged is known.
LEMMA FlagsSay == RxTypes /\ FlagsInv => FlagsTellNews
<1> SUFFICES ASSUME RxTypes, FlagsInv, rx.up, rxOp["irq"] = "none"
             PROVE  /\ "port" \in chip.flags \/ rx.port = chip.port
                    /\ "avi" \in chip.flags \/ rx.avi = chip.avi
  BY DEF FlagsTellNews
<1>1. Places
  BY Where DEF RxTypes
<1>2. \A t \in RxThreads : Name(t) \notin {"checkPort", "avi", "parse"}
  BY <1>1 DEF Places, PlaceOf, RxThreads
<1>3. ~Fresh
  BY <1>1 DEF Places, PlaceOf, RxThreads, Fresh
<1> QED
  BY <1>2, <1>3 DEF FlagsInv, PortKnown, AviKnown

-----------------------------------------------------------------------------
(* state->lock.                                                            *)

Outside == {"idle", "match", "lock", "dead"} \cup EdidNames

\* Thread t is between two steps that touch the timings, the infoframe or the matrix.
Inside(t) == Name(t) \notin Outside

\* s_dv_timings() and the interrupt handler hold the lock there.
LockInv == \A t \in RxThreads : Inside(t) /\ rxOp[t] \in {"timings", "isr"} => rx.lock = t

\* Only the lock lets a thread in, and only the lock's steps change it.
LEMMA StepShape ==
  ASSUME RxTypes, NEW t \in RxThreads, RxStep(t)
  PROVE  \/ /\ Name(t) = "lock" /\ rx.lock = "free" /\ chip' = chip
            /\ rx' = [rx EXCEPT !.lock = t] /\ rx'.lock = t
            /\ Name(t)' = IF rxOp[t] = "timings" THEN "timings" ELSE "status"
         \/ /\ Name(t) = "unlock" /\ chip' = chip /\ rx' = [rx EXCEPT !.lock = "free"]
            /\ Name(t)' = "idle"
         \/ rx'.lock = rx.lock /\ (Inside(t) \/ ~Inside(t)')
<1> USE DEF Inside, Outside
<1>1. Control /\ Places /\ rx \in StateType /\ chip.avi \in RxFrames \cup {"rgbfull"}
  BY Where DEF RxTypes, RxTypeOK, StateType
<1>2. \A n \in StepNames : At(t, n) <=> Name(t) = n
  BY <1>1 DEF Places, PlaceOf
<1>3. CASE Lock(t)
  <2>1. Name(t) = "lock" /\ rx.lock = "free" /\ chip' = chip /\ rx' = [rx EXCEPT !.lock = t]
    BY <1>2, <1>3 DEF Lock, StepNames, IsrNames
  <2>2. rx'.lock = t
    BY <1>1, <2>1 DEF StateType
  <2> QED
    BY <1>1, <1>3, <2>1, <2>2, TimingsMoves DEF Goes
<1>4. CASE Unlock(t)
  <2>1. Name(t) = "unlock" /\ chip' = chip /\ rx' = [rx EXCEPT !.lock = "free"]
    BY <1>2, <1>4 DEF Unlock, StepNames, IsrNames
  <2> QED
    BY <1>1, <1>4, <2>1, TimingsMoves DEF Ended
<1>5. CASE Match(t)
  BY <1>1, <1>5, TimingsMoves DEF Match, Goes, Ended
<1>6. CASE StoreTimings(t) \/ ConfigureVhref(t)
  <2>1. Inside(t)
    BY <1>2, <1>6 DEF StoreTimings, ConfigureVhref, StepNames, EdidNames
  <2> QED
    BY <1>1, <1>6, <2>1 DEF StoreTimings, ConfigureVhref, StateType
<1>7. CASE StoreRange(t) \/ ClearConv(t)
  <2>1. Inside(t)
    BY <1>2, <1>7 DEF StoreRange, ClearConv, StepNames, CscNames, EdidNames
  <2> QED
    BY <1>1, <1>7, <2>1 DEF StoreRange, ClearConv, StateType
<1>8. CASE ChooseConv(t) \/ StoreConv(t) \/ TestConv(t)
  <2>1. Inside(t)
    BY <1>2, <1>8 DEF ChooseConv, StoreConv, TestConv, StepNames, CscNames, EdidNames
  <2> QED
    BY <1>1, <1>8, <2>1 DEF ChooseConv, StoreConv, TestConv, StateType
<1>9. CASE WriteBypass(t) \/ WriteCoef(t)
  <2>1. Inside(t)
    BY <1>2, <1>9 DEF WriteBypass, WriteCoef, StepNames, CscNames, EdidNames
  <2> QED
    BY <1>9, <2>1 DEF WriteBypass, WriteCoef
<1>10. CASE ReadStatus(t) \/ ClearStatus(t) \/ CheckPort(t)
  <2>1. Inside(t)
    BY <1>2, <1>10 DEF ReadStatus, ClearStatus, CheckPort, StepNames, IsrNames, EdidNames
  <2> QED
    BY <1>1, <1>10, <2>1 DEF ReadStatus, ClearStatus, CheckPort, StateType
<1>11. CASE ReadAvi(t) \/ ParseAvi(t)
  <2>1. Inside(t)
    BY <1>2, <1>11 DEF ReadAvi, ParseAvi, StepNames, IsrNames, EdidNames
  <2> QED
    BY <1>1, <1>11, <2>1 DEF ReadAvi, ParseAvi, StateType
<1>12. CASE HighAtProbe(t) \/ CoreInit(t)
  <2>1. Inside(t)
    BY <1>2, <1>12 DEF HighAtProbe, CoreInit, StepNames, EdidNames
  <2> QED
    BY <1>1, <1>12, <2>1 DEF HighAtProbe, CoreInit, StateType
<1>13. CASE ForgetEdid(t) \/ CancelHpd(t) \/ LowerHpd(t) \/ WriteEdid(t) \/ StoreEdid(t)
              \/ EnableEdid(t)
  <2>1. ~Inside(t)'
    BY <1>1, <1>13, EdidMoves DEF Goes, Ended, EdidNames
  <2>2. CASE ForgetEdid(t) \/ CancelHpd(t) \/ LowerHpd(t)
    BY <1>1, <2>1, <2>2 DEF ForgetEdid, CancelHpd, LowerHpd, StateType
  <2>3. CASE WriteEdid(t) \/ StoreEdid(t) \/ EnableEdid(t)
    BY <1>1, <2>1, <2>3 DEF WriteEdid, StoreEdid, EnableEdid, StateType
  <2> QED
    BY <1>13, <2>2, <2>3
<1> QED
  BY <1>3, <1>4, <1>5, <1>6, <1>7, <1>8, <1>9, <1>10, <1>11, <1>12, <1>13 DEF RxStep

\* Entering a call takes the thread to a step outside, but for the calls without
\* the lock.
LEMMA BeginOutside ==
  ASSUME RxTypes, IrqWork \/ InitCall \/ IoctlCall
  PROVE  \E t \in RxThreads :
           /\ Name(t) = "idle" /\ rxOp[t] = "none" /\ Control'
           /\ ~Inside(t)' \/ rxOp'[t] \in {"probe", "ctrl"}
           /\ \A u \in RxThreads : u # t => rxTodo'[u] = rxTodo[u] /\ rxOp'[u] = rxOp[u]
<1> USE DEF Inside, Outside
<1>1. Control /\ rx \in StateType
  BY DEF RxTypes, RxTypeOK, StateType
<1>2. ASSUME NEW t \in RxThreads, NEW op, NEW steps, Begin(t, op, steps)
      PROVE  /\ Name(t) = "idle" /\ rxOp[t] = "none"
             /\ \A u \in RxThreads : u # t => rxTodo'[u] = rxTodo[u] /\ rxOp'[u] = rxOp[u]
  BY <1>1, <1>2 DEF Begin, Control, Name
<1>3. "init" \in RxThreads /\ "ioctl" \in RxThreads /\ "irq" \in RxThreads
  BY DEF RxThreads
<1>4. CASE IrqWork
  <2>1. Control' /\ Name("irq")' = "lock" /\ Begin("irq", "isr", Isr)
    BY <1>1, <1>4, CallMoves DEF IrqWork
  <2> QED
    BY <1>2, <1>3, <2>1
<1>5. CASE InitCall
  <2>1. Control' /\ \/ Name("init")' = "high" /\ rxOp'["init"] = "probe"
                    \/ Name("init")' \in {"cancel", "match"}
    BY <1>1, <1>5, CallMoves
  <2>2. \E op, steps : Begin("init", op, steps)
    BY <1>5 DEF InitCall
  <2> QED
    BY <1>2, <1>3, <2>1, <2>2 DEF EdidNames
<1>6. CASE IoctlCall
  <2>1. Control' /\ \/ Name("ioctl")' = "range" /\ rxOp'["ioctl"] = "ctrl"
                    \/ Name("ioctl")' \in {"match", "forget", "cancel"}
    BY <1>1, <1>6, CallMoves
  <2>2. \E op, steps : Begin("ioctl", op, steps)
    BY <1>6 DEF IoctlCall
  <2> QED
    BY <1>2, <1>3, <2>1, <2>2 DEF EdidNames
<1> QED
  BY <1>4, <1>5, <1>6

\* Every step keeps the lock with the thread that is inside.
LEMMA LockNext == RxTypes /\ LockInv /\ [RxNext]_rxVars => LockInv'
<1> SUFFICES ASSUME RxTypes, LockInv, [RxNext]_rxVars PROVE LockInv'
  OBVIOUS
<1>1. Control /\ Places /\ rx \in StateType /\ chip.avi \in RxFrames \cup {"rgbfull"}
  BY Where DEF RxTypes, RxTypeOK, StateType
<1>2. ASSUME NEW t \in RxThreads, RxStep(t) PROVE LockInv'
  <2>1. \A u \in RxThreads : u # t => Name(u)' = Name(u) /\ rxOp'[u] = rxOp[u]
    BY <1>1, <1>2, StepFrame, SamePlace
  <2>2. rxOp'[t] \in {rxOp[t], "none"}
    BY <1>1, <1>2, ControlStep
  <2>3. CASE Name(t) = "lock" /\ rx.lock = "free" /\ rx'.lock = t
    BY <2>1, <2>3 DEF LockInv, Inside, RxThreads
  <2>4. CASE Name(t) = "unlock" /\ Name(t)' = "idle" /\ rx' = [rx EXCEPT !.lock = "free"]
    <3>1. \A u \in RxThreads : u # t => ~(Inside(u) /\ rxOp[u] \in {"timings", "isr"})
      <4>1. CASE rxOp[t] \in {"timings", "isr"}
        <5>1. rx.lock = t
          BY <2>4, <4>1 DEF LockInv, Inside, Outside, EdidNames
        <5> QED
          BY <5>1 DEF LockInv
      <4>2. CASE rxOp[t] = "probe"
        BY <1>1, <4>2 DEF Places, RxThreads
      <4> QED
        BY <1>1, <2>4, <4>1, <4>2 DEF Places, PlaceOf
    <3> QED
      BY <2>1, <2>4, <3>1 DEF LockInv, Inside, Outside
  <2>5. CASE rx'.lock = rx.lock /\ (Inside(t) \/ ~Inside(t)')
    BY <2>1, <2>2, <2>5 DEF LockInv, Inside
  <2> QED
    BY <1>2, <2>3, <2>4, <2>5, StepShape
<1>3. CASE IrqWork \/ InitCall \/ IoctlCall
  <2>1. rx'.lock = rx.lock
    <3>1. rx' = rx \/ rx' = [rx EXCEPT !.work = FALSE] \/ rx' = [rx EXCEPT !.up = TRUE]
      BY <1>3 DEF IrqWork, InitCall, IoctlCall
    <3> QED
      BY <1>1, <3>1 DEF StateType
  <2> QED
    BY <1>3, <2>1, BeginOutside, SamePlace DEF LockInv, Inside
<1>4. CASE PortEvent \/ AviEvent \/ HpdWork \/ UNCHANGED rxVars
  <2>1. UNCHANGED <<rxTodo, rxOp>>
    BY <1>4 DEF PortEvent, AviEvent, SourceEvent, HpdWork, rxVars
  <2>2. rx'.lock = rx.lock
    <3>1. \/ rx' = rx \/ rx' = [rx EXCEPT !.work = @ \/ (chip.flags = {} /\ rx.up)]
          \/ rx' = [rx EXCEPT !.dwork = "running"]
          \/ rx' = [rx EXCEPT !.dwork = "idle", !.present = TRUE]
      BY <1>4 DEF PortEvent, AviEvent, SourceEvent, HpdWork, rxVars
    <3> QED
      BY <1>1, <3>1 DEF StateType
  <2> QED
    BY <2>1, <2>2, SamePlace DEF LockInv, Inside
<1> QED
  BY <1>2, <1>3, <1>4 DEF RxNext

\* No thread is inside before the probe.
LEMMA LockInit == RxInit => LockInv
BY DEF RxInit, LockInv, Inside, Outside, Name, Idle

-----------------------------------------------------------------------------
(* Colours.                                                                *)

\* The chip converts by one whole matrix, the one for the infoframe and the range.
Converts ==
  /\ rx.col = Colorimetry(rx.avi, rx.range)
  /\ rx.conv = Choice(rx.col)
  /\ chip.bypass = (rx.conv = "NULL")
  /\ ~chip.bypass => \A i \in 1 .. 2 : chip.matrix[i] = rx.conv

\* What is true of the colours while thread t is about to do its step.
Colours(t) ==
  /\ Name(t) # "vhref" => chip.vhref = rx.timings
  /\ Name(t) \in {"timings", "vhref", "status", "clear", "checkPort", "avi", "parse", "unlock"} =>
       Converts
  /\ Name(t) \notin {"high", "core", "range"} => rx.col = Colorimetry(rx.avi, rx.range)
  /\ Name(t) \in {"choose", "conv"} => rx.conv = "NULL"
  /\ Name(t) = "conv" => Arg(t) = Choice(rx.col)
  /\ Name(t) \in {"test", "bypass", "matrix", "coef"} => rx.conv = Choice(rx.col)
  /\ Name(t) = "bypass" => rx.conv = "NULL"
  /\ Name(t) \in {"matrix", "coef"} => rx.conv # "NULL"
  /\ Name(t) = "coef" => ~chip.bypass /\ (Arg(t) = 2 => chip.matrix[1] = rx.conv)

\* s_ctrl has met no other call that converts colours, and no thread is dead.
Apart == /\ rxOp["ioctl"] = "ctrl" => rxOp["init"] \notin CscOps /\ rxOp["irq"] \notin CscOps
         /\ \A t \in RxThreads : Name(t) # "dead"

\* When no thread is inside, the matrix is whole.
AtRest == rxStage # "new" /\ (\A t \in RxThreads : ~Inside(t)) =>
            Converts /\ chip.vhref = rx.timings

\* At rest the matrix is whole; a thread inside has it as far as its step tells.
ColourInv ==
  "csc" \notin rxRaced =>
    /\ Apart /\ AtRest
    /\ \A t \in RxThreads : Inside(t) => Colours(t)
    /\ rxStage = "new" => chip.vhref = rx.timings

\* The fields the colours depend on.
ColourData == <<rx.col, rx.avi, rx.range, rx.conv, rx.timings,
                chip.vhref, chip.bypass, chip.matrix>>

\* Two threads are never both inside.
LEMMA OneInside ==
  ASSUME Places, LockInv, Apart, NEW t \in RxThreads, NEW u \in RxThreads, Inside(t), Inside(u)
  PROVE  t = u
<1>1. \A v \in RxThreads : Inside(v) => rxOp[v] \in {"timings", "isr", "ctrl", "probe"}
  BY DEF Places, PlaceOf, Inside, Outside, RxOps
<1>2. CASE rxOp[t] \in {"timings", "isr"} /\ rxOp[u] \in {"timings", "isr"}
  BY <1>2 DEF LockInv
<1>3. CASE rxOp[t] = "probe" \/ rxOp[u] = "probe"
  BY <1>1, <1>3 DEF Places, RxThreads
<1>4. CASE (rxOp[t] = "ctrl" \/ rxOp[u] = "ctrl") /\ rxOp[t] # "probe" /\ rxOp[u] # "probe"
  BY <1>1, <1>4 DEF Places, RxThreads, Apart, CscOps
<1> QED
  BY <1>1, <1>2, <1>3, <1>4

\* A step of the one thread that is inside, or enters.
LEMMA ColoursAlone ==
  ASSUME RxTypes, ColourInv, "csc" \notin rxRaced, NEW t \in RxThreads, RxStep(t),
         \A u \in RxThreads : u # t => ~Inside(u),
         Name(t)' # "dead", Inside(t)' => Colours(t)',
         ~Inside(t)' => Converts' /\ chip'.vhref = rx'.timings
  PROVE  ColourInv'
<1>1. Control /\ Places /\ chip.avi \in RxFrames \cup {"rgbfull"}
  BY Where DEF RxTypes, RxTypeOK
<1>2. /\ \A u \in RxThreads : u # t => Name(u)' = Name(u) /\ rxOp'[u] = rxOp[u]
      /\ UNCHANGED <<rxStage, rxRaced>>
  BY <1>1, StepFrame, SamePlace
<1>3. rxOp'[t] \in {rxOp[t], "none"} /\ rxOp[t] # "none"
  <2>1. rxOp[t] # "none"
    BY <1>1, StepFrame DEF Control
  <2> QED
    BY <1>1, <2>1, ControlStep
<1>4. rxStage # "new"
  BY <1>1, <1>3 DEF Places, RxThreads
<1>5. Apart'
  BY <1>2, <1>3 DEF ColourInv, Apart, RxThreads, CscOps
<1>6. AtRest'
  BY <1>2 DEF AtRest
<1>7. \A u \in RxThreads : Inside(u)' => Colours(u)'
  BY <1>2 DEF Inside
<1> QED
  BY <1>2, <1>4, <1>5, <1>6, <1>7 DEF ColourInv

\* What a thread away from the colours leaves true.
LEMMA ColoursKept ==
  ASSUME UNCHANGED ColourData
  PROVE  /\ Converts' <=> Converts
         /\ chip'.vhref = rx'.timings <=> chip.vhref = rx.timings
         /\ \A u \in RxThreads :
              Name(u)' = Name(u) /\ Arg(u)' = Arg(u) => (Colours(u)' <=> Colours(u))
<1>1. /\ rx'.col = rx.col /\ rx'.avi = rx.avi /\ rx'.range = rx.range /\ rx'.conv = rx.conv
      /\ rx'.timings = rx.timings /\ chip'.vhref = chip.vhref /\ chip'.bypass = chip.bypass
      /\ chip'.matrix = chip.matrix
  BY DEF ColourData
<1>2. Converts' <=> Converts
  BY <1>1 DEF Converts
<1> QED
  BY <1>1, <1>2 DEF Colours

\* A step outside that leaves the colours alone.
LEMMA ColoursStill ==
  ASSUME RxTypes, ColourInv, NEW t \in RxThreads, RxStep(t), ~Inside(t), ~Inside(t)',
         Name(t)' # "dead", UNCHANGED ColourData
  PROVE  ColourInv'
<1>1. Control /\ Places /\ chip.avi \in RxFrames \cup {"rgbfull"}
  BY Where DEF RxTypes, RxTypeOK
<1>2. /\ \A u \in RxThreads : u # t => /\ Name(u)' = Name(u) /\ Arg(u)' = Arg(u)
                                       /\ rxOp'[u] = rxOp[u]
      /\ UNCHANGED <<rxStage, rxRaced>>
  BY <1>1, StepFrame, SamePlace
<1>3. rxOp'[t] \in {rxOp[t], "none"}
  BY <1>1, ControlStep
<1> SUFFICES ASSUME "csc" \notin rxRaced
             PROVE  /\ Apart' /\ AtRest'
                    /\ \A u \in RxThreads : Inside(u)' => Colours(u)'
                    /\ rxStage' = "new" => chip'.vhref = rx'.timings
  BY <1>2 DEF ColourInv
<1>4. \A u \in RxThreads : Inside(u)' <=> Inside(u)
  BY <1>2 DEF Inside
<1>5. Apart'
  BY <1>2, <1>3 DEF ColourInv, Apart, RxThreads, CscOps
<1>6. AtRest' /\ (rxStage' = "new" => chip'.vhref = rx'.timings)
  BY <1>2, <1>4, ColoursKept DEF ColourInv, AtRest
<1>7. \A u \in RxThreads : Inside(u)' => Colours(u)'
  BY <1>2, <1>4, ColoursKept DEF ColourInv
<1> QED
  BY <1>5, <1>6, <1>7

\* What the step of a thread inside comes to.
ColoursGo(t) == /\ Name(t)' # "dead"
                /\ Inside(t)' => Colours(t)'
                /\ ~Inside(t)' => Converts' /\ chip'.vhref = rx'.timings

\* A thread whose configure_csc() is over leaves a whole matrix.
LEMMA ColoursOver ==
  ASSUME NEW t, Over(t)', Converts', chip'.vhref = rx'.timings
  PROVE  ColoursGo(t)
<1>1. rx'.col = Colorimetry(rx'.avi, rx'.range)
  BY DEF Converts
<1> QED
  BY <1>1 DEF ColoursGo, Colours, Over

\* configure_csc() brings the matrix in step with the colours.
LEMMA ColoursCsc ==
  ASSUME RxTypes, NEW t \in RxThreads, Inside(t), Colours(t),
         StoreRange(t) \/ ClearConv(t) \/ ChooseConv(t) \/ StoreConv(t) \/ TestConv(t)
  PROVE  ColoursGo(t)
<1>1. Control /\ Places /\ rx \in StateType
  BY Where DEF RxTypes, RxTypeOK, StateType
<1>2. \A n \in StepNames : At(t, n) <=> Name(t) = n
  BY <1>1 DEF Places, PlaceOf
<1>3. CASE StoreRange(t)
  <2>1. /\ Name(t) = "range" /\ chip' = chip
        /\ rx' = [rx EXCEPT !.range = Arg(t), !.col = Colorimetry(rx.avi, Arg(t))]
    BY <1>2, <1>3 DEF StoreRange, StepNames
  <2>2. /\ rx'.col = Colorimetry(rx'.avi, rx'.range) /\ rx'.timings = rx.timings
    BY <1>1, <2>1 DEF StateType
  <2>3. Name(t)' = "null"
    BY <1>1, <1>3, CscMoves DEF Goes
  <2> QED
    BY <2>1, <2>2, <2>3 DEF ColoursGo, Colours, Inside, Outside, EdidNames
<1>4. CASE ClearConv(t)
  <2>1. Name(t) = "null" /\ chip' = chip /\ rx' = [rx EXCEPT !.conv = "NULL"]
    BY <1>2, <1>4 DEF ClearConv, StepNames, CscNames
  <2>2. /\ rx'.col = rx.col /\ rx'.avi = rx.avi /\ rx'.range = rx.range
        /\ rx'.timings = rx.timings /\ rx'.conv = "NULL"
    BY <1>1, <2>1 DEF StateType
  <2>3. Name(t)' = "choose"
    BY <1>1, <1>4, CscMoves DEF Goes
  <2> QED
    BY <2>1, <2>2, <2>3 DEF ColoursGo, Colours, Inside, Outside, EdidNames
<1>5. CASE ChooseConv(t)
  <2>1. Name(t) = "choose" /\ chip' = chip /\ rx' = rx
    BY <1>2, <1>5 DEF ChooseConv, StepNames, CscNames
  <2>2. Name(t)' = "conv" /\ Arg(t)' = Choice(rx.col)
    BY <1>1, <1>5, CscMoves DEF Goes
  <2> QED
    BY <2>1, <2>2 DEF ColoursGo, Colours, Inside, Outside, EdidNames
<1>6. CASE StoreConv(t)
  <2>1. /\ Name(t) = "conv" /\ chip' = chip
        /\ IF Arg(t) = "NULL" THEN rx' = rx ELSE rx' = [rx EXCEPT !.conv = Arg(t)]
    BY <1>2, <1>6 DEF StoreConv, StepNames, CscNames
  <2>2. rx.conv = "NULL" /\ Arg(t) = Choice(rx.col)
    BY <2>1 DEF Colours
  <2>3. /\ rx'.col = rx.col /\ rx'.avi = rx.avi /\ rx'.range = rx.range
        /\ rx'.timings = rx.timings /\ rx'.conv = Choice(rx.col)
    BY <1>1, <2>1, <2>2 DEF StateType
  <2>4. Name(t)' = "test"
    BY <1>1, <1>6, CscMoves DEF Goes
  <2> QED
    BY <2>1, <2>3, <2>4 DEF ColoursGo, Colours, Inside, Outside, EdidNames
<1>7. CASE TestConv(t)
  <2>1. Name(t) = "test" /\ chip' = chip /\ rx' = rx
    BY <1>2, <1>7 DEF TestConv, StepNames, CscNames
  <2>2. Name(t)' = IF rx.conv = "NULL" THEN "bypass" ELSE "matrix"
    BY <1>1, <1>7, CscMoves DEF Goes
  <2> QED
    BY <2>1, <2>2 DEF ColoursGo, Colours, Inside, Outside, EdidNames
<1> QED
  BY <1>3, <1>4, <1>5, <1>6, <1>7

\* The matrix is written half by half.
LEMMA ColoursMatrix ==
  ASSUME RxTypes, NEW t \in RxThreads, Inside(t), Colours(t), WriteBypass(t) \/ WriteCoef(t)
  PROVE  ColoursGo(t)
<1>1. Control /\ Places /\ chip \in ChipType
  BY Where DEF RxTypes, RxTypeOK, ChipType
<1>2. \A n \in StepNames : At(t, n) <=> Name(t) = n
  BY <1>1 DEF Places, PlaceOf
<1>3. CASE WriteBypass(t)
  <2>1. rx' = rx /\ chip' = [chip EXCEPT !.bypass = At(t, "bypass")]
    BY <1>3 DEF WriteBypass
  <2>2. chip'.bypass = At(t, "bypass") /\ chip'.vhref = chip.vhref /\ chip'.matrix = chip.matrix
    BY <1>1, <2>1 DEF ChipType
  <2>3. CASE At(t, "bypass")
    <3>1. Name(t) = "bypass" /\ Over(t)'
      BY <1>1, <1>2, <1>3, <2>3, CscMoves DEF StepNames, CscNames
    <3>2. chip'.bypass = TRUE
      BY <2>2, <2>3
    <3>3. Converts' /\ chip'.vhref = rx'.timings
      BY <2>1, <2>2, <3>1, <3>2 DEF Converts, Colours
    <3> QED
      BY <3>1, <3>3, ColoursOver
  <2>4. CASE ~At(t, "bypass")
    <3>1. Name(t) = "matrix"
      BY <1>2, <1>3, <2>4 DEF WriteBypass, StepNames, CscNames
    <3>2. Name(t)' = "coef" /\ Arg(t)' = 1
      BY <1>1, <1>3, <2>4, CscMoves DEF Goes
    <3>3. chip'.bypass = FALSE
      BY <2>2, <2>4 DEF At
    <3> QED
      BY <2>1, <2>2, <3>1, <3>2, <3>3 DEF ColoursGo, Colours, Inside, Outside, EdidNames
  <2> QED
    BY <2>3, <2>4
<1>4. CASE WriteCoef(t)
  <2>1. Name(t) = "coef" /\ rx' = rx
    BY <1>2, <1>4 DEF WriteCoef, StepNames, CscNames
  <2>2. rx.conv # "NULL"
    BY <2>1 DEF Colours
  <2>3. chip' = [chip EXCEPT !.matrix[Arg(t)] = rx.conv] /\ Arg(t) \in 1 .. 2
    BY <1>1, <1>2, <1>4, <2>1, <2>2, ArgTypes DEF WriteCoef, StepNames, CscNames
  <2>4. /\ chip'.bypass = chip.bypass /\ chip'.vhref = chip.vhref
        /\ chip'.matrix = [chip.matrix EXCEPT ![Arg(t)] = rx.conv]
        /\ chip.matrix \in [1 .. 2 -> Convs \cup {"NULL"}]
    BY <1>1, <2>3 DEF ChipType
  <2>5. chip'.matrix[Arg(t)] = rx.conv /\ (Arg(t) = 2 => chip'.matrix[1] = chip.matrix[1])
    BY <2>3, <2>4
  <2>6. CASE Arg(t) = 1
    <3>1. Name(t)' = "coef" /\ Arg(t)' = 2
      BY <1>1, <1>4, <2>2, <2>6, CscMoves DEF Goes
    <3> QED
      BY <2>1, <2>4, <2>5, <2>6, <3>1 DEF ColoursGo, Colours, Inside, Outside, EdidNames
  <2>7. CASE Arg(t) = 2
    <3>1. Over(t)'
      BY <1>1, <1>4, <2>2, <2>7, CscMoves
    <3>2. \A i \in 1 .. 2 : chip'.matrix[i] = rx'.conv
      BY <2>1, <2>5, <2>7 DEF Colours
    <3>3. chip'.bypass = FALSE
      BY <1>1, <2>1, <2>4 DEF Colours, ChipType
    <3>4. Converts' /\ chip'.vhref = rx'.timings
      BY <2>1, <2>2, <2>4, <3>2, <3>3 DEF Converts, Colours
    <3> QED
      BY <3>1, <3>4, ColoursOver
  <2> QED
    BY <2>3, <2>6, <2>7
<1> QED
  BY <1>3, <1>4

\* The timings and the interrupt handler keep it so, or lead to configure_csc().
LEMMA ColoursOther ==
  ASSUME RxTypes, NEW t \in RxThreads, Inside(t), Colours(t),
         \/ Unlock(t) \/ StoreTimings(t) \/ ConfigureVhref(t)
         \/ ReadStatus(t) \/ ClearStatus(t) \/ CheckPort(t) \/ ReadAvi(t) \/ ParseAvi(t)
         \/ HighAtProbe(t) \/ CoreInit(t)
  PROVE  ColoursGo(t)
<1> USE DEF StepNames, IsrNames
<1>1. /\ Control /\ Places /\ rx \in StateType /\ chip \in ChipType
      /\ chip.avi \in RxFrames \cup {"rgbfull"}
  BY Where DEF RxTypes, RxTypeOK, StateType, ChipType
<1>2. \A n \in StepNames : At(t, n) <=> Name(t) = n
  BY <1>1 DEF Places, PlaceOf
<1>3. CASE Unlock(t)
  <2>1. Name(t) = "unlock" /\ chip' = chip /\ rx' = [rx EXCEPT !.lock = "free"]
    BY <1>2, <1>3 DEF Unlock
  <2>2. UNCHANGED ColourData
    BY <1>1, <2>1 DEF StateType, ColourData
  <2>3. Name(t)' = "idle"
    BY <1>1, <1>3, TimingsMoves DEF Ended
  <2> QED
    BY <2>1, <2>2, <2>3, ColoursKept DEF ColoursGo, Colours, Inside, Outside, EdidNames
<1>4. CASE StoreTimings(t)
  <2>1. Name(t) = "timings" /\ chip' = chip /\ rx' = [rx EXCEPT !.timings = Arg(t)]
    BY <1>2, <1>4 DEF StoreTimings
  <2>2. /\ rx'.col = rx.col /\ rx'.avi = rx.avi /\ rx'.range = rx.range /\ rx'.conv = rx.conv
    BY <1>1, <2>1 DEF StateType
  <2>3. Name(t)' = "vhref"
    BY <1>1, <1>4, TimingsMoves DEF Goes
  <2>4. Converts'
    BY <2>1, <2>2 DEF Converts, Colours
  <2> QED
    BY <2>1, <2>2, <2>3, <2>4 DEF ColoursGo, Colours, Inside, Outside, EdidNames
<1>5. CASE ConfigureVhref(t)
  <2>1. Name(t) = "vhref" /\ rx' = rx /\ chip' = [chip EXCEPT !.vhref = rx.timings]
    BY <1>2, <1>5 DEF ConfigureVhref
  <2>2. chip'.vhref = rx.timings
    BY <1>1, <2>1 DEF ChipType
  <2>3. Name(t)' = "null"
    BY <1>1, <1>5, TimingsMoves DEF Goes
  <2> QED
    BY <2>1, <2>2, <2>3 DEF ColoursGo, Colours, Inside, Outside, EdidNames
<1>6. CASE ReadStatus(t) \/ ClearStatus(t) \/ CheckPort(t) \/ ReadAvi(t)
  <2>1. Name(t) \in {"status", "clear", "checkPort", "avi"}
    BY <1>2, <1>6 DEF ReadStatus, ClearStatus, CheckPort, ReadAvi
  <2>2. UNCHANGED ColourData
    <3>1. CASE ReadStatus(t) \/ CheckPort(t) \/ ReadAvi(t)
      BY <1>1, <3>1 DEF ReadStatus, CheckPort, ReadAvi, StateType, ColourData
    <3>2. CASE ClearStatus(t)
      BY <1>1, <3>2 DEF ClearStatus, ChipType, ColourData
    <3> QED
      BY <1>6, <3>1, <3>2
  <2>3. Name(t)' \in {"clear", "checkPort", "avi", "parse", "unlock"}
    BY <1>1, <1>6, IsrMoves DEF Goes
  <2>4. Converts' /\ chip'.vhref = rx'.timings /\ rx'.col = Colorimetry(rx'.avi, rx'.range)
    BY <2>1, <2>2, ColoursKept DEF Colours, Converts
  <2> QED
    BY <2>3, <2>4 DEF ColoursGo, Colours
<1>7. CASE ParseAvi(t)
  <2>1. Name(t) = "parse" /\ chip' = chip
    BY <1>2, <1>7 DEF ParseAvi
  <2>2. CASE /\ rx' = [rx EXCEPT !.avi = Arg(t), !.col = Colorimetry(Arg(t), rx.range)]
             /\ Goes(t, "null")
    <3>1. rx'.col = Colorimetry(rx'.avi, rx'.range) /\ rx'.timings = rx.timings
      BY <1>1, <2>2 DEF StateType
    <3> QED
      BY <2>1, <2>2, <3>1 DEF Goes, ColoursGo, Colours, Inside, Outside, EdidNames
  <2>3. CASE rx' = rx /\ Goes(t, "unlock")
    <3>1. UNCHANGED ColourData
      BY <2>1, <2>3 DEF ColourData
    <3>2. Converts' /\ chip'.vhref = rx'.timings /\ rx'.col = Colorimetry(rx'.avi, rx'.range)
      BY <2>1, <3>1, ColoursKept DEF Colours, Converts
    <3> QED
      BY <2>3, <3>2 DEF Goes, ColoursGo, Colours
  <2> QED
    BY <1>1, <1>7, <2>2, <2>3, IsrMoves
<1>8. CASE HighAtProbe(t)
  <2>1. Name(t) = "high" /\ rx' = rx /\ chip' = [chip EXCEPT !.hpd = TRUE]
    BY <1>2, <1>8 DEF HighAtProbe
  <2>2. chip'.vhref = chip.vhref
    BY <1>1, <2>1 DEF ChipType
  <2>3. Name(t)' = "core"
    BY <1>1, <1>8, IsrMoves DEF Goes
  <2> QED
    BY <2>1, <2>2, <2>3 DEF ColoursGo, Colours, Inside, Outside, EdidNames
<1>9. CASE CoreInit(t)
  <2>1. /\ Name(t) = "core" /\ rx' = [rx EXCEPT !.conv = "RGBLIM", !.port = chip.port]
        /\ chip' = [chip EXCEPT !.flags = {}, !.matrix = [i \in 1 .. 2 |-> "RGBLIM"],
                                !.bypass = FALSE]
    BY <1>2, <1>9 DEF CoreInit
  <2>2. chip'.vhref = chip.vhref /\ rx'.timings = rx.timings
    BY <1>1, <2>1 DEF ChipType, StateType
  <2>3. Name(t)' = "range"
    BY <1>1, <1>9, IsrMoves DEF Goes
  <2> QED
    BY <2>1, <2>2, <2>3 DEF ColoursGo, Colours, Inside, Outside, EdidNames
<1> QED
  BY <1>3, <1>4, <1>5, <1>6, <1>7, <1>8, <1>9

\* A step of a call keeps the colours: one thread is inside, or none.
LEMMA ColoursStep ==
  ASSUME RxTypes, LockInv, ColourInv, NEW t \in RxThreads, RxStep(t)
  PROVE  ColourInv'
<1>1. /\ Control /\ Places /\ rx \in StateType /\ chip \in ChipType
      /\ chip.avi \in RxFrames \cup {"rgbfull"} /\ rxRaced' = rxRaced
  BY Where, StepFrame DEF RxTypes, RxTypeOK, StateType, ChipType
<1> SUFFICES ASSUME "csc" \notin rxRaced PROVE ColourInv'
  BY <1>1 DEF ColourInv
<1>2. \A n \in StepNames : At(t, n) <=> Name(t) = n
  BY <1>1 DEF Places, PlaceOf
<1>3. CASE Inside(t)
  <2>1. Colours(t) /\ \A u \in RxThreads : u # t => ~Inside(u)
    BY <1>1, <1>3, OneInside DEF ColourInv
  <2>2. ~(\/ Lock(t) \/ Match(t) \/ ForgetEdid(t) \/ CancelHpd(t) \/ LowerHpd(t)
          \/ WriteEdid(t) \/ StoreEdid(t) \/ EnableEdid(t))
    BY <1>2, <1>3 DEF Lock, Match, ForgetEdid, CancelHpd, LowerHpd, WriteEdid, StoreEdid,
                      EnableEdid, Inside, Outside, StepNames, IsrNames, EdidNames
  <2>3. ColoursGo(t)
    BY <1>3, <2>1, <2>2, ColoursCsc, ColoursMatrix, ColoursOther DEF RxStep
  <2> QED
    BY <2>1, <2>3, ColoursAlone DEF ColoursGo
<1>4. CASE Lock(t)
  <2>1. /\ Name(t) = "lock" /\ rx.lock = "free" /\ chip' = chip /\ rx' = [rx EXCEPT !.lock = t]
    BY <1>2, <1>4 DEF Lock, StepNames, IsrNames
  <2>2. rxOp[t] \in {"timings", "isr", "probe"}
    BY <1>1, <2>1 DEF Places, PlaceOf
  <2>3. ASSUME NEW u \in RxThreads PROVE ~Inside(u)
    <3> SUFFICES ASSUME Inside(u) PROVE FALSE
      OBVIOUS
    <3>1. rxOp[u] \in {"timings", "isr", "ctrl", "probe"} /\ u # t
      BY <1>1, <2>1 DEF Places, PlaceOf, Inside, Outside, RxOps
    <3>2. rxOp[u] \notin {"timings", "isr"}
      BY <2>1 DEF LockInv, RxThreads
    <3>3. Apart
      BY DEF ColourInv
    <3> QED
      BY <1>1, <2>2, <3>1, <3>2, <3>3 DEF Places, RxThreads, Apart, CscOps
  <2>4. rxStage # "new"
    BY <1>1, <2>2 DEF Places, RxThreads
  <2>5. Converts /\ chip.vhref = rx.timings
    BY <2>3, <2>4 DEF ColourInv, AtRest
  <2>6. UNCHANGED ColourData
    BY <1>1, <2>1 DEF StateType, ColourData
  <2>7. Converts' /\ chip'.vhref = rx'.timings /\ rx'.col = Colorimetry(rx'.avi, rx'.range)
    BY <2>5, <2>6, ColoursKept DEF Converts
  <2>8. Name(t)' \in {"timings", "status"}
    BY <1>1, <1>4, TimingsMoves DEF Goes
  <2>9. Colours(t)' /\ Inside(t)'
    BY <2>7, <2>8 DEF Colours, Inside, Outside, EdidNames
  <2> QED
    BY <2>3, <2>8, <2>9, ColoursAlone
<1>5. CASE Match(t)
  <2>1. ~Inside(t)' /\ Name(t)' # "dead"
    BY <1>1, <1>5, TimingsMoves DEF Goes, Ended, Inside, Outside
  <2>2. ~Inside(t) /\ UNCHANGED ColourData
    BY <1>2, <1>5 DEF Match, StepNames, Inside, Outside, ColourData
  <2> QED
    BY <2>1, <2>2, ColoursStill
<1>6. CASE ForgetEdid(t) \/ CancelHpd(t) \/ LowerHpd(t) \/ WriteEdid(t) \/ StoreEdid(t)
             \/ EnableEdid(t)
  <2>1. ~Inside(t)' /\ Name(t)' # "dead"
    BY <1>1, <1>6, EdidMoves DEF Goes, Ended, Inside, Outside, EdidNames
  <2>2. ~Inside(t)
    BY <1>2, <1>6 DEF ForgetEdid, CancelHpd, LowerHpd, WriteEdid, StoreEdid, EnableEdid,
                      StepNames, Inside, Outside, EdidNames
  <2>3. UNCHANGED ColourData
    <3>1. CASE LowerHpd(t) \/ WriteEdid(t)
      BY <1>1, <3>1 DEF LowerHpd, WriteEdid, ChipType, ColourData
    <3>2. CASE ForgetEdid(t) \/ CancelHpd(t)
      BY <1>1, <3>2, ZenonT(60) DEF ForgetEdid, CancelHpd, StateType, ColourData
    <3>3. CASE StoreEdid(t) \/ EnableEdid(t)
      BY <1>1, <3>3, ZenonT(60) DEF StoreEdid, EnableEdid, StateType, ColourData
    <3> QED
      BY <1>6, <3>1, <3>2, <3>3
  <2> QED
    BY <2>1, <2>2, <2>3, ColoursStill
<1>7. ~Inside(t) => Lock(t) \/ Match(t) \/ ForgetEdid(t) \/ CancelHpd(t) \/ LowerHpd(t)
                      \/ WriteEdid(t) \/ StoreEdid(t) \/ EnableEdid(t)
  <2>1. ~Inside(t) => ~(\/ Unlock(t) \/ StoreTimings(t) \/ ConfigureVhref(t) \/ StoreRange(t)
                        \/ ClearConv(t) \/ ChooseConv(t) \/ StoreConv(t) \/ TestConv(t)
                        \/ WriteBypass(t) \/ WriteCoef(t))
    BY <1>2 DEF Unlock, StoreTimings, ConfigureVhref, StoreRange, ClearConv, ChooseConv,
                StoreConv, TestConv, WriteBypass, WriteCoef, Inside, Outside, StepNames,
                CscNames, IsrNames, EdidNames
  <2>2. ~Inside(t) => ~(\/ ReadStatus(t) \/ ClearStatus(t) \/ CheckPort(t) \/ ReadAvi(t)
                        \/ ParseAvi(t) \/ HighAtProbe(t) \/ CoreInit(t))
    BY <1>2 DEF ReadStatus, ClearStatus, CheckPort, ReadAvi, ParseAvi, HighAtProbe, CoreInit,
                Inside, Outside, StepNames, CscNames, IsrNames, EdidNames
  <2> QED
    BY <2>1, <2>2 DEF RxStep
<1> QED
  BY <1>3, <1>4, <1>5, <1>6, <1>7

\* Entering a call outside, with nothing changed.
LEMMA ColoursBegin ==
  ASSUME ColourInv, NEW t \in RxThreads, Name(t) = "idle", ~Inside(t)', UNCHANGED ColourData,
         \A u \in RxThreads : u # t => rxTodo'[u] = rxTodo[u],
         rxRaced \subseteq rxRaced', rxStage' = "new" <=> rxStage = "new",
         "csc" \notin rxRaced' => Apart'
  PROVE  ColourInv'
<1> SUFFICES ASSUME "csc" \notin rxRaced'
             PROVE  /\ AtRest' /\ \A u \in RxThreads : Inside(u)' => Colours(u)'
                    /\ rxStage' = "new" => chip'.vhref = rx'.timings
  BY DEF ColourInv
<1>1. \A u \in RxThreads : u # t => Name(u)' = Name(u) /\ Arg(u)' = Arg(u)
  BY SamePlace
<1>2. ~Inside(t) /\ \A u \in RxThreads : Inside(u)' <=> Inside(u)
  BY <1>1 DEF Inside, Outside
<1>3. "csc" \notin rxRaced
  OBVIOUS
<1>4. AtRest' /\ (rxStage' = "new" => chip'.vhref = rx'.timings)
  BY <1>2, <1>3, ColoursKept DEF ColourInv, AtRest
<1>5. \A u \in RxThreads : Inside(u)' => Colours(u)'
  BY <1>1, <1>2, <1>3, ColoursKept DEF ColourInv
<1> QED
  BY <1>4, <1>5

\* A thread that enters a call meets no other without a lock, or that is noted.
LEMMA ApartBegin ==
  ASSUME Control, Apart, Control', NEW t \in RxThreads, NEW op \in RxOps,
         NEW steps \in Seq(StepType), Begin(t, op, steps), Name(t)' # "dead",
         "csc" \notin rxRaced'
  PROVE  /\ Apart' /\ "csc" \notin rxRaced
         /\ \A u \in RxThreads : u # t /\ op = "ctrl" => rxOp[u] \notin CscOps
<1>1. /\ rxOp'[t] = op /\ rxOp[t] = "none" /\ rxRaced \subseteq rxRaced'
      /\ \A u \in RxThreads : u # t => rxTodo'[u] = rxTodo[u] /\ rxOp'[u] = rxOp[u]
      /\ \A u \in RxThreads \ {t} :
           /\ op = "ctrl" /\ rxOp[u] \in CscOps => "csc" \in rxRaced'
           /\ op \in CscOps /\ rxOp[u] = "ctrl" => "csc" \in rxRaced'
  BY BeginFacts
<1>2. \A u \in RxThreads : u # t => Name(u)' = Name(u)
  BY <1>1, SamePlace
<1>3. \A u \in RxThreads : Name(u)' # "dead"
  BY <1>2 DEF Apart
<1>4. rxOp'["ioctl"] = "ctrl" => rxOp'["init"] \notin CscOps /\ rxOp'["irq"] \notin CscOps
  BY <1>1 DEF Apart, RxThreads
<1> QED
  BY <1>1, <1>3, <1>4 DEF Apart

\* Entering a call keeps the colours, unless it is noted.
LEMMA ColoursCall ==
  ASSUME RxTypes, ColourInv, IrqWork \/ InitCall \/ IoctlCall
  PROVE  ColourInv'
<1>1. Control /\ Places /\ rx \in StateType
  BY Where DEF RxTypes, RxTypeOK, StateType
<1>2. /\ "init" \in RxThreads /\ "ioctl" \in RxThreads /\ "irq" \in RxThreads
      /\ {"probe", "edid", "timings", "isr", "ctrl"} \subseteq RxOps
  BY DEF RxThreads, RxOps
<1>3. UNCHANGED ColourData
  <2>1. chip' = chip /\ \/ rx' = rx \/ rx' = [rx EXCEPT !.work = FALSE]
                        \/ rx' = [rx EXCEPT !.up = TRUE]
    BY DEF IrqWork, InitCall, IoctlCall
  <2> QED
    BY <1>1, <2>1 DEF ColourData, StateType
<1>4. ASSUME NEW t \in RxThreads, NEW op \in RxOps, NEW steps \in Seq(StepType),
             Begin(t, op, steps), ~Inside(t)', Name(t)' # "dead", Control',
             rxStage' = "new" <=> rxStage = "new"
      PROVE  ColourInv'
  <2>1. /\ Name(t) = "idle" /\ rxRaced \subseteq rxRaced'
        /\ \A u \in RxThreads : u # t => rxTodo'[u] = rxTodo[u]
    BY <1>1, <1>4, BeginFacts DEF Name
  <2>2. "csc" \notin rxRaced' => Apart'
    <3> SUFFICES ASSUME "csc" \notin rxRaced' PROVE Apart'
      OBVIOUS
    <3>1. Apart
      BY <2>1 DEF ColourInv
    <3> QED
      BY <1>1, <1>4, <3>1, ApartBegin
  <2> QED
    BY <1>3, <1>4, <2>1, <2>2, ColoursBegin
<1>5. CASE IrqWork
  <2>1. /\ Control' /\ Name("irq")' = "lock" /\ Begin("irq", "isr", Isr) /\ rxStage' = rxStage
        /\ Isr \in Seq(StepType)
    BY <1>1, <1>5, CallMoves, Programs DEF IrqWork
  <2> QED
    BY <1>2, <1>4, <2>1 DEF Inside, Outside
<1>6. CASE InitCall
  <2>1. Control'
    BY <1>1, <1>6, CallMoves
  <2>2. CASE rxStage = "probed" /\ rxStage' = "edid" /\ Name("init")' = "cancel"
             /\ Begin("init", "edid", SetEdid("builtin"))
    <3>1. SetEdid("builtin") \in Seq(StepType)
      BY Programs DEF Stored
    <3> QED
      BY <1>2, <1>4, <2>1, <2>2, <3>1 DEF Inside, Outside, EdidNames
  <2>3. CASE rxStage = "edid" /\ rxStage' = "done" /\ Name("init")' = "match"
             /\ Begin("init", "timings", <<<<"match", "720p60">>>>)
    <3>1. <<<<"match", "720p60">>>> \in Seq(StepType)
      BY Programs, RxTimingsAssumption
    <3> QED
      BY <1>2, <1>4, <2>1, <2>3, <3>1 DEF Inside, Outside
  <2>4. CASE /\ rxStage = "new" /\ rxStage' = "probed" /\ Name("init")' = "high"
             /\ rxOp'["init"] = "probe" /\ Begin("init", "probe", Probe)
    <3> SUFFICES ASSUME "csc" \notin rxRaced' PROVE ColourInv'
      BY DEF ColourInv
    <3>1. /\ Probe \in Seq(StepType) /\ rxRaced \subseteq rxRaced'
          /\ \A u \in RxThreads : u # "init" => rxTodo'[u] = rxTodo[u] /\ rxOp'[u] = rxOp[u]
      BY <1>1, <1>2, <2>4, Programs, BeginFacts
    <3>2. "csc" \notin rxRaced
      BY <3>1
    <3>3. Apart'
      BY <1>1, <1>2, <2>1, <2>4, <3>1, <3>2, ApartBegin DEF ColourInv
    <3>4. \A u \in RxThreads : u # "init" => Name(u)' = "idle"
      BY <1>1, <2>4, <3>1, SamePlace DEF Places, PlaceOf, RxThreads
    <3>5. chip'.vhref = rx'.timings
      BY <1>3, <2>4, <3>2, ColoursKept DEF ColourInv
    <3>6. Inside("init")' /\ Colours("init")'
      BY <2>4, <3>5 DEF Inside, Outside, EdidNames, Colours
    <3>7. AtRest' /\ \A u \in RxThreads : Inside(u)' => Colours(u)'
      BY <1>2, <3>4, <3>6 DEF AtRest, Inside, Outside
    <3> QED
      BY <2>4, <3>3, <3>7 DEF ColourInv
  <2> QED
    BY <1>1, <1>6, <2>2, <2>3, <2>4, CallMoves
<1>7. CASE IoctlCall
  <2>1. Control' /\ rx.up /\ rxStage' = rxStage
    BY <1>1, <1>7, CallMoves DEF IoctlCall
  <2>2. ASSUME NEW v \in RxTimings, Begin("ioctl", "timings", <<<<"match", v>>>>)
        PROVE  ColourInv'
    <3>1. <<<<"match", v>>>> \in Seq(StepType) /\ <<<<"match", v>>>> # <<>>
          /\ Head(<<<<"match", v>>>>)[1] = "match"
      BY Programs
    <3>2. rxTodo'["ioctl"] = <<<<"match", v>>>>
      BY <1>1, <1>2, <2>2, <3>1, BeginFacts
    <3>3. Name("ioctl")' = "match"
      BY <3>1, <3>2 DEF Name, Idle
    <3> QED
      BY <1>2, <1>4, <2>1, <2>2, <3>1, <3>3 DEF Inside, Outside
  <2>3. ASSUME NEW e \in RxEdids \cup {"none"}, Begin("ioctl", "edid", SetEdid(e))
        PROVE  ColourInv'
    <3>1. e \in Stored \cup {"none"}
      BY DEF Stored
    <3>2. /\ SetEdid(e) \in Seq(StepType) /\ SetEdid(e) # <<>>
          /\ Head(SetEdid(e))[1] \in {"forget", "cancel"}
      BY <3>1, Programs, DoNames
    <3>3. rxTodo'["ioctl"] = SetEdid(e)
      BY <1>1, <1>2, <2>3, <3>2, BeginFacts
    <3>4. Name("ioctl")' \in {"forget", "cancel"}
      BY <3>2, <3>3 DEF Name, Idle
    <3> QED
      BY <1>2, <1>4, <2>1, <2>3, <3>2, <3>4 DEF Inside, Outside, EdidNames
  <2>4. ASSUME NEW r \in Ranges, Begin("ioctl", "ctrl", SetRange(r))
        PROVE  ColourInv'
    <3> SUFFICES ASSUME "csc" \notin rxRaced' PROVE ColourInv'
      BY DEF ColourInv
    <3>1. /\ SetRange(r) \in Seq(StepType) /\ SetRange(r) # <<>>
          /\ Head(SetRange(r))[1] = "range"
      BY Programs
    <3>2. /\ rxTodo'["ioctl"] = SetRange(r) /\ rxRaced \subseteq rxRaced'
          /\ \A u \in RxThreads : u # "ioctl" => rxTodo'[u] = rxTodo[u] /\ rxOp'[u] = rxOp[u]
          /\ Name("ioctl") = "idle"
      BY <1>1, <1>2, <2>4, <3>1, BeginFacts DEF Name
    <3>3. Name("ioctl")' = "range"
      BY <3>1, <3>2 DEF Name, Idle
    <3>4. "csc" \notin rxRaced
      BY <3>2
    <3>5. Apart' /\ \A u \in RxThreads : u # "ioctl" => rxOp[u] \notin CscOps
      BY <1>1, <1>2, <2>1, <2>4, <3>1, <3>3, <3>4, ApartBegin DEF ColourInv
    <3>6. \A u \in RxThreads : ~Inside(u)
      BY <1>1, <2>1, <3>2, <3>5 DEF Places, PlaceOf, RxThreads, CscOps, Inside, Outside
    <3>7. \A u \in RxThreads : u # "ioctl" => ~Inside(u)'
      BY <3>2, <3>6, SamePlace DEF Inside
    <3>8. rxStage # "new"
      BY <1>1, <2>1 DEF Places
    <3>9. chip'.vhref = rx'.timings
      BY <1>3, <3>4, <3>6, <3>8, ColoursKept DEF ColourInv, AtRest
    <3>10. Inside("ioctl")' /\ Colours("ioctl")'
      BY <3>3, <3>9 DEF Inside, Outside, EdidNames, Colours
    <3>11. AtRest' /\ \A u \in RxThreads : Inside(u)' => Colours(u)'
      BY <1>2, <3>7, <3>10 DEF AtRest
    <3> QED
      BY <2>1, <3>5, <3>8, <3>11 DEF ColourInv
  <2> QED
    BY <1>7, <2>2, <2>3, <2>4 DEF IoctlCall
<1> QED
  BY <1>5, <1>6, <1>7

\* Every step keeps the colours.
LEMMA ColoursNext == RxTypes /\ LockInv /\ ColourInv /\ [RxNext]_rxVars => ColourInv'
<1> SUFFICES ASSUME RxTypes, LockInv, ColourInv, [RxNext]_rxVars PROVE ColourInv'
  OBVIOUS
<1>1. chip \in ChipType /\ rx \in StateType
  BY DEF RxTypes, RxTypeOK, ChipType, StateType
<1>2. CASE PortEvent \/ AviEvent \/ HpdWork \/ UNCHANGED rxVars
  <2>1. UNCHANGED <<rxTodo, rxOp, rxStage, rxRaced>>
    BY <1>2 DEF PortEvent, AviEvent, SourceEvent, HpdWork, rxVars
  <2>2. UNCHANGED ColourData
    <3>1. \/ rx' = rx \/ rx' = [rx EXCEPT !.work = @ \/ (chip.flags = {} /\ rx.up)]
          \/ rx' = [rx EXCEPT !.dwork = "running"]
          \/ rx' = [rx EXCEPT !.dwork = "idle", !.present = TRUE]
      BY <1>2 DEF PortEvent, AviEvent, SourceEvent, HpdWork, rxVars
    <3>2. /\ rx'.col = rx.col /\ rx'.avi = rx.avi /\ rx'.range = rx.range
          /\ rx'.conv = rx.conv /\ rx'.timings = rx.timings
      BY <1>1, <3>1 DEF StateType
    <3>3. chip'.vhref = chip.vhref /\ chip'.bypass = chip.bypass /\ chip'.matrix = chip.matrix
      <4>1. CASE PortEvent
        BY <1>1, <4>1 DEF PortEvent, SourceEvent, ChipType
      <4>2. CASE AviEvent
        BY <1>1, <4>2 DEF AviEvent, SourceEvent, ChipType
      <4>3. CASE HpdWork \/ UNCHANGED rxVars
        <5>1. chip' = chip \/ chip' = [chip EXCEPT !.hpd = TRUE]
          BY <4>3 DEF HpdWork, rxVars
        <5> QED
          BY <1>1, <5>1 DEF ChipType
      <4> QED
        BY <1>2, <4>1, <4>2, <4>3
    <3> QED
      BY <3>2, <3>3 DEF ColourData
  <2>3. \A u \in RxThreads : Name(u)' = Name(u) /\ Arg(u)' = Arg(u)
    BY <2>1, SamePlace
  <2>4. Apart' <=> Apart
    BY <2>1, <2>3 DEF Apart
  <2>5. AtRest' <=> AtRest
    BY <2>1, <2>2, <2>3, ColoursKept DEF AtRest, Inside
  <2>6. \A u \in RxThreads : (Inside(u)' => Colours(u)') <=> (Inside(u) => Colours(u))
    BY <2>2, <2>3, ColoursKept DEF Inside
  <2>7. chip'.vhref = rx'.timings <=> chip.vhref = rx.timings
    BY <2>2, ColoursKept
  <2> QED
    BY <2>1, <2>4, <2>5, <2>6, <2>7 DEF ColourInv
<1>3. CASE IrqWork \/ InitCall \/ IoctlCall
  BY <1>3, ColoursCall
<1>4. CASE \E t \in RxThreads : RxStep(t)
  BY <1>4, ColoursStep
<1> QED
  BY <1>2, <1>3, <1>4 DEF RxNext

\* Before the probe the timings registers have the timings' reset value.
LEMMA ColoursInit == RxInit => ColourInv
BY DEF RxInit, ColourInv, Apart, AtRest, Inside, Outside, Name, Idle, RxThreads

\* Between calls the matrix is whole.
LEMMA ColoursSay == RxTypes /\ ColourInv => MatrixWhole
<1> SUFFICES ASSUME RxTypes, ColourInv, "csc" \notin rxRaced
             PROVE  /\ \A t \in RxThreads : ~At(t, "dead")
                    /\ rx.up /\ (\A t \in RxThreads : rxOp[t] \notin CscOps) =>
                         Converts /\ chip.vhref = rx.timings
  BY DEF MatrixWhole, Converts
<1>1. Places /\ Apart /\ AtRest
  BY Where DEF RxTypes, ColourInv
<1>2. \A t \in RxThreads : ~At(t, "dead")
  BY <1>1 DEF Places, PlaceOf, Apart, StepNames, CscNames
<1>3. ASSUME rx.up, \A t \in RxThreads : rxOp[t] \notin CscOps
      PROVE  Converts /\ chip.vhref = rx.timings
  <2>1. \A t \in RxThreads : ~Inside(t)
    BY <1>1, <1>3 DEF Places, PlaceOf, RxThreads, CscOps, Inside, Outside
  <2> QED
    BY <1>1, <1>3, <2>1 DEF AtRest, Places
<1> QED
  BY <1>2, <1>3

-----------------------------------------------------------------------------
(* Hot plug and EDID.                                                      *)

\* The chip holds the EDID last stored.
Whole == \A i \in 1 .. 2 : chip.edid[i] = rx.edid

\* What is true when no set_edid is running.
Settled == rx.edid # "none" => /\ rx.blocks > 0 => Whole
                               /\ rx.blocks = 0 => ~chip.hpd /\ rx.dwork = "idle"

\* What is true while thread t is at a step of set_edid.
EdidAt(t) ==
  /\ Name(t) = "forget" => Settled
  /\ Name(t) \in {"cancel", "low"} =>
       /\ rx.edid # "none" /\ rx.blocks > 0 => Whole
       /\ Withdraws(t) => rx.blocks = 0
  /\ Name(t) = "low" => rx.dwork = "idle"
  /\ Name(t) \in {"edid", "store"} => ~chip.hpd /\ rx.dwork = "idle"
  /\ Name(t) = "edid" /\ Arg(t) = 2 => chip.edid[1] = Head(rxTodo[t])[3]
  /\ Name(t) = "store" => \A i \in 1 .. 2 : chip.edid[i] = Arg(t)
  /\ Name(t) = "enable" => rx.blocks > 0 /\ Whole

\* No two set_edid run at once.
OneEdid == \A t, u \in RxThreads : rxOp[t] = "edid" /\ rxOp[u] = "edid" => t = u

\* The EDID's invariant: at rest, or as far as the one set_edid has come.
EdidInv ==
  /\ rxStage \in {"new", "probed"} => rx.edid = "none"
  /\ "edid" \notin rxRaced =>
       /\ OneEdid
       /\ (\A t \in RxThreads : rxOp[t] # "edid") => Settled
       /\ \A t \in RxThreads : rxOp[t] = "edid" => EdidAt(t)

\* The fields they depend on.
EdidData == <<rx.edid, rx.blocks, rx.dwork, chip.hpd, chip.edid>>

\* The steps that are not set_edid's, nor the probe's first.
LEMMA AwayFromEdid ==
  ASSUME RxTypes, NEW t \in RxThreads, RxStep(t), rxOp[t] # "edid", Name(t) # "high"
  PROVE  UNCHANGED EdidData
<1>1. Control /\ Places /\ chip \in ChipType /\ rx \in StateType
  BY Where DEF RxTypes, RxTypeOK, ChipType, StateType
<1>2. \A n \in StepNames : At(t, n) <=> Name(t) = n
  BY <1>1 DEF Places, PlaceOf
<1>3. Name(t) \notin EdidNames
  BY <1>1 DEF Places, PlaceOf
<1>4. ~(\/ HighAtProbe(t) \/ ForgetEdid(t) \/ CancelHpd(t) \/ LowerHpd(t) \/ WriteEdid(t)
        \/ StoreEdid(t) \/ EnableEdid(t))
  BY <1>2, <1>3 DEF HighAtProbe, ForgetEdid, CancelHpd, LowerHpd, WriteEdid, StoreEdid,
                    EnableEdid, StepNames, EdidNames
<1>5. CASE Lock(t) \/ Unlock(t) \/ Match(t)
  BY <1>1, <1>5 DEF Lock, Unlock, Match, StateType, EdidData
<1>6. CASE StoreTimings(t) \/ ConfigureVhref(t)
  BY <1>1, <1>6 DEF StoreTimings, ConfigureVhref, StateType, ChipType, EdidData
<1>7. CASE StoreRange(t) \/ ClearConv(t)
  BY <1>1, <1>7 DEF StoreRange, ClearConv, StateType, EdidData
<1>8. CASE ChooseConv(t) \/ StoreConv(t) \/ TestConv(t)
  BY <1>1, <1>8 DEF ChooseConv, StoreConv, TestConv, StateType, EdidData
<1>9. CASE WriteBypass(t)
  BY <1>1, <1>9 DEF WriteBypass, ChipType, EdidData
<1>10. CASE WriteCoef(t)
  <2>1. rx' = rx /\ (chip' = chip \/ chip' = [chip EXCEPT !.matrix[Arg(t)] = rx.conv])
    BY <1>10 DEF WriteCoef
  <2> QED
    BY <1>1, <2>1 DEF ChipType, EdidData
<1>11. CASE ReadStatus(t) \/ CheckPort(t) \/ ReadAvi(t)
  BY <1>1, <1>11 DEF ReadStatus, CheckPort, ReadAvi, StateType, EdidData
<1>12. CASE ClearStatus(t)
  BY <1>1, <1>12 DEF ClearStatus, ChipType, EdidData
<1>13. CASE ParseAvi(t)
  BY <1>1, <1>13 DEF ParseAvi, StateType, EdidData
<1>14. CASE CoreInit(t)
  BY <1>1, <1>14 DEF CoreInit, StateType, ChipType, EdidData
<1> QED
  BY <1>4, <1>5, <1>6, <1>7, <1>8, <1>9, <1>10, <1>11, <1>12, <1>13, <1>14 DEF RxStep

\* What is not touched stays true.
LEMMA EdidKept ==
  ASSUME UNCHANGED EdidData
  PROVE  /\ Whole' <=> Whole
         /\ Settled' <=> Settled
         /\ rx'.edid = rx.edid
         /\ \A u : rxTodo'[u] = rxTodo[u] => (EdidAt(u)' <=> EdidAt(u))
<1>1. /\ rx'.edid = rx.edid /\ rx'.blocks = rx.blocks /\ rx'.dwork = rx.dwork
      /\ chip'.hpd = chip.hpd /\ chip'.edid = chip.edid
  BY DEF EdidData
<1>2. Whole' <=> Whole
  BY <1>1 DEF Whole
<1>3. Settled' <=> Settled
  BY <1>1, <1>2 DEF Settled
<1>4. ASSUME NEW u, rxTodo'[u] = rxTodo[u] PROVE EdidAt(u)' <=> EdidAt(u)
  <2>1. /\ Name(u)' = Name(u) /\ Arg(u)' = Arg(u) /\ Head(rxTodo'[u]) = Head(rxTodo[u])
        /\ Withdraws(u)' <=> Withdraws(u)
    BY <1>4 DEF Name, Arg, Idle, Withdraws
  <2> QED
    BY <1>1, <1>2, <1>3, <2>1 DEF EdidAt
<1> QED
  BY <1>1, <1>2, <1>3, <1>4

\* A step of another call keeps the EDID's invariant.
LEMMA EdidElsewhere ==
  ASSUME RxTypes, EdidInv, NEW t \in RxThreads, RxStep(t), rxOp[t] # "edid"
  PROVE  EdidInv'
<1>1. Control /\ Places /\ chip.avi \in RxFrames \cup {"rgbfull"} /\ chip \in ChipType
  BY Where DEF RxTypes, RxTypeOK, ChipType
<1>2. /\ \A u \in RxThreads : u # t => rxTodo'[u] = rxTodo[u] /\ rxOp'[u] = rxOp[u]
      /\ UNCHANGED <<rxStage, rxRaced>> /\ rxOp'[t] \in {rxOp[t], "none"}
  BY <1>1, StepFrame, ControlStep
<1>3. \A u \in RxThreads : rxOp'[u] = "edid" <=> rxOp[u] = "edid"
  BY <1>2
<1>4. CASE Name(t) # "high"
  <2>1. UNCHANGED EdidData
    BY <1>4, AwayFromEdid
  <2>2. rx'.edid = rx.edid /\ (Settled' <=> Settled)
        /\ \A u \in RxThreads : rxOp[u] = "edid" => (EdidAt(u)' <=> EdidAt(u))
    BY <1>2, <2>1, EdidKept
  <2> QED
    BY <1>2, <1>3, <2>2 DEF EdidInv, OneEdid
<1>5. CASE Name(t) = "high"
  <2>1. rxStage = "probed" /\ \A u \in RxThreads : rxOp[u] # "edid"
    BY <1>1, <1>5 DEF Places, PlaceOf, RxThreads
  <2>2. rx' = rx
    <3>1. \A n \in StepNames : At(t, n) <=> Name(t) = n
      BY <1>1 DEF Places, PlaceOf
    <3>2. HighAtProbe(t)
      BY <1>5, <3>1
         DEF RxStep, StepNames, IsrNames, CscNames, EdidNames, Lock, Unlock, Match,
             StoreTimings, ConfigureVhref, StoreRange, ClearConv, ChooseConv, StoreConv,
             TestConv, WriteBypass, WriteCoef, ForgetEdid, CancelHpd, LowerHpd, WriteEdid,
             StoreEdid, EnableEdid, ReadStatus, ClearStatus, CheckPort, ReadAvi, ParseAvi,
             CoreInit
    <3> QED
      BY <3>2 DEF HighAtProbe
  <2> QED
    BY <1>2, <1>3, <2>1, <2>2 DEF EdidInv, OneEdid, Settled
<1> QED
  BY <1>4, <1>5

\* set_edid() writes and stores while hot plug is low and no delayed work is due.
LEMMA EdidStep ==
  ASSUME RxTypes, EdidInv, NEW t \in RxThreads, RxStep(t), rxOp[t] = "edid"
  PROVE  EdidInv'
<1>1. Control /\ Places /\ chip \in ChipType /\ rx \in StateType
      /\ chip.avi \in RxFrames \cup {"rgbfull"}
  BY Where DEF RxTypes, RxTypeOK, ChipType, StateType
<1>2. /\ \A u \in RxThreads : u # t => rxTodo'[u] = rxTodo[u] /\ rxOp'[u] = rxOp[u]
      /\ UNCHANGED <<rxStage, rxRaced>> /\ rxOp'[t] \in {rxOp[t], "none"}
  BY <1>1, StepFrame, ControlStep
<1>3. rxStage \notin {"new", "probed"}
  BY <1>1 DEF Places, RxThreads
<1> SUFFICES ASSUME "edid" \notin rxRaced PROVE EdidInv'
  BY <1>2, <1>3 DEF EdidInv
<1>4. EdidAt(t) /\ \A u \in RxThreads : u # t => rxOp[u] # "edid"
  BY DEF EdidInv, OneEdid
<1> DEFINE kept == rxOp'[t] = "edid" => EdidAt(t)'
           over == rxOp'[t] # "edid" => Settled'
<1>5. ASSUME kept, over PROVE EdidInv'
  <2>1. \A u \in RxThreads : rxOp'[u] = "edid" => u = t
    BY <1>2, <1>4
  <2>2. OneEdid' /\ \A u \in RxThreads : rxOp'[u] = "edid" => EdidAt(u)'
    BY <1>5, <2>1 DEF OneEdid
  <2>3. (\A u \in RxThreads : rxOp'[u] # "edid") => Settled'
    BY <1>5
  <2> QED
    BY <1>2, <1>3, <2>2, <2>3 DEF EdidInv
<1>6. \A n \in StepNames : At(t, n) <=> Name(t) = n
  BY <1>1 DEF Places, PlaceOf
<1>7. Name(t) \in EdidNames /\ EdidNames \subseteq StepNames
  BY <1>1 DEF Places, PlaceOf, StepNames
<1> USE DEF EdidNames
<1>8. CASE ForgetEdid(t)
  <2>1. chip' = chip /\ rx' = [rx EXCEPT !.blocks = 0, !.present = FALSE]
    BY <1>8 DEF ForgetEdid
  <2>2. rx'.blocks = 0
    BY <1>1, <2>1 DEF StateType
  <2>3. Name(t)' = "cancel" /\ rxOp'[t] = "edid"
    BY <1>1, <1>8, EdidMoves DEF Goes
  <2> QED
    BY <1>5, <2>2, <2>3 DEF EdidAt
<1>9. CASE CancelHpd(t)
  <2>1. Name(t) = "cancel" /\ chip' = chip /\ rx' = [rx EXCEPT !.dwork = "idle"]
    BY <1>6, <1>7, <1>9 DEF CancelHpd
  <2>2. rx'.dwork = "idle" /\ rx'.edid = rx.edid /\ rx'.blocks = rx.blocks
    BY <1>1, <2>1 DEF StateType
  <2>3. Name(t)' = "low" /\ rxOp'[t] = "edid" /\ (Withdraws(t)' <=> Withdraws(t))
    BY <1>1, <1>9, EdidMoves DEF Goes
  <2>4. EdidAt(t)'
    BY <1>4, <2>1, <2>2, <2>3 DEF EdidAt, Whole
  <2> QED
    BY <1>5, <2>3, <2>4
<1>10. CASE LowerHpd(t)
  <2>1. Name(t) = "low" /\ rx' = rx /\ chip' = [chip EXCEPT !.hpd = FALSE]
    BY <1>6, <1>7, <1>10 DEF LowerHpd
  <2>2. chip'.hpd = FALSE /\ chip'.edid = chip.edid
    BY <1>1, <2>1 DEF ChipType
  <2>3. IF Withdraws(t) THEN Name(t)' = "idle" /\ rxOp'[t] = "none"
        ELSE Name(t)' = "edid" /\ Arg(t)' = 1 /\ rxOp'[t] = "edid"
    BY <1>1, <1>10, EdidMoves DEF Goes, Ended
  <2>4. CASE Withdraws(t)
    <3>1. Settled'
      BY <1>4, <2>1, <2>2, <2>4 DEF EdidAt, Settled
    <3> QED
      BY <1>5, <2>3, <2>4, <3>1
  <2>5. CASE ~Withdraws(t)
    <3>1. EdidAt(t)'
      BY <1>4, <2>1, <2>2, <2>3, <2>5 DEF EdidAt
    <3> QED
      BY <1>5, <2>3, <2>5, <3>1
  <2> QED
    BY <2>4, <2>5
<1>11. CASE WriteEdid(t)
  <2> DEFINE new == Head(rxTodo[t])[3]
  <2>1. /\ Name(t) = "edid" /\ rx' = rx /\ chip' = [chip EXCEPT !.edid[Arg(t)] = new]
        /\ Arg(t) \in 1 .. 2
    BY <1>1, <1>6, <1>7, <1>11, ArgTypes DEF WriteEdid
  <2>2. /\ chip'.hpd = chip.hpd /\ chip'.edid = [chip.edid EXCEPT ![Arg(t)] = new]
        /\ chip.edid \in [1 .. 2 -> Edids]
    BY <1>1, <2>1 DEF ChipType
  <2>3. chip'.edid[Arg(t)] = new /\ (Arg(t) = 2 => chip'.edid[1] = chip.edid[1])
    BY <2>1, <2>2
  <2>4. \/ /\ Arg(t) = 1 /\ Name(t)' = "edid" /\ rxOp'[t] = "edid" /\ Arg(t)' = 2
           /\ Head(rxTodo'[t])[3] = new
        \/ Arg(t) = 2 /\ Name(t)' = "store" /\ rxOp'[t] = "edid" /\ Arg(t)' = new
    BY <1>1, <1>11, EdidMoves DEF Goes
  <2>5. EdidAt(t)'
    <3>1. CASE Arg(t) = 1
      BY <1>4, <2>1, <2>2, <2>3, <2>4, <3>1 DEF EdidAt
    <3>2. CASE Arg(t) = 2
      <4>1. chip.edid[1] = new
        BY <1>4, <2>1, <3>2 DEF EdidAt
      <4>2. \A i \in 1 .. 2 : chip'.edid[i] = new
        BY <2>3, <3>2, <4>1
      <4> QED
        BY <1>4, <2>1, <2>2, <2>4, <3>2, <4>2 DEF EdidAt
    <3> QED
      BY <2>1, <3>1, <3>2
  <2> QED
    BY <1>5, <2>4, <2>5
<1>12. CASE StoreEdid(t)
  <2>1. Name(t) = "store" /\ chip' = chip /\ rx' = [rx EXCEPT !.edid = Arg(t), !.blocks = 2]
    BY <1>6, <1>7, <1>12 DEF StoreEdid
  <2>2. rx'.edid = Arg(t) /\ rx'.blocks = 2
    BY <1>1, <2>1 DEF StateType
  <2>3. Name(t)' = "enable" /\ rxOp'[t] = "edid"
    BY <1>1, <1>12, EdidMoves DEF Goes
  <2>4. EdidAt(t)'
    BY <1>4, <2>1, <2>2, <2>3 DEF EdidAt, Whole
  <2> QED
    BY <1>5, <2>3, <2>4
<1>13. CASE EnableEdid(t)
  <2>1. Name(t) = "enable" /\ chip' = chip
    BY <1>6, <1>7, <1>13 DEF EnableEdid
  <2>2. rx'.edid = rx.edid /\ rx'.blocks = rx.blocks
    BY <1>1, <1>13 DEF EnableEdid, StateType
  <2>3. rxOp'[t] = "none"
    BY <1>1, <1>13, EdidMoves DEF Ended
  <2>4. Settled'
    BY <1>4, <2>1, <2>2 DEF EdidAt, Settled, Whole
  <2> QED
    BY <1>5, <2>3, <2>4
<1> QED
  BY <1>6, <1>7, <1>8, <1>9, <1>10, <1>11, <1>12, <1>13
     DEF RxStep, StepNames, IsrNames, CscNames, Lock, Unlock, Match, StoreTimings,
         ConfigureVhref, StoreRange, ClearConv, ChooseConv, StoreConv, TestConv, WriteBypass,
         WriteCoef, ReadStatus, ClearStatus, CheckPort, ReadAvi, ParseAvi, HighAtProbe, CoreInit

\* The delayed work raises hot plug only over a whole EDID.
LEMMA EdidWork == RxTypes /\ EdidInv /\ HpdWork => EdidInv'
<1> SUFFICES ASSUME RxTypes, EdidInv, HpdWork PROVE EdidInv'
  OBVIOUS
<1>1. chip \in ChipType /\ rx \in StateType /\ Places
  BY Where DEF RxTypes, RxTypeOK, ChipType, StateType
<1>2. UNCHANGED <<rxTodo, rxOp, rxStage, rxRaced>> /\ rx.dwork # "idle"
  BY DEF HpdWork
<1>3. rx'.edid = rx.edid /\ rx'.blocks = rx.blocks /\ chip'.edid = chip.edid
  <2>1. \/ rx' = [rx EXCEPT !.dwork = "running"]
        \/ rx' = [rx EXCEPT !.dwork = "idle", !.present = TRUE]
    BY DEF HpdWork
  <2>2. rx'.edid = rx.edid /\ rx'.blocks = rx.blocks
    BY <1>1, <2>1 DEF StateType
  <2>3. chip' = chip \/ chip' = [chip EXCEPT !.hpd = TRUE]
    BY DEF HpdWork
  <2>4. chip'.edid = chip.edid
    BY <1>1, <2>3 DEF ChipType
  <2> QED
    BY <2>2, <2>4
<1>4. Whole' <=> Whole
  BY <1>3 DEF Whole
<1>5. Settled => Settled'
  BY <1>2, <1>3, <1>4 DEF Settled
<1>6. ASSUME NEW t \in RxThreads, rxOp[t] = "edid", EdidAt(t) PROVE EdidAt(t)'
  <2>1. /\ Name(t)' = Name(t) /\ Arg(t)' = Arg(t) /\ Head(rxTodo'[t]) = Head(rxTodo[t])
        /\ Withdraws(t)' <=> Withdraws(t)
    BY <1>2 DEF Name, Arg, Idle, Withdraws
  <2>2. Name(t) \notin {"low", "edid", "store"}
    BY <1>2, <1>6 DEF EdidAt
  <2> QED
    BY <1>3, <1>4, <1>5, <1>6, <2>1, <2>2 DEF EdidAt
<1> QED
  BY <1>2, <1>3, <1>5, <1>6 DEF EdidInv, OneEdid

\* set_edid() begins with the EDID at rest, unless it meets another one.
LEMMA EdidCall ==
  ASSUME RxTypes, EdidInv, IrqWork \/ InitCall \/ IoctlCall
  PROVE  EdidInv'
<1>1. Control /\ Places /\ rx \in StateType
  BY Where DEF RxTypes, RxTypeOK, StateType
<1>2. /\ "init" \in RxThreads /\ "ioctl" \in RxThreads /\ "irq" \in RxThreads
      /\ {"probe", "edid", "timings", "isr", "ctrl"} \subseteq RxOps
  BY DEF RxThreads, RxOps
<1>3. UNCHANGED EdidData
  <2>1. chip' = chip /\ \/ rx' = rx \/ rx' = [rx EXCEPT !.work = FALSE]
                        \/ rx' = [rx EXCEPT !.up = TRUE]
    BY DEF IrqWork, InitCall, IoctlCall
  <2> QED
    BY <1>1, <2>1 DEF EdidData, StateType
<1>4. rxStage' \in {"new", "probed"} => rx'.edid = "none"
  <2>1. rxStage' \in {"new", "probed"} => rxStage \in {"new", "probed"}
    BY DEF IrqWork, InitCall, IoctlCall
  <2> QED
    BY <1>3, <2>1, EdidKept DEF EdidInv
<1>5. ASSUME NEW t \in RxThreads, NEW op \in RxOps, NEW steps \in Seq(StepType),
             Begin(t, op, steps),
             op = "edid" => \/ Name(t)' = "forget"
                            \/ Name(t)' = "cancel" /\ ~Withdraws(t)'
      PROVE  EdidInv'
  <2>1. /\ rxOp[t] = "none" /\ rxOp'[t] = op /\ rxRaced \subseteq rxRaced'
        /\ \A u \in RxThreads : u # t => rxTodo'[u] = rxTodo[u] /\ rxOp'[u] = rxOp[u]
        /\ \A u \in RxThreads \ {t} : op = "edid" /\ rxOp[u] = "edid" => "edid" \in rxRaced'
    BY <1>1, <1>5, BeginFacts
  <2> SUFFICES ASSUME "edid" \notin rxRaced'
               PROVE  /\ OneEdid'
                      /\ (\A u \in RxThreads : rxOp'[u] # "edid") => Settled'
                      /\ \A u \in RxThreads : rxOp'[u] = "edid" => EdidAt(u)'
    BY <1>4 DEF EdidInv
  <2>2. "edid" \notin rxRaced
    BY <2>1
  <2>3. OneEdid'
    BY <2>1, <2>2 DEF EdidInv, OneEdid
  <2>4. (\A u \in RxThreads : rxOp'[u] # "edid") => Settled'
    BY <1>3, <2>1, <2>2, EdidKept DEF EdidInv
  <2>5. ASSUME NEW u \in RxThreads, rxOp'[u] = "edid" PROVE EdidAt(u)'
    <3>1. CASE u # t
      BY <1>3, <2>1, <2>2, <2>5, <3>1, EdidKept DEF EdidInv
    <3>2. CASE u = t
      <4>1. \A v \in RxThreads : rxOp[v] # "edid"
        BY <2>1, <2>5, <3>2
      <4>2. Settled'
        BY <1>3, <2>2, <4>1, EdidKept DEF EdidInv
      <4> QED
        BY <1>5, <2>1, <2>5, <3>2, <4>2 DEF EdidAt, Settled
    <3> QED
      BY <3>1, <3>2
  <2> QED
    BY <2>3, <2>4, <2>5
<1>6. CASE IrqWork
  <2>1. Begin("irq", "isr", Isr) /\ Isr \in Seq(StepType)
    BY <1>6, Programs DEF IrqWork
  <2> QED
    BY <1>2, <1>5, <2>1
<1>7. CASE InitCall
  <2>1. CASE Begin("init", "edid", SetEdid("builtin")) /\ Name("init")' = "cancel"
             /\ ~Withdraws("init")'
    <3>1. SetEdid("builtin") \in Seq(StepType)
      BY Programs DEF Stored
    <3> QED
      BY <1>2, <1>5, <2>1, <3>1
  <2>2. CASE Begin("init", "timings", <<<<"match", "720p60">>>>)
    <3>1. <<<<"match", "720p60">>>> \in Seq(StepType)
      BY Programs, RxTimingsAssumption
    <3> QED
      BY <1>2, <1>5, <2>2, <3>1
  <2>3. CASE Begin("init", "probe", Probe)
    BY <1>2, <1>5, <2>3, Programs
  <2> QED
    BY <1>1, <1>7, <2>1, <2>2, <2>3, CallMoves
<1>8. CASE IoctlCall
  <2>1. ASSUME NEW v \in RxTimings, Begin("ioctl", "timings", <<<<"match", v>>>>)
        PROVE  EdidInv'
    <3>1. <<<<"match", v>>>> \in Seq(StepType)
      BY Programs
    <3> QED
      BY <1>2, <1>5, <2>1, <3>1
  <2>2. ASSUME NEW r \in Ranges, Begin("ioctl", "ctrl", SetRange(r)) PROVE EdidInv'
    <3>1. SetRange(r) \in Seq(StepType)
      BY Programs
    <3> QED
      BY <1>2, <1>5, <2>2, <3>1
  <2>3. ASSUME NEW e \in RxEdids \cup {"none"}, Begin("ioctl", "edid", SetEdid(e)),
               Name("ioctl")' = "forget" \/ (Name("ioctl")' = "cancel" /\ ~Withdraws("ioctl")')
        PROVE  EdidInv'
    <3>1. SetEdid(e) \in Seq(StepType)
      BY Programs DEF Stored
    <3> QED
      BY <1>2, <1>5, <2>3, <3>1
  <2> QED
    BY <1>1, <1>8, <2>1, <2>2, <2>3, CallMoves
<1> QED
  BY <1>6, <1>7, <1>8

\* Every step keeps the EDID's invariant.
LEMMA EdidNext == RxTypes /\ EdidInv /\ [RxNext]_rxVars => EdidInv'
<1> SUFFICES ASSUME RxTypes, EdidInv, [RxNext]_rxVars PROVE EdidInv'
  OBVIOUS
<1>1. chip \in ChipType /\ rx \in StateType
  BY DEF RxTypes, RxTypeOK, ChipType, StateType
<1>2. CASE PortEvent \/ AviEvent \/ UNCHANGED rxVars
  <2>1. UNCHANGED <<rxTodo, rxOp, rxStage, rxRaced>>
    BY <1>2 DEF PortEvent, AviEvent, SourceEvent, rxVars
  <2>2. UNCHANGED EdidData
    BY <1>1, <1>2, ZenonT(60)
       DEF PortEvent, AviEvent, SourceEvent, rxVars, ChipType, StateType, EdidData
  <2> QED
    BY <2>1, <2>2, EdidKept DEF EdidInv, OneEdid
<1>3. CASE IrqWork \/ InitCall \/ IoctlCall
  BY <1>3, EdidCall
<1>4. CASE HpdWork
  BY <1>4, EdidWork
<1>5. CASE \E t \in RxThreads : RxStep(t)
  BY <1>5, EdidStep, EdidElsewhere
<1> QED
  BY <1>2, <1>3, <1>4, <1>5 DEF RxNext

\* There is no EDID before the probe.
LEMMA EdidInit == RxInit => EdidInv
BY DEF RxInit, EdidInv, OneEdid, Settled, RxThreads

\* What a source reads while hot plug is high is whole.
LEMMA EdidSays == RxTypes /\ EdidInv => AnnouncedWhole
<1> SUFFICES ASSUME RxTypes, EdidInv, rx.edid # "none", "edid" \notin rxRaced
             PROVE  /\ chip.hpd /\ rx.blocks > 0 => Whole
                    /\ rx.blocks = 0 /\ (\A t \in RxThreads : rxOp[t] # "edid") =>
                         ~chip.hpd /\ rx.dwork = "idle"
  BY DEF AnnouncedWhole, Whole
<1>1. Places
  BY Where DEF RxTypes
<1>2. CASE \A t \in RxThreads : rxOp[t] # "edid"
  BY <1>2 DEF EdidInv, Settled
<1>3. ASSUME NEW t \in RxThreads, rxOp[t] = "edid"
      PROVE  chip.hpd /\ rx.blocks > 0 => Whole
  <2>1. EdidAt(t) /\ Name(t) \in EdidNames
    BY <1>1, <1>3 DEF EdidInv, Places, PlaceOf
  <2> QED
    BY <2>1 DEF EdidAt, EdidNames, Settled
<1> QED
  BY <1>2, <1>3

-----------------------------------------------------------------------------
(* Theorems.                                                               *)

\* The receiver driver alone.
RxSpec == RxInit /\ [][RxNext]_rxVars

\* The inductive invariant.
RxInv == RxTypes /\ FlagsInv /\ LockInv /\ ColourInv /\ EdidInv

\* RxInv is inductive.
LEMMA RxInductive ==
  /\ RxInit => RxInv
  /\ RxInv /\ [RxNext]_rxVars => RxInv'
<1>1. RxInit => RxInv
  BY TypesInit, FlagsInit, LockInit, ColoursInit, EdidInit DEF RxInv
<1>2. RxInv /\ [RxNext]_rxVars => RxInv'
  BY TypesStep, FlagsNext, LockNext, ColoursNext, EdidNext DEF RxInv
<1> QED
  BY <1>1, <1>2

\* The receiver driver, whatever it does, keeps its types: the steps a thread has
\* left are always the rest of one of the driver's calls.
THEOREM ReceiverTypes == RxSpec => []RxTypes
<1>1. RxInv => RxTypes
  BY DEF RxInv
<1> QED
  BY <1>1, RxInductive, PTL DEF RxSpec

\* No port change and no infoframe is lost: tda19978_isr() clears the flags it read
\* before it reads what they told.
THEOREM NewsTakenIn == RxSpec => []FlagsTellNews
<1>1. RxInv => FlagsTellNews
  BY FlagsSay DEF RxInv
<1> QED
  BY <1>1, RxInductive, PTL DEF RxSpec

\* The matrix is whole and in step with the colours between calls, as long as
\* s_ctrl, which takes no lock, has met no other call.
THEOREM ColoursInStep == RxSpec => []MatrixWhole
<1>1. RxInv => MatrixWhole
  BY ColoursSay DEF RxInv
<1> QED
  BY <1>1, RxInductive, PTL DEF RxSpec

\* Hot plug is never high over an EDID half written or withdrawn.
THEOREM EdidWhole == RxSpec => []AnnouncedWhole
<1>1. RxInv => AnnouncedWhole
  BY EdidSays DEF RxInv
<1> QED
  BY <1>1, RxInductive, PTL DEF RxSpec

=============================================================================
