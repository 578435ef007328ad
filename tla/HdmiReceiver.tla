---------------------------- MODULE HdmiReceiver ----------------------------
(***************************************************************************)
(* The TDA19978 HDMI receiver driver: hot plug and EDID, the interrupt     *)
(* handler that follows port changes and AVI infoframes, the timings and   *)
(* the colour conversion matrix.                                           *)
(*                                                                         *)
(* Three threads call the driver: "init" (the card's probe: i2c probe, then*)
(* set_edid and s_dv_timings), "ioctl" (the application, serialised by     *)
(* video_lock) and "irq" (the interrupt's work item). state->lock orders   *)
(* some of what they do. A call is a sequence of steps <<name, argument>>; *)
(* rxTodo[t] is what thread t has still to do.                             *)
(*                                                                         *)
(* Register writes whose order nothing depends on are one step; the matrix *)
(* is two halves. Accesses to the chip succeed here: their paging and      *)
(* their failures are the subject of I2cTransfer.                          *)
(***************************************************************************)
EXTENDS Integers, Sequences

CONSTANTS RxFrames,     \* AVI infoframes: "rgbfull", "rgblim", "yuv"
          RxTimings,    \* timings the receiver accepts
          RxEdids,      \* EDIDs an application may store
          MaxRxUses     \* bound on the application's calls and the source's events

ASSUME RxFramesAssumption == RxFrames \subseteq {"rgbfull", "rgblim", "yuv"}
ASSUME RxTimingsAssumption == "720p60" \in RxTimings /\ "1080p30" \in RxTimings
ASSUME RxEdidsAssumption == "none" \notin RxEdids /\ "builtin" \notin RxEdids
ASSUME RxUsesAssumption == MaxRxUses \in Nat

VARIABLES
  chip,    \* the chip and the cable
  rx,      \* struct tda19978_state
  rxTodo,  \* the steps each thread has left
  rxOp,    \* the call each thread is in
  rxStage, \* how far the probe has come
  rxUsed,  \* calls and events so far
  rxRaced  \* calls that met without a lock ("csc": s_ctrl, "edid": set_edid)

rxVars == <<chip, rx, rxTodo, rxOp, rxStage, rxUsed, rxRaced>>

RxThreads == {"init", "ioctl", "irq"}
RxOps     == {"none", "probe", "edid", "timings", "ctrl", "isr"}
CscOps    == {"timings", "ctrl", "isr"}
Ranges    == {"auto", "limited", "full"}
Convs     == {"RGBFULL", "RGBLIM"}
Flags     == {"port", "avi"}
Edids     == RxEdids \cup {"builtin", "none"}

Do(name) == <<name, "-">>

-----------------------------------------------------------------------------
(* Programs *)

\* tda19978_configure_csc(): state->conv is cleared, then chosen, then used.
Csc == <<Do("null"), Do("choose")>>

\* What follows the test of state->conv.
CscWrites(c) == IF c = "NULL" THEN <<Do("bypass")>>
                ELSE <<Do("matrix"), <<"coef", 1>>, <<"coef", 2>>>>

\* A mutant of SetTimings: no lock around the timings and the matrix.
SetTimingsUnlocked(v) == <<<<"timings", v>>, Do("vhref")>> \o Csc

\* tda19978_s_dv_timings(), once the new timings differ from the old.
SetTimings(v) ==
  <<Do("lock"), <<"timings", v>>, Do("vhref")>> \o Csc \o <<Do("unlock")>>

\* tda19978_s_ctrl(V4L2_CID_DV_RX_RGB_RANGE) takes no lock.
SetRange(r) == <<<<"range", r>>>> \o Csc

\* A mutant of Isr: the flags are cleared when everything is done.
IsrClearsLate == <<Do("lock"), Do("status"), Do("checkPort"), Do("avi"),
                   Do("clear"), Do("unlock")>>

\* tda19978_isr().
Isr == <<Do("lock"), Do("status"), Do("clear"), Do("checkPort"), Do("avi"),
         Do("unlock")>>

\* A mutant of SetEdid: the delayed work is not cancelled.
SetEdidNoCancel(e) ==
  IF e = "none" THEN <<Do("forget"), Do("low")>>
  ELSE <<Do("low"), <<"edid", 1, e>>, <<"edid", 2, e>>, <<"store", e>>,
         Do("enable")>>

\* tda19978_set_edid() with no blocks ("none") or with one or two of them.
SetEdid(e) ==
  IF e = "none" THEN <<Do("forget"), Do("cancel"), Do("low")>>
  ELSE <<Do("cancel"), Do("low"), <<"edid", 1, e>>, <<"edid", 2, e>>,
         <<"store", e>>, Do("enable")>>

\* tda19978_probe(): hot plug high, core_init, the control handler's setup
\* (s_ctrl with the default), the interrupt handler called by hand.
Probe == <<Do("high"), Do("core")>> \o SetRange("auto") \o Isr

-----------------------------------------------------------------------------
(* Colour *)

\* set_rgb_quantization_range(): the quantisation of a signal, <<is RGB, range>>.
Colorimetry(f, r) ==
  IF f = "yuv" THEN <<"yuv", "limited">>
  ELSE <<"rgb", CASE r = "limited" -> "full"
                  [] r = "full"    -> "limited"
                  [] r = "auto"    -> IF f = "rgblim" THEN "limited" ELSE "full">>

\* The conversion tda19978_configure_csc() picks.
Choice(col) == CASE col = <<"rgb", "full">>    -> "RGBFULL"
                 [] col = <<"rgb", "limited">> -> "RGBLIM"
                 [] OTHER                      -> "NULL"

-----------------------------------------------------------------------------
Idle(t) == rxTodo[t] = <<>>
At(t, name) == ~Idle(t) /\ Head(rxTodo[t])[1] = name
Arg(t) == Head(rxTodo[t])[2]

\* Thread t does its step and goes on with "more" before the rest.
GoOn(t, more) ==
  /\ rxTodo' = [rxTodo EXCEPT ![t] = more \o Tail(@)]
  /\ rxOp' = [rxOp EXCEPT ![t] = IF more \o Tail(rxTodo[t]) = <<>>
                                 THEN "none" ELSE @]
  /\ UNCHANGED <<rxStage, rxUsed, rxRaced>>

\* Thread t enters call op. The calls it meets without a common lock are noted.
Begin(t, op, steps) ==
  /\ Idle(t)
  /\ rxTodo' = [rxTodo EXCEPT ![t] = steps]
  /\ rxOp' = [rxOp EXCEPT ![t] = op]
  /\ LET met == {rxOp[u] : u \in RxThreads \ {t}} IN
     rxRaced' = rxRaced
       \cup (IF op = "edid" /\ "edid" \in met THEN {"edid"} ELSE {})
       \cup (IF \/ op = "ctrl" /\ met \cap CscOps # {}
                \/ op \in CscOps /\ "ctrl" \in met THEN {"csc"} ELSE {})

-----------------------------------------------------------------------------
(* The source. An event sets its flag; the interrupt line stays asserted   *)
(* while a flag is set, and its edge queues the work item.                 *)

\* A change at the chip's inputs, once core_init has reset it.
SourceEvent(flag, new) ==
  /\ rxStage # "new" /\ ~(\E t \in RxThreads : At(t, "high") \/ At(t, "core"))
  /\ rxUsed < MaxRxUses
  /\ rxUsed' = rxUsed + 1
  /\ chip' = [new EXCEPT !.flags = @ \cup {flag}]
  /\ rx' = [rx EXCEPT !.work = @ \/ (chip.flags = {} /\ rx.up)]
  /\ UNCHANGED <<rxTodo, rxOp, rxStage, rxRaced>>

PortEvent == SourceEvent("port", [chip EXCEPT !.port = ~@])

AviEvent == \E f \in RxFrames \ {chip.avi} :
              SourceEvent("avi", [chip EXCEPT !.avi = f])

-----------------------------------------------------------------------------
(* Calls *)

\* saa716x_irq_work_handler(): the work item runs the interrupt handler.
IrqWork ==
  /\ rx.work /\ rx.up /\ Begin("irq", "isr", Isr)
  /\ rx' = [rx EXCEPT !.work = FALSE]
  /\ UNCHANGED <<chip, rxStage, rxUsed>>

\* saa716x_subdev_init(): probe, and once dev->sd is set, EDID and timings.
InitCall ==
  /\ \/ rxStage = "new"   /\ Begin("init", "probe", Probe)
                          /\ rxStage' = "probed" /\ rx' = rx
     \/ rxStage = "probed" /\ Begin("init", "edid", SetEdid("builtin"))
                          /\ rxStage' = "edid" /\ rx' = [rx EXCEPT !.up = TRUE]
     \/ rxStage = "edid"  /\ Begin("init", "timings", <<<<"match", "720p60">>>>)
                          /\ rxStage' = "done" /\ rx' = rx
  /\ UNCHANGED <<chip, rxUsed>>

\* The application's calls that reach the receiver.
IoctlCall ==
  /\ rx.up /\ rxUsed < MaxRxUses
  /\ \/ \E v \in RxTimings : Begin("ioctl", "timings", <<<<"match", v>>>>)
     \/ \E r \in Ranges : Begin("ioctl", "ctrl", SetRange(r))
     \/ \E e \in RxEdids \cup {"none"} : Begin("ioctl", "edid", SetEdid(e))
  /\ rxUsed' = rxUsed + 1
  /\ UNCHANGED <<chip, rx, rxStage>>

-----------------------------------------------------------------------------
(* Steps of s_dv_timings, s_ctrl and configure_csc *)

Lock(t) == /\ At(t, "lock") /\ rx.lock = "free"
           /\ rx' = [rx EXCEPT !.lock = t]
           /\ GoOn(t, <<>>) /\ UNCHANGED chip

Unlock(t) == /\ At(t, "unlock")
             /\ rx' = [rx EXCEPT !.lock = "free"]
             /\ GoOn(t, <<>>) /\ UNCHANGED chip

\* The test for equal timings is made before the lock is taken.
Match(t) == /\ At(t, "match")
            /\ GoOn(t, IF rx.timings = Arg(t) THEN <<>> ELSE SetTimings(Arg(t)))
            /\ UNCHANGED <<chip, rx>>

StoreTimings(t) == /\ At(t, "timings")
                   /\ rx' = [rx EXCEPT !.timings = Arg(t)]
                   /\ GoOn(t, <<>>) /\ UNCHANGED chip

\* tda19978_configure_vhref(): the registers follow the timings.
ConfigureVhref(t) == /\ At(t, "vhref")
                     /\ chip' = [chip EXCEPT !.vhref = rx.timings]
                     /\ GoOn(t, <<>>) /\ UNCHANGED rx

StoreRange(t) ==
  /\ At(t, "range")
  /\ rx' = [rx EXCEPT !.range = Arg(t), !.col = Colorimetry(rx.avi, Arg(t))]
  /\ GoOn(t, <<>>) /\ UNCHANGED chip

ClearConv(t) == /\ At(t, "null")
                /\ rx' = [rx EXCEPT !.conv = "NULL"]
                /\ GoOn(t, <<>>) /\ UNCHANGED chip

\* The colorimetry is read in one access and state->conv assigned in another.
ChooseConv(t) == /\ At(t, "choose")
                 /\ GoOn(t, <<<<"conv", Choice(rx.col)>>>>)
                 /\ UNCHANGED <<chip, rx>>

StoreConv(t) ==
  /\ At(t, "conv")
  /\ IF Arg(t) = "NULL" THEN rx' = rx ELSE rx' = [rx EXCEPT !.conv = Arg(t)]
  /\ GoOn(t, <<Do("test")>>) /\ UNCHANGED chip

TestConv(t) == /\ At(t, "test")
               /\ GoOn(t, CscWrites(rx.conv))
               /\ UNCHANGED <<chip, rx>>

WriteBypass(t) == /\ At(t, "bypass") \/ At(t, "matrix")
                  /\ chip' = [chip EXCEPT !.bypass = At(t, "bypass")]
                  /\ GoOn(t, <<>>) /\ UNCHANGED rx

\* The coefficients are read through state->conv, register by register: if it
\* is NULL by now, the thread dies where it stands, with the lock it holds.
WriteCoef(t) ==
  /\ At(t, "coef") /\ UNCHANGED rx
  /\ IF rx.conv = "NULL"
     THEN /\ rxTodo' = [rxTodo EXCEPT ![t] = <<Do("dead")>>]
          /\ UNCHANGED <<chip, rxOp, rxStage, rxUsed, rxRaced>>
     ELSE /\ chip' = [chip EXCEPT !.matrix[Arg(t)] = rx.conv]
          /\ GoOn(t, <<>>)

-----------------------------------------------------------------------------
(* Steps of the interrupt handler *)

ReadStatus(t) == /\ At(t, "status")
                 /\ rx' = [rx EXCEPT !.status = chip.flags]
                 /\ GoOn(t, <<>>) /\ UNCHANGED chip

\* The flags just read are written back, which clears them.
ClearStatus(t) == /\ At(t, "clear")
                  /\ chip' = [chip EXCEPT !.flags = @ \ rx.status]
                  /\ GoOn(t, <<>>) /\ UNCHANGED rx

\* tda19978_check_port().
CheckPort(t) ==
  /\ At(t, "checkPort")
  /\ rx' = IF "port" \in rx.status THEN [rx EXCEPT !.port = chip.port] ELSE rx
  /\ GoOn(t, <<>>) /\ UNCHANGED chip

\* tda19978_parse_infoframe() reads the infoframe, byte by byte ...
ReadAvi(t) ==
  /\ At(t, "avi")
  /\ GoOn(t, IF "avi" \in rx.status THEN <<<<"parse", chip.avi>>>> ELSE <<>>)
  /\ UNCHANGED <<chip, rx>>

\* ... and unpacks it. The checksum rejects it when it changed meanwhile.
ParseAvi(t) ==
  /\ At(t, "parse")
  /\ \/ /\ rx' = [rx EXCEPT !.avi = Arg(t), !.col = Colorimetry(Arg(t), rx.range)]
        /\ GoOn(t, Csc)
     \/ /\ "avi" \in chip.flags
        /\ rx' = rx
        /\ GoOn(t, <<>>)
  /\ UNCHANGED chip

-----------------------------------------------------------------------------
(* Hot plug and EDID *)

\* The probe asserts hot plug before there is an EDID.
HighAtProbe(t) == /\ At(t, "high")
                  /\ chip' = [chip EXCEPT !.hpd = TRUE]
                  /\ GoOn(t, <<>>) /\ UNCHANGED rx

\* tda19978_core_init(): the chip is reset and its flags cleared, the matrix
\* written with a fixed conversion, the port read.
CoreInit(t) ==
  /\ At(t, "core")
  /\ chip' = [chip EXCEPT !.flags = {}, !.matrix = [i \in 1 .. 2 |-> "RGBLIM"],
                          !.bypass = FALSE]
  /\ rx' = [rx EXCEPT !.conv = "RGBLIM", !.port = chip.port]
  /\ GoOn(t, <<>>)

ForgetEdid(t) == /\ At(t, "forget")
                 /\ rx' = [rx EXCEPT !.blocks = 0, !.present = FALSE]
                 /\ GoOn(t, <<>>) /\ UNCHANGED chip

\* cancel_delayed_work_sync() of tda19978_disable_edid(): waits for a running one.
CancelHpd(t) == /\ At(t, "cancel") /\ rx.dwork # "running"
                /\ rx' = [rx EXCEPT !.dwork = "idle"]
                /\ GoOn(t, <<>>) /\ UNCHANGED chip

LowerHpd(t) == /\ At(t, "low")
               /\ chip' = [chip EXCEPT !.hpd = FALSE]
               /\ GoOn(t, <<>>) /\ UNCHANGED rx

WriteEdid(t) == /\ At(t, "edid")
                /\ chip' = [chip EXCEPT !.edid[Arg(t)] = Head(rxTodo[t])[3]]
                /\ GoOn(t, <<>>) /\ UNCHANGED rx

StoreEdid(t) == /\ At(t, "store")
                /\ rx' = [rx EXCEPT !.edid = Arg(t), !.blocks = 2]
                /\ GoOn(t, <<>>) /\ UNCHANGED chip

\* A mutant of EnableEdid: the delayed work is not scheduled.
EnableEdidNever(t) == /\ At(t, "enable")
                      /\ GoOn(t, <<>>) /\ UNCHANGED <<chip, rx>>

\* schedule_delayed_work() of tda19978_enable_edid(): nothing if it is pending.
EnableEdid(t) ==
  /\ At(t, "enable")
  /\ rx' = [rx EXCEPT !.dwork = IF @ = "idle" THEN "pending" ELSE @]
  /\ GoOn(t, <<>>) /\ UNCHANGED chip

\* tda19978_delayed_work_enable_hpd(): raises hot plug, then notes it.
HpdWork ==
  /\ \/ /\ rx.dwork = "pending"
        /\ rx' = [rx EXCEPT !.dwork = "running"]
        /\ chip' = [chip EXCEPT !.hpd = TRUE]
     \/ /\ rx.dwork = "running"
        /\ rx' = [rx EXCEPT !.dwork = "idle", !.present = TRUE]
        /\ UNCHANGED chip
  /\ UNCHANGED <<rxTodo, rxOp, rxStage, rxUsed, rxRaced>>

-----------------------------------------------------------------------------
RxInit ==
  /\ chip = [port |-> FALSE, avi |-> "rgbfull", flags |-> {}, bypass |-> FALSE,
             matrix |-> [i \in 1 .. 2 |-> "NULL"], vhref |-> "1080p30",
             edid |-> [i \in 1 .. 2 |-> "none"], hpd |-> FALSE]
  /\ rx = [port |-> FALSE, avi |-> "rgbfull", status |-> {}, range |-> "auto",
           col |-> <<"rgb", "full">>, conv |-> "NULL", timings |-> "1080p30",
           edid |-> "none", blocks |-> 0, present |-> FALSE, dwork |-> "idle",
           lock |-> "free", work |-> FALSE, up |-> FALSE]
  /\ rxTodo = [t \in RxThreads |-> <<>>]
  /\ rxOp = [t \in RxThreads |-> "none"]
  /\ rxStage = "new" /\ rxRaced = {}
  /\ rxUsed = 0

RxStep(t) ==
  \/ Lock(t) \/ Unlock(t) \/ Match(t) \/ StoreTimings(t) \/ ConfigureVhref(t)
  \/ StoreRange(t) \/ ClearConv(t) \/ ChooseConv(t) \/ StoreConv(t)
  \/ TestConv(t) \/ WriteBypass(t) \/ WriteCoef(t)
  \/ ReadStatus(t) \/ ClearStatus(t) \/ CheckPort(t) \/ ReadAvi(t) \/ ParseAvi(t)
  \/ HighAtProbe(t) \/ CoreInit(t) \/ ForgetEdid(t) \/ CancelHpd(t)
  \/ LowerHpd(t) \/ WriteEdid(t) \/ StoreEdid(t) \/ EnableEdid(t)

RxNext == \/ PortEvent \/ AviEvent
          \/ IrqWork \/ InitCall \/ IoctlCall \/ HpdWork
          \/ \E t \in RxThreads : RxStep(t)

\* The threads and the delayed work are scheduled; the source and the
\* application owe nothing.
RxFairness == /\ WF_rxVars(HpdWork) /\ WF_rxVars(IrqWork)
              /\ \A t \in RxThreads : WF_rxVars(RxStep(t))

-----------------------------------------------------------------------------
(* Properties *)

RxTypeOK ==
  /\ chip \in [port : BOOLEAN, avi : RxFrames \cup {"rgbfull"},
               flags : SUBSET Flags, bypass : BOOLEAN,
               matrix : [1 .. 2 -> Convs \cup {"NULL"}], vhref : RxTimings,
               edid : [1 .. 2 -> Edids], hpd : BOOLEAN]
  /\ rx \in [port : BOOLEAN, avi : RxFrames \cup {"rgbfull"},
             status : SUBSET Flags, range : Ranges,
             col : {"rgb", "yuv"} \X {"full", "limited"},
             conv : Convs \cup {"NULL"}, timings : RxTimings, edid : Edids,
             blocks : {0, 2}, present : BOOLEAN,
             dwork : {"idle", "pending", "running"},
             lock : RxThreads \cup {"free"}, work : BOOLEAN, up : BOOLEAN]
  /\ DOMAIN rxTodo = RxThreads /\ rxOp \in [RxThreads -> RxOps]
  /\ rxStage \in {"new", "probed", "edid", "done"}
  /\ rxUsed \in 0 .. MaxRxUses
  /\ rxRaced \subseteq {"csc", "edid"}

\* What the chip no longer flags has been taken in: when no handler runs, a
\* port change or an infoframe whose flag is clear is the one the driver knows.
\* The handler clears before it reads, so that a change that falls in between is
\* flagged again.
FlagsTellNews ==
  rx.up /\ rxOp["irq"] = "none" =>
    /\ "port" \in chip.flags \/ rx.port = chip.port
    /\ "avi" \in chip.flags \/ rx.avi = chip.avi

\* Between calls, the chip converts colours by one whole matrix, the one for the
\* infoframe and the range in force, and times by the timings in force; and no
\* thread follows a NULL matrix. state->lock orders s_dv_timings and the
\* interrupt handler; s_ctrl takes no lock, and the states after it met one of
\* them are excepted.
MatrixWhole ==
  "csc" \notin rxRaced =>
    /\ \A t \in RxThreads : ~At(t, "dead")
    /\ rx.up /\ (\A t \in RxThreads : rxOp[t] \notin CscOps) =>
         /\ rx.col = Colorimetry(rx.avi, rx.range)
         /\ rx.conv = Choice(rx.col)
         /\ chip.bypass = (rx.conv = "NULL")
         /\ ~chip.bypass => \A i \in 1 .. 2 : chip.matrix[i] = rx.conv
         /\ chip.vhref = rx.timings

\* A source that sees hot plug reads the EDID last stored, whole; once it was
\* withdrawn hot plug stays low: no delayed work of an earlier call raises it
\* over an EDID half written or gone. (Two set_edid at once, the probe's and the
\* application's, share no lock and are excepted; before the probe's own EDID
\* hot plug is high over none.)
AnnouncedWhole ==
  rx.edid # "none" /\ "edid" \notin rxRaced =>
    /\ chip.hpd /\ rx.blocks > 0 => \A i \in 1 .. 2 : chip.edid[i] = rx.edid
    /\ rx.blocks = 0 /\ (\A t \in RxThreads : rxOp[t] # "edid") =>
         ~chip.hpd /\ rx.dwork = "idle"

\* An EDID once stored is announced: hot plug rises, unless another set_edid
\* comes first. (Excepted, as above: two set_edid have crossed.)
EdidAnnounced ==
  (rx.blocks > 0 /\ \A t \in RxThreads : rxOp[t] # "edid")
    ~> (chip.hpd \/ "edid" \in rxRaced \/ \E t \in RxThreads : rxOp[t] = "edid")

=============================================================================
