--------------------------- MODULE CaptureConfig ---------------------------
(***************************************************************************)
(* What the capture card is set up to capture: the V4L2 ioctls on input,   *)
(* standard, timings and format, the parameters derived for the video      *)
(* input port, and the buffers allocated for them.                         *)
(*                                                                         *)
(* video_lock serialises the ioctls; saa716x_subdev_init() runs beside     *)
(* them without it, the video node being registered before. What the two   *)
(* share is read and stored step by step: the timings, the format, and     *)
(* vip_params, one field after the other.                                  *)
(***************************************************************************)
EXTENDS Integers

CONSTANTS CfgTimings,   \* timings an application may ask for
          MaxCfgCalls   \* bound on the ioctls that change something

\* "720p24" is accepted by the timings' caps but has no entry in the parameters'
\* table (its VIC is 60).
ASSUME CfgTimingsAssumption ==
         /\ CfgTimings \subseteq {"480p", "720p60", "720p24", "1080i60", "1080p30"}
         /\ "720p60" \in CfgTimings
ASSUME CfgCallsAssumption == MaxCfgCalls \in Nat

VARIABLES
  stream,    \* struct saa716x_stream: input, std, timings, format, vip_params, and
             \* the receiver of its board, capture_config.subdev
  rxTimings, \* the timings the receiver has
  bufs,      \* the size of the buffers allocated, 0 when there are none
  streaming, \* start_streaming() is "off", "starting" or done, "on"
  engine,    \* the parameters start_streaming() gave to the engine
  sent,      \* the timings an S_DV_TIMINGS under way has given to the receiver
  subdev,    \* how far saa716x_subdev_init() is
  deriv,     \* the derivation of vip_params by an ioctl and by that function
  derived,   \* vip_params were derived from the present input, timings, format
             \* by a call that no other crossed
  cfgCalls,  \* ioctls so far
  crossed    \* S_DV_TIMINGS and saa716x_subdev_init() set the receiver at once

cfgVars == <<stream, rxTimings, bufs, streaming, engine, sent, subdev, deriv, derived,
             cfgCalls, crossed>>

Fields == {"none", "interlaced", "seqTb", "alternate"}
VipFlags == {"INTERLACED", "HD", "ODD", "EVEN", "SEQ", "ALTERNATE"}

-----------------------------------------------------------------------------
(* Timings and formats *)

Width(v)  == CASE v = "480p" -> 720
               [] v \in {"720p60", "720p24"} -> 1280
               [] OTHER -> 1920
Height(v) == CASE v = "480p" -> 480
               [] v \in {"720p60", "720p24"} -> 720
               [] OTHER -> 1080
Interlaced(v) == v = "1080i60"

Pix(w, h, f) == [width |-> w, height |-> h, field |-> f, sizeimage |-> w * 2 * h]

\* A mutant of FillPixFormat: a field of its own does not halve the height.
FillPixWhole(s, field) ==
  Pix(Width(s.timings), Height(s.timings),
      IF ~Interlaced(s.timings) THEN "none"
      ELSE IF field \in {"seqTb", "alternate"} THEN field ELSE "interlaced")

\* saa716x_cap_fill_pix_format(): the format for stream s and the field asked for.
FillPixFormat(s, field) ==
  LET w == Width(s.timings)
      h == Height(s.timings) IN
  IF s.input = 1 THEN Pix(720, IF s.std = "525" THEN 480 ELSE 576, "interlaced")
  ELSE IF ~Interlaced(s.timings) THEN Pix(w, h, "none")
  ELSE IF field = "alternate" THEN Pix(w, h \div 2, field)
  ELSE Pix(w, h, IF field = "seqTb" THEN field ELSE "interlaced")

\* Stream s with its format filled in again.
Refilled(s) == [s EXCEPT !.format = FillPixFormat(s, s.format.field)]

-----------------------------------------------------------------------------
(* Parameters of the video input port *)

Supported(v) == v # "720p24"
HighDef(v)   == v # "480p"

FieldFlags(f) == CASE f = "alternate"  -> {"ALTERNATE"}
                   [] f = "seqTb"      -> {"SEQ"}
                   [] f = "interlaced" -> {"ODD", "EVEN"}
                   [] OTHER            -> {}

\* The source format is type2 for timings that carry blanking: in
\* video_vip_get_stream_params_tda19978(), where timings that are not in the table
\* end the call with it, and in video_vip_get_stream_params_adv7611().
Tda19978Type2(v) == v \in {"720p60", "720p24", "1080i60"}
Adv7611Type2(v)  == v = "1080i60"

\* The stores of a derivation in their order, for the timings v it has read:
\* vip_params of stream s after the k-th. The pitch goes with the samples. Standard
\* definition leaves the flags as they were. The fields' flags are those of the
\* format of the moment.
StoredParams(k, v, s) ==
  CASE k = 1 -> [s.vip EXCEPT !.type2 = IF s.receiver = "TDA19978"
                                        THEN Tda19978Type2(v) ELSE Adv7611Type2(v)]
    [] k = 2 -> [s.vip EXCEPT !.samples = Width(v)]
    [] k = 3 -> [s.vip EXCEPT !.lines = Height(v)]
    [] k = 4 -> [s.vip EXCEPT !.flags = IF ~HighDef(v) THEN @
                                        ELSE IF Interlaced(v) THEN {"INTERLACED", "HD"}
                                        ELSE {"HD"}]
    [] k = 5 -> [s.vip EXCEPT !.flags = @ \cup FieldFlags(s.format.field)]

\* Timings that are not in the table leave all but the source format.
LastStore(v) == IF Supported(v) THEN 5 ELSE 1

\* What the parameters depend on.
Setting(s) == [input |-> s.input, timings |-> s.timings, format |-> s.format]

\* The bytes between the first and the last that the engine writes for a buffer,
\* as saa716x_vip_setparams() sets window, pitch and second base: in interlaced
\* modes half the lines twice, interleaved or one after the other, but with
\* alternate fields once.
EngineBytes(vip) ==
  vip.samples * 2 * (IF {"INTERLACED", "ALTERNATE"} \subseteq vip.flags
                     THEN vip.lines \div 2 ELSE vip.lines)

-----------------------------------------------------------------------------
(* ioctls *)

Busy == bufs # 0

\* Derivations of vip_params: the store each is about to make, 0 for none, the
\* timings it has read, and whether nothing has crossed it.
Derivers == {"ioctl", "init"}
NotDeriving == [at |-> 0, timings |-> "none", alone |-> TRUE]
Deriving(p) == deriv[p].at # 0
OtherDeriver(p) == IF p = "ioctl" THEN "init" ELSE "ioctl"

\* Caller p begins to derive; if the other is at it, they cross.
DeriveStarted(p) ==
  [c \in Derivers |->
     IF c = p THEN [at |-> 1, timings |-> stream.timings,
                    alone |-> ~Deriving(OtherDeriver(p))]
     ELSE [deriv[c] EXCEPT !.alone = ~Deriving(c)]]

\* No ioctl is in the middle of its call: video_lock is free.
Unlocked == sent = "none" /\ ~Deriving("ioctl") /\ streaming # "starting"
Count == cfgCalls < MaxCfgCalls /\ cfgCalls' = cfgCalls + 1

\* Changes of the settings leave vip_params to the next S_FMT, and cross a
\* derivation by saa716x_subdev_init().
SetStream(s) ==
  LET same == Setting(s) = Setting(stream) IN
  /\ stream' = s
  /\ derived' = (derived /\ same)
  /\ deriv' = IF same THEN deriv
              ELSE [deriv EXCEPT !["init"].alone = ~Deriving("init")]

\* saa716x_cap_s_input().
SInput ==
  /\ Unlocked /\ Count /\ ~Busy
  /\ \E i \in {0, 1} : SetStream(Refilled([stream EXCEPT !.input = i]))
  /\ UNCHANGED <<rxTimings, bufs, streaming, engine, sent, subdev, crossed>>

\* saa716x_cap_s_std(), on the analog input only.
SStd ==
  /\ Unlocked /\ Count /\ stream.input = 1 /\ ~Busy
  /\ \E std \in {"525", "625"} \ {stream.std} :
       SetStream(Refilled([stream EXCEPT !.std = std]))
  /\ UNCHANGED <<rxTimings, bufs, streaming, engine, sent, subdev, crossed>>

\* saa716x_cap_s_dv_timings(): the receiver first. With no subdevice it fails.
SDvTimingsBegin ==
  /\ Unlocked /\ Count /\ stream.input = 0 /\ ~Busy /\ subdev # "none"
  /\ \E v \in CfgTimings \ {stream.timings} : rxTimings' = v /\ sent' = v
  /\ crossed' = (crossed \/ subdev # "done")
  /\ UNCHANGED <<stream, bufs, streaming, engine, subdev, deriv, derived>>

\* A mutant of SDvTimingsStore: the timings stay when the receiver took new ones.
SDvTimingsDrop ==
  /\ sent \notin {"none", stream.timings} /\ sent' = "none"
  /\ UNCHANGED <<stream, rxTimings, bufs, streaming, engine, subdev, deriv, derived,
                 cfgCalls, crossed>>

\* Then the stream's own timings,
SDvTimingsStore ==
  /\ sent \notin {"none", stream.timings}
  /\ SetStream([stream EXCEPT !.timings = sent])
  /\ UNCHANGED <<rxTimings, bufs, streaming, engine, sent, subdev, cfgCalls, crossed>>

\* and the format for them; vip_params are left.
SDvTimingsEnd ==
  /\ sent = stream.timings /\ sent' = "none"
  /\ SetStream(Refilled(stream))
  /\ UNCHANGED <<rxTimings, bufs, streaming, engine, subdev, cfgCalls, crossed>>

\* saa716x_cap_s_fmt_vid_cap(): the format is stored, then the parameters are
\* derived, which may fail.
SFmt ==
  /\ Unlocked /\ Count /\ ~Busy
  /\ \E f \in Fields : stream' = [stream EXCEPT !.format = FillPixFormat(stream, f)]
  /\ deriv' = DeriveStarted("ioctl") /\ derived' = FALSE
  /\ UNCHANGED <<rxTimings, bufs, streaming, engine, sent, subdev, crossed>>

\* The next store of the derivation by p.
DeriveStore(p) ==
  LET d == deriv[p] IN
  /\ Deriving(p)
  /\ stream' = [stream EXCEPT !.vip = StoredParams(d.at, d.timings, stream)]
  /\ deriv' = [deriv EXCEPT ![p] = IF d.at = LastStore(d.timings) THEN NotDeriving
                                   ELSE [d EXCEPT !.at = d.at + 1]]
  /\ derived' = (d.at = 5 /\ d.alone)
  /\ UNCHANGED <<rxTimings, bufs, streaming, engine, sent, subdev, cfgCalls, crossed>>

\* VIDIOC_REQBUFS: queue_setup() asks for buffers of the format's size.
ReqBufs ==
  /\ Unlocked /\ streaming = "off"
  /\ bufs' = IF Busy THEN 0 ELSE stream.format.sizeimage
  /\ UNCHANGED <<stream, rxTimings, streaming, engine, sent, subdev, deriv, derived,
                 cfgCalls, crossed>>

\* VIDIOC_STREAMON: start_streaming() hands vip_params to the engine once
\* buffer_prepare() has accepted the buffers. It reads them field by field:
\* each is what it is at the beginning
StreamOn ==
  /\ Unlocked /\ streaming = "off" /\ Busy /\ bufs >= stream.format.sizeimage
  /\ streaming' = "starting" /\ engine' = [vip |-> stream.vip, derived |-> derived]
  /\ UNCHANGED <<stream, rxTimings, bufs, sent, subdev, deriv, derived, cfgCalls,
                 crossed>>

\* or, like the flags, at the end; it may fail.
NotStreaming == [vip |-> [samples |-> 0, lines |-> 0, type2 |-> FALSE, flags |-> {}],
                 derived |-> FALSE]

StreamGo ==
  /\ streaming = "starting"
  /\ \/ streaming' = "off" /\ engine' = NotStreaming
     \/ /\ streaming' = "on"
        /\ \E w \in {engine.vip.samples, stream.vip.samples},
              h \in {engine.vip.lines, stream.vip.lines} :
             engine' = [vip |-> [stream.vip EXCEPT !.samples = w, !.lines = h],
                        derived |-> engine.derived /\ derived]
  /\ UNCHANGED <<stream, rxTimings, bufs, sent, subdev, deriv, derived, cfgCalls,
                 crossed>>

\* VIDIOC_STREAMOFF.
StreamOff ==
  /\ Unlocked /\ streaming = "on"
  /\ streaming' = "off" /\ engine' = NotStreaming
  /\ UNCHANGED <<stream, rxTimings, bufs, sent, subdev, deriv, derived, cfgCalls,
                 crossed>>

-----------------------------------------------------------------------------
(* saa716x_subdev_init() *)

\* The i2c subdevice is there: dev->sd_receiver is set.
SubdevProbe ==
  /\ subdev = "none" /\ subdev' = "probed"
  /\ UNCHANGED <<stream, rxTimings, bufs, streaming, engine, sent, deriv, derived,
                 cfgCalls, crossed>>

\* The parameters for the timings of the moment are derived beside the ioctls; the
\* result is ignored.
SubdevParams ==
  /\ subdev = "probed" /\ subdev' = "params"
  /\ deriv' = DeriveStarted("init") /\ derived' = FALSE
  /\ UNCHANGED <<stream, rxTimings, bufs, streaming, engine, sent, cfgCalls, crossed>>

\* Last, unless writing the EDID failed, the stream's timings are given to the
\* receiver.
SubdevTimings ==
  /\ subdev = "params" /\ ~Deriving("init")
  /\ \/ subdev' = "failed" /\ UNCHANGED <<rxTimings, crossed>>
     \/ /\ subdev' = "done" /\ rxTimings' = stream.timings
        /\ crossed' = (crossed \/ sent # "none")
  /\ UNCHANGED <<stream, bufs, streaming, engine, sent, deriv, derived, cfgCalls>>

-----------------------------------------------------------------------------
\* saa716x_v4l2_init(): 720p60 on the HDMI input; no standard is set, and the
\* 625-line one results. The receiver's own default is 1080p30 (the TDA19978's; the
\* ADV7611's driver is not in the repository).
CfgInit ==
  /\ \E r \in {"TDA19978", "ADV7611"} :
       stream = Refilled([input |-> 0, std |-> "625", timings |-> "720p60",
                          receiver |-> r, format |-> Pix(0, 0, "none"),
                          vip |-> NotStreaming.vip])
  /\ rxTimings = "1080p30" /\ bufs = 0 /\ streaming = "off" /\ sent = "none"
  /\ engine = NotStreaming /\ deriv = [p \in Derivers |-> NotDeriving]
  /\ subdev = "none" /\ derived = FALSE /\ cfgCalls = 0 /\ crossed = FALSE

CfgNext == \/ SInput \/ SStd \/ SDvTimingsBegin \/ SDvTimingsStore \/ SDvTimingsEnd
           \/ SFmt \/ DeriveStore("ioctl") \/ DeriveStore("init")
           \/ ReqBufs \/ StreamOn \/ StreamGo \/ StreamOff
           \/ SubdevProbe \/ SubdevParams \/ SubdevTimings

CfgSpec == CfgInit /\ [][CfgNext]_cfgVars

\* With an application that waits until the driver is loaded.
LoadedSpec ==
  CfgInit /\ [][CfgNext /\ (subdev # "done" => UNCHANGED <<cfgCalls, bufs>>)]_cfgVars

-----------------------------------------------------------------------------
(* Properties *)

VipOK(vip) == /\ vip.samples \in Nat /\ vip.lines \in Nat
              /\ vip.type2 \in BOOLEAN /\ vip.flags \subseteq VipFlags

\* Every field keeps its type, and a derivation makes at most five stores.
CfgTypeOK ==
  /\ stream.input \in {0, 1} /\ stream.std \in {"525", "625"}
  /\ stream.timings \in CfgTimings /\ stream.receiver \in {"TDA19978", "ADV7611"}
  /\ stream.format.field \in Fields /\ stream.format.sizeimage \in Nat
  /\ VipOK(stream.vip) /\ VipOK(engine.vip)
  /\ rxTimings \in CfgTimings \cup {"1080p30"}
  /\ bufs \in Nat /\ {crossed, derived, engine.derived} \subseteq BOOLEAN
  /\ streaming \in {"off", "starting", "on"} /\ sent \in CfgTimings \cup {"none"}
  /\ subdev \in {"none", "probed", "params", "done", "failed"}
  /\ deriv \in [Derivers -> [at : 0 .. 5, timings : CfgTimings \cup {"none"},
                            alone : BOOLEAN]]
  /\ cfgCalls \in 0 .. MaxCfgCalls

\* Buffers always hold one image of the format in force, through
\* input, standard, timings and format ioctls in any order; and the engine keeps
\* within the buffers of the HDMI input, and in high definition fills them to the
\* last byte, when it was started with parameters of a derivation that succeeded,
\* that nothing has changed the settings of since, and that no other call crossed.
\* (The exceptions: a refused or missing S_FMT, and saa716x_subdev_init() deriving
\* beside S_FMT, beside a change of the settings or beside STREAMON: both then may
\* leave one's width and the other's height and flags, and S_FMT reports success.
\* The next S_FMT by itself ends that. Standard definition inherits the flags of
\* the timings before it and may write less.)
EngineMatchesFormat ==
  /\ Busy => bufs = stream.format.sizeimage
  /\ streaming = "on" /\ stream.input = 0 /\ engine.derived =>
       /\ EngineBytes(engine.vip) <= bufs
       /\ HighDef(stream.timings) => EngineBytes(engine.vip) = bufs

\* Between calls the receiver has the stream's timings, which is what the driver
\* answers to G_DV_TIMINGS. (S_DV_TIMINGS and saa716x_subdev_init() hold no common
\* lock; the states after they crossed are excepted, and a saa716x_subdev_init()
\* that failed.)
ReceiverFollows ==
  subdev = "done" /\ sent = "none" /\ ~crossed => rxTimings = stream.timings

\* The driver's comment says of the cropping window that it assures that VIP does
\* not exceed buffer boundaries. It is the window of the last derivation, by S_FMT or
\* when the driver was loaded; the buffers are those of the present format.
VipWithinBuffer == streaming = "on" => EngineBytes(engine.vip) <= bufs

=============================================================================
