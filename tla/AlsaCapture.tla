---------------------------- MODULE AlsaCapture ----------------------------
(***************************************************************************)
(* HDMI audio: the PCM device, the audio input port with its ring of DMA   *)
(* buffers, and the tasklet that copies finished periods to the PCM buffer.*)
(* Both rings have AIP_BUFFERS periods, so that a position in either is a  *)
(* period number.                                                          *)
(*                                                                         *)
(* The PCM core holds the stream lock around trigger and inside            *)
(* snd_pcm_period_elapsed(); the tasklet's other steps hold it not.        *)
(***************************************************************************)
EXTENDS Integers

CONSTANTS AIP_BUFFERS,  \* slots of the ring
          MaxPeriods    \* bound on the periods captured

ASSUME AipBuffersAssumption == AIP_BUFFERS \in Nat /\ AIP_BUFFERS >= 2
ASSUME MaxPeriodsAssumption == MaxPeriods \in Nat

VARIABLES
  pcm,      \* the PCM device: open, prepared, capture_running, hwptr_done_capture
  aip,      \* the port: read_index, capture enabled, the engine's write index
  ring,     \* what each slot holds: "old" from before the last start, or "new"
  trigger,  \* the step of a trigger in progress
  tasklet,  \* the tasklet: scheduled, its step, its local write_index
  copied,   \* what the last copied slot held
  skewed,   \* the tasklet met a stream that was not running, or a stop met it
  periods   \* periods captured so far

alsaVars == <<pcm, aip, ring, trigger, tasklet, copied, skewed, periods>>

Slots == 0 .. AIP_BUFFERS - 1
NextSlot(i) == (i + 1) % AIP_BUFFERS

TriggerSteps == {"none", "start", "stop", "stopIndex"}
AipSteps     == {"idle", "copy", "elapsed", "advance"}

-----------------------------------------------------------------------------
(* The application's calls *)

\* snd_saa716x_pcm_capture_open() and close(); the core stops a stream it closes.
PcmOpenClose ==
  /\ trigger = "none" /\ ~pcm.running
  /\ pcm' = [pcm EXCEPT !.open = ~@, !.prepared = FALSE]
  /\ UNCHANGED <<aip, ring, trigger, tasklet, copied, skewed, periods>>

\* A mutant of PcmPrepare: the pointer stays where the last capture left it.
PcmPrepareKeeps ==
  /\ trigger = "none" /\ pcm.open /\ ~pcm.running
  /\ pcm' = [pcm EXCEPT !.prepared = TRUE]
  /\ UNCHANGED <<aip, ring, trigger, tasklet, copied, skewed, periods>>

\* snd_saa716x_pcm_prepare() resets the pointer, not the ring.
PcmPrepare ==
  /\ trigger = "none" /\ pcm.open /\ ~pcm.running
  /\ pcm' = [pcm EXCEPT !.prepared = TRUE, !.hwptr = 0]
  /\ UNCHANGED <<aip, ring, trigger, tasklet, copied, skewed, periods>>

\* saa716x_aip_start() resets the channel, which puts the engine back to slot 0,
\* and may fail before it enables capture. It leaves read_index alone.
AipStart ==
  /\ trigger = "none" /\ pcm.prepared /\ ~pcm.running
  /\ \E ok \in BOOLEAN :
       /\ aip' = [aip EXCEPT !.write = 0, !.capture = ok]
       /\ trigger' = IF ok THEN "start" ELSE "none"
  /\ ring' = [i \in Slots |-> "old"]
  /\ copied' = "none"
  /\ UNCHANGED <<pcm, tasklet, skewed, periods>>

\* Only then is capture_running set: a period that ends before is not delivered.
TriggerRunning ==
  /\ trigger = "start" /\ trigger' = "none"
  /\ pcm' = [pcm EXCEPT !.running = TRUE]
  /\ UNCHANGED <<aip, ring, tasklet, copied, skewed, periods>>

\* TRIGGER_STOP: capture_running is cleared, capture and its interrupt disabled ...
TriggerStop ==
  /\ trigger = "none" /\ pcm.running /\ trigger' = "stop"
  /\ pcm' = [pcm EXCEPT !.running = FALSE, !.prepared = FALSE]
  /\ UNCHANGED <<aip, ring, tasklet, copied, skewed, periods>>

AipStopCapture ==
  /\ trigger = "stop" /\ trigger' = "stopIndex"
  /\ aip' = [aip EXCEPT !.capture = FALSE]
  /\ UNCHANGED <<pcm, ring, tasklet, copied, skewed, periods>>

\* ... and read_index reset, whatever the tasklet is doing with it.
AipStopIndex ==
  /\ trigger = "stopIndex" /\ trigger' = "none"
  /\ aip' = [aip EXCEPT !.read_index = 0]
  /\ skewed' = (tasklet.step # "idle")
  /\ UNCHANGED <<pcm, ring, tasklet, copied, periods>>

-----------------------------------------------------------------------------
(* Engine and tasklet *)

\* The engine ends a period; saa716x_cap_pci_irq() schedules the tasklet.
EnginePeriod ==
  /\ aip.capture /\ periods < MaxPeriods
  /\ periods' = periods + 1
  /\ ring' = [ring EXCEPT ![aip.write] = "new"]
  /\ aip' = [aip EXCEPT !.write = NextSlot(@)]
  /\ tasklet' = [tasklet EXCEPT !.scheduled = TRUE]
  /\ UNCHANGED <<pcm, trigger, copied, skewed>>

\* audio_aip_worker() reads the write index once, and has nothing to do if it is
\* read_index (also when the engine has lapped the ring).
AipWorker ==
  /\ tasklet.scheduled /\ tasklet.step = "idle"
  /\ IF aip.write = aip.read_index
     THEN /\ tasklet' = [tasklet EXCEPT !.scheduled = FALSE]
          /\ skewed' = skewed
     ELSE /\ tasklet' = [scheduled |-> FALSE, step |-> "copy", write |-> aip.write]
          /\ skewed' = (skewed \/ ~pcm.running)
  /\ UNCHANGED <<pcm, aip, ring, trigger, copied, periods>>

\* snd_saa716x_announce_pcm_data(), under slock: the period is copied to its place
\* and the pointer set behind it.
AnnounceData ==
  /\ tasklet.step = "copy"
  /\ IF pcm.running
     THEN /\ copied' = ring[aip.read_index]
          /\ pcm' = [pcm EXCEPT !.hwptr = NextSlot(aip.read_index)]
          /\ tasklet' = [tasklet EXCEPT !.step = "elapsed"]
     ELSE /\ tasklet' = [tasklet EXCEPT !.step = "advance"]
          /\ UNCHANGED <<pcm, copied>>
  /\ UNCHANGED <<aip, ring, trigger, skewed, periods>>

\* snd_pcm_period_elapsed() lets the application read; when the application has
\* fallen behind by the whole buffer, it stops the stream, from inside the tasklet.
PeriodElapsed ==
  /\ tasklet.step = "elapsed" /\ trigger = "none"
  /\ tasklet' = [tasklet EXCEPT !.step = "advance"]
  /\ \/ UNCHANGED <<pcm, aip, skewed>>
     \/ /\ pcm.running
        /\ pcm' = [pcm EXCEPT !.running = FALSE, !.prepared = FALSE]
        /\ aip' = [aip EXCEPT !.capture = FALSE, !.read_index = 0]
        /\ skewed' = TRUE
  /\ UNCHANGED <<ring, trigger, copied, periods>>

AipAdvance ==
  /\ tasklet.step = "advance"
  /\ aip' = [aip EXCEPT !.read_index = NextSlot(@)]
  /\ tasklet' = [tasklet EXCEPT
                   !.step = IF NextSlot(aip.read_index) = tasklet.write
                            THEN "idle" ELSE "copy"]
  /\ UNCHANGED <<pcm, ring, trigger, copied, skewed, periods>>

-----------------------------------------------------------------------------
AlsaInit ==
  /\ pcm = [open |-> FALSE, prepared |-> FALSE, running |-> FALSE, hwptr |-> 0]
  /\ aip = [read_index |-> 0, capture |-> FALSE, write |-> 0]
  /\ ring = [i \in Slots |-> "old"]
  /\ trigger = "none" /\ copied = "none" /\ skewed = FALSE /\ periods = 0
  /\ tasklet = [scheduled |-> FALSE, step |-> "idle", write |-> 0]

AlsaNext ==
  \/ PcmOpenClose \/ PcmPrepare \/ AipStart \/ TriggerRunning
  \/ TriggerStop \/ AipStopCapture \/ AipStopIndex
  \/ EnginePeriod \/ AipWorker \/ AnnounceData \/ PeriodElapsed \/ AipAdvance

AlsaSpec == AlsaInit /\ [][AlsaNext]_alsaVars

-----------------------------------------------------------------------------
(* Properties *)

AlsaTypeOK ==
  /\ pcm \in [open : BOOLEAN, prepared : BOOLEAN, running : BOOLEAN, hwptr : Slots]
  /\ aip \in [read_index : Slots, capture : BOOLEAN, write : Slots]
  /\ ring \in [Slots -> {"old", "new"}]
  /\ trigger \in TriggerSteps
  /\ tasklet \in [scheduled : BOOLEAN, step : AipSteps, write : Slots]
  /\ copied \in {"none", "old", "new"} /\ skewed \in BOOLEAN
  /\ periods \in 0 .. MaxPeriods

\* Prepare resets the pointer, stop the ring index, and start neither: together
\* they put the two back in step, so that a running stream's pointer is the ring
\* index and every period it passes is one captured since the start. (Excepted is
\* a stream whose tasklet ran while it was stopped or starting, or was stopped by
\* the tasklet itself on an overrun: that leaves read_index ahead of the engine.)
PointerFollowsRing ==
  pcm.running /\ ~skewed =>
    /\ tasklet.step = "idle" => pcm.hwptr = aip.read_index
    /\ copied # "old"

=============================================================================
