------------------------------ MODULE DvbFeeds ------------------------------
(***************************************************************************)
(* One DVB adapter of a budget, hybrid or full-featured card: the feeds of *)
(* the demux (process context, serialised by the demux's mutex), the FGPI  *)
(* DMA engine they switch on and off, the interrupt handler, and the       *)
(* tasklet demux_worker() that hands the engine's blocks to the demux.     *)
(*                                                                         *)
(* The tasklet is split around every shared read and write it makes, the   *)
(* two feed operations wherever the tasklet or the engine can see it.      *)
(***************************************************************************)
EXTENDS Integers

CONSTANTS FGPI_BUFFERS,  \* slots of the engine's ring (8 in saa716x_fgpi.h)
          FeedWrap,      \* values of saa716x_adapter.feeds, an u8
          MaxFeeds       \* feeds of the demux (feednum, 256)

ASSUME FgpiBuffersAssumption == FGPI_BUFFERS \in Nat /\ FGPI_BUFFERS >= 2
ASSUME FeedWrapAssumption == FeedWrap \in Nat /\ FeedWrap >= 2
ASSUME MaxFeedsAssumption == MaxFeeds \in 1 .. FeedWrap

VARIABLES
  filtering,     \* the feeds the demux has in state DMX_STATE_GO
  feeds,         \* saa716x_adapter.feeds
  feedop,        \* where the call of start_feed or stop_feed stands
  read_index,    \* saa716x_fgpi_stream_port.read_index
  tasklet,       \* where demux_worker stands
  scheduled,     \* the tasklet is scheduled and has not started
  write_index,   \* local of demux_worker
  next_index,    \* read_index + 1, computed but not yet stored
  bam_index,     \* the slot the engine writes (BAM_FGPIx_DMA_BUF_MODE)
  capturing,     \* FGPI_CONTROL has its capture bits set
  msi_status,    \* the TAGACK bit of MSI_INT_STATUS_L
  msi_enabled,   \* the TAGACK bit of MSI_INT_ENA_L
  block,         \* history: what is in the buffer of each slot
  failed,        \* history: the engine did not start for the present feeds
  overrun,       \* history: the engine began a slot still to be read
  stray          \* history: the tasklet ran across the reset of the ring

feedVars    == <<filtering, feeds>>
taskletVars == <<tasklet, write_index, next_index>>
msiVars     == <<msi_status, msi_enabled>>
vars == <<filtering, feeds, feedop, read_index, tasklet, scheduled,
          write_index, next_index, bam_index, capturing, msi_status,
          msi_enabled, block, failed, overrun, stray>>

Index         == 0 .. FGPI_BUFFERS - 1
FeedSteps     == {"none", "reset", "index", "enable", "unmask", "go",
                  "mask", "halt", "ungo"}
TaskletStates == {"idle", "test", "body", "advance", "store"}
Blocks        == {"old", "fresh", "over"}

\* A mutant of Inc: the index is not masked.
IncNoMask(i) == i + 1

\* & 7: the slot after i.
Inc(i) == IF i = FGPI_BUFFERS - 1 THEN 0 ELSE i + 1

Init ==
  /\ filtering = 0
  /\ feeds = 0
  /\ feedop = "none"
  /\ read_index = 0
  /\ tasklet = "idle"
  /\ scheduled = FALSE
  /\ write_index = 0
  /\ next_index = 0
  /\ bam_index = 0
  /\ capturing = FALSE
  /\ msi_status = FALSE
  /\ msi_enabled = FALSE
  /\ block = [i \in Index |-> "old"]
  /\ failed = FALSE
  /\ overrun = FALSE
  /\ stray = FALSE

-----------------------------------------------------------------------------
(* Process context: the feeds.                                             *)

\* saa716x_dvb_start_feed(): the first feed starts the engine.
StartFeed ==
  /\ feedop = "none" /\ filtering < MaxFeeds
  /\ feeds' = (feeds + 1) % FeedWrap
  /\ feedop' = IF feeds' = 1 THEN "reset" ELSE "go"
  /\ UNCHANGED <<filtering, read_index, taskletVars, scheduled, bam_index,
                 capturing, msiVars, block, failed, overrun, stray>>

\* saa716x_fgpi_setparams() resets the engine's channel, which may fail; the
\* result of saa716x_fgpi_start() is not looked at.
ResetChannel ==
  /\ feedop = "reset"
  /\ bam_index' = 0
  /\ block' = [i \in Index |-> "old"]
  /\ \/ feedop' = "index" /\ failed' = FALSE
     \/ feedop' = "go" /\ failed' = TRUE
  /\ UNCHANGED <<feedVars, read_index, taskletVars, scheduled, capturing,
                 msiVars, overrun, stray>>

\* A mutant of ResetIndex: the worker goes on where the last session ended.
ResetIndexForgotten ==
  /\ feedop = "index"
  /\ feedop' = "enable"
  /\ UNCHANGED <<feedVars, read_index, taskletVars, scheduled, bam_index,
                 capturing, msiVars, block, failed, overrun, stray>>

\* Nothing waits for the tasklet: "stray" records that it was running.
ResetIndex ==
  /\ feedop = "index"
  /\ read_index' = 0
  /\ stray' = (stray \/ tasklet # "idle")
  /\ feedop' = "enable"
  /\ UNCHANGED <<feedVars, taskletVars, scheduled, bam_index, capturing,
                 msiVars, block, failed, overrun>>

\* The page tables are fetched in time and capture is switched on, or not.
Enable ==
  /\ feedop = "enable"
  /\ \/ feedop' = "unmask" /\ capturing' = TRUE /\ failed' = failed
     \/ feedop' = "go" /\ failed' = TRUE /\ capturing' = capturing
  /\ UNCHANGED <<feedVars, read_index, taskletVars, scheduled, bam_index,
                 msiVars, block, overrun, stray>>

Unmask ==
  /\ feedop = "unmask"
  /\ msi_enabled' = TRUE
  /\ feedop' = "go"
  /\ UNCHANGED <<feedVars, read_index, taskletVars, scheduled, bam_index,
                 capturing, msi_status, block, failed, overrun, stray>>

\* The demux lets data through to the feed.
Go ==
  /\ feedop = "go"
  /\ filtering' = filtering + 1
  /\ feedop' = "none"
  /\ UNCHANGED <<feeds, read_index, taskletVars, scheduled, bam_index,
                 capturing, msiVars, block, failed, overrun, stray>>

\* A mutant of StopFeed: the last but one feed stops the engine.
StopFeedEarly ==
  /\ feedop = "none" /\ filtering > 0
  /\ feeds' = (feeds + FeedWrap - 1) % FeedWrap
  /\ feedop' = IF feeds' <= 1 THEN "mask" ELSE "ungo"
  /\ UNCHANGED <<filtering, read_index, taskletVars, scheduled, bam_index,
                 capturing, msiVars, block, failed, overrun, stray>>

\* saa716x_dvb_stop_feed(): the last feed stops the engine.
StopFeed ==
  /\ feedop = "none" /\ filtering > 0
  /\ feeds' = (feeds + FeedWrap - 1) % FeedWrap
  /\ feedop' = IF feeds' = 0 THEN "mask" ELSE "ungo"
  /\ UNCHANGED <<filtering, read_index, taskletVars, scheduled, bam_index,
                 capturing, msiVars, block, failed, overrun, stray>>

Mask ==
  /\ feedop = "mask"
  /\ msi_enabled' = FALSE
  /\ feedop' = "halt"
  /\ UNCHANGED <<feedVars, read_index, taskletVars, scheduled, bam_index,
                 capturing, msi_status, block, failed, overrun, stray>>

Halt ==
  /\ feedop = "halt"
  /\ capturing' = FALSE
  /\ feedop' = "ungo"
  /\ UNCHANGED <<feedVars, read_index, taskletVars, scheduled, bam_index,
                 msiVars, block, failed, overrun, stray>>

\* The demux takes the feed out.
Ungo ==
  /\ feedop = "ungo"
  /\ filtering' = filtering - 1
  /\ feedop' = "none"
  /\ UNCHANGED <<feeds, read_index, taskletVars, scheduled, bam_index,
                 capturing, msiVars, block, failed, overrun, stray>>

-----------------------------------------------------------------------------
(* The interrupt handler and the tasklet.                                  *)

\* A mutant of IrqHandler: the tasklet is not scheduled while it runs.
IrqHandlerDrops ==
  /\ msi_status
  /\ msi_status' = FALSE
  /\ scheduled' = (scheduled \/ tasklet = "idle")
  /\ UNCHANGED <<feedVars, feedop, read_index, taskletVars, bam_index,
                 capturing, msi_enabled, block, failed, overrun, stray>>

\* The handler clears every latched source and schedules the tasklet of each,
\* masked or not. Another port's source may be what brings it here.
IrqHandler ==
  /\ msi_status
  /\ msi_status' = FALSE
  /\ scheduled' = TRUE
  /\ UNCHANGED <<feedVars, feedop, read_index, taskletVars, bam_index,
                 capturing, msi_enabled, block, failed, overrun, stray>>

\* demux_worker() reads the engine's index once, for the whole run.
TaskletStart ==
  /\ tasklet = "idle" /\ scheduled
  /\ scheduled' = FALSE
  /\ write_index' = bam_index
  /\ tasklet' = "test"
  /\ UNCHANGED <<feedVars, feedop, read_index, next_index, bam_index,
                 capturing, msiVars, block, failed, overrun, stray>>

\* "called but nothing to do", or the loop condition.
WorkerTest ==
  /\ tasklet = "test"
  /\ tasklet' = IF write_index = read_index THEN "idle" ELSE "body"
  /\ UNCHANGED <<feedVars, feedop, read_index, scheduled, write_index,
                 next_index, bam_index, capturing, msiVars, block, failed,
                 overrun, stray>>

\* The block at read_index goes to the demux.
WorkerFilter ==
  /\ tasklet = "body"
  /\ block' = [block EXCEPT ![read_index] = "old"]
  /\ tasklet' = "advance"
  /\ UNCHANGED <<feedVars, feedop, read_index, scheduled, write_index,
                 next_index, bam_index, capturing, msiVars, failed, overrun,
                 stray>>

\* read_index = (read_index + 1) & 7 is a read ...
WorkerLoad ==
  /\ tasklet = "advance"
  /\ next_index' = Inc(read_index)
  /\ tasklet' = "store"
  /\ UNCHANGED <<feedVars, feedop, read_index, scheduled, write_index,
                 bam_index, capturing, msiVars, block, failed, overrun, stray>>

\* ... and a write.
WorkerStore ==
  /\ tasklet = "store"
  /\ read_index' = next_index
  /\ tasklet' = "test"
  /\ UNCHANGED <<feedVars, feedop, scheduled, write_index, next_index,
                 bam_index, capturing, msiVars, block, failed, overrun, stray>>

-----------------------------------------------------------------------------
(* The engine (external: it is what the code's register writes drive).     *)

\* A block is complete: the engine moves to the next slot, whoever is to read
\* it yet, and latches its interrupt.
EngineBlock ==
  /\ capturing
  /\ block' = [block EXCEPT ![bam_index] =
                 IF @ = "old" THEN "fresh" ELSE "over"]
  /\ bam_index' = Inc(bam_index)
  /\ overrun' = (overrun \/ Inc(bam_index) = read_index)
  /\ msi_status' = TRUE
  /\ UNCHANGED <<feedVars, feedop, read_index, taskletVars, scheduled,
                 capturing, msi_enabled, failed, stray>>

-----------------------------------------------------------------------------
FeedStep == \/ ResetChannel \/ ResetIndex \/ Enable \/ Unmask \/ Go
            \/ Mask \/ Halt \/ Ungo

Worker == WorkerTest \/ WorkerFilter \/ WorkerLoad \/ WorkerStore

Next ==
  \/ StartFeed \/ StopFeed \/ FeedStep
  \/ IrqHandler \/ TaskletStart \/ Worker
  \/ EngineBlock

Spec == Init /\ [][Next]_vars

\* Enabled interrupts are delivered, softirqs run, and a feed operation that has
\* begun goes on (its waits are bounded). Nothing is asked of the application
\* or of the stream.
FairSpec ==
  /\ Spec
  /\ WF_vars(msi_enabled /\ IrqHandler)
  /\ WF_vars(TaskletStart \/ Worker)
  /\ WF_vars(FeedStep)

-----------------------------------------------------------------------------
(* Properties.                                                             *)

\* The two-valued variables.
FlagsOK ==
  /\ scheduled \in BOOLEAN
  /\ capturing \in BOOLEAN
  /\ msi_status \in BOOLEAN
  /\ msi_enabled \in BOOLEAN
  /\ failed \in BOOLEAN
  /\ overrun \in BOOLEAN
  /\ stray \in BOOLEAN

\* The others.
DataOK ==
  /\ filtering \in 0 .. MaxFeeds
  /\ feeds \in 0 .. FeedWrap - 1
  /\ feedop \in FeedSteps
  /\ read_index \in Index
  /\ tasklet \in TaskletStates
  /\ write_index \in Index
  /\ next_index \in Index
  /\ bam_index \in Index
  /\ block \in [Index -> Blocks]

\* Every variable keeps its type: the indices stay inside the ring, the demux
\* has no negative number of feeds and no more than it has room for.
TypeOK == DataOK /\ FlagsOK

\* Between two feed operations the engine runs, with its interrupt let through,
\* exactly while there are feeds, unless it failed to start for the first of
\* them: also when there are so many feeds that the counter has wrapped.
EngineFollowsFeeds ==
  feedop = "none" =>
    /\ capturing <=> msi_enabled
    /\ capturing <=> filtering > 0 /\ ~failed

\* A block the worker is about to hand to a demux that lets data through is one
\* of this session that has not been handed over before, complete and not
\* written over. (Order follows: the slots are read in turn.)
FreshBlock ==
  tasklet = "body" /\ filtering > 0 /\ ~failed /\ ~overrun /\ ~stray =>
    block[read_index] = "fresh"

\* While the engine runs, the worker gets to the end of what it has captured:
\* no slot waits for good because an interrupt came at the wrong moment.
BlockDelivered ==
  \A i \in Index :
    (capturing /\ read_index = i /\ bam_index # i)
      ~> (~capturing \/ read_index # i \/ overrun \/ stray)

=============================================================================
