----------------------------- MODULE VipCapture -----------------------------
(***************************************************************************)
(* The video capture pipeline of the SAA716x driver: the videobuf2 queue   *)
(* and its ioctls (process context, serialised by video_lock), the video   *)
(* DMA engine with its ring of VIP_BUFFERS page tables, the MSI interrupt  *)
(* handler, and the tasklet that returns filled buffers to videobuf2.      *)
(*                                                                         *)
(* An ioctl is split where another context can see its intermediate state; *)
(* the tasklet is split around every shared read and write it makes.       *)
(***************************************************************************)
EXTENDS Integers, Sequences, FiniteSets

CONSTANTS VIP_BUFFERS,  \* slots of the engine's ring (8 in saa716x_vip.h)
          Buffers,      \* the videobuf2 buffers the application has requested
          NoBuf,        \* a page table nobody has filled yet
          PairedFields, \* TRUE: buffer_queue() and the worker count two fields to a buffer
          SharedTables, \* TRUE: the engine's registers give two slots one page table
          OtherIrq,     \* TRUE: another enabled MSI source (audio) can interrupt
          SeqWrap       \* bound of the frame sequence counter

ASSUME VipBuffersAssumption == VIP_BUFFERS \in Nat /\ VIP_BUFFERS >= 2
ASSUME BuffersAssumption == IsFiniteSet(Buffers) /\ NoBuf \notin Buffers
ASSUME PairedFieldsAssumption ==
          PairedFields \in BOOLEAN /\ (PairedFields => VIP_BUFFERS % 2 = 0)
\* vip.c asks for VIP_FIELD_SEQ, or for VIP_INTERLACED and both field flags;
\* buffer_queue() and the worker for VIP_FIELD_SEQ or any field flag.
ASSUME SharedTablesAssumption ==
          SharedTables \in BOOLEAN /\ (SharedTables => PairedFields)
ASSUME OtherIrqAssumption == OtherIrq \in BOOLEAN
ASSUME SeqWrapAssumption == SeqWrap \in Nat \ {0}

VARIABLES
  vb_state,      \* videobuf2's state of each buffer
  queued_list,   \* buffers queued before the engine was started
  streaming,     \* vb2_queue.streaming
  start_called,  \* vb2_queue.start_streaming_called
  ioctl,         \* where the ioctl that holds video_lock stands
  vb,            \* the buffer the ioctl is handing to the driver
  buf_list,      \* saa716x_stream.buf_list
  mmu_q_index,   \* saa716x_stream.mmu_q_index: the next page table to fill
  sequence,      \* saa716x_stream.sequence
  dma_buf,       \* the buffer each page table of the ring points to
  read_index,    \* saa716x_vip_stream_port.read_index
  tasklet,       \* where video_vip_worker stands
  scheduled,     \* the tasklet is scheduled and has not started
  write_index,   \* local of video_vip_worker
  cb,            \* local of video_vip_worker
  next_index,    \* read_index + 1, computed but not yet stored
  bam_index,     \* the slot the engine writes (BAM_DMA_BUF_MODE)
  capturing,     \* VI_MODE has VID_CFEN set
  msi_status,    \* the TAGACK bit of MSI_INT_STATUS_L
  msi_enabled,   \* the TAGACK bit of MSI_INT_ENA_L
  content,       \* history: what the engine left in each buffer since it was queued
  overrun,       \* history: the engine entered a slot nobody had queued for it
  bumped,        \* history: cb had lost its page table to a later buffer
  skewed,        \* history: a failed start left mmu_q_index away from read_index
  stray          \* history: the tasklet ran across the reset of the ring

vb2Vars     == <<vb_state, queued_list, streaming, start_called>>
listVars    == <<buf_list, mmu_q_index, dma_buf, skewed>>
taskletVars == <<tasklet, write_index, cb, next_index, bumped>>
engineVars  == <<bam_index, capturing, content, overrun>>
msiVars     == <<msi_status, msi_enabled>>
vars == <<vb_state, queued_list, streaming, start_called, ioctl, vb,
          buf_list, mmu_q_index, sequence, dma_buf, read_index, tasklet,
          scheduled, write_index, cb, next_index, bam_index, capturing,
          msi_status, msi_enabled, content, overrun, bumped, skewed, stray>>

-----------------------------------------------------------------------------
(* The ring. *)

Index == 0 .. VIP_BUFFERS - 1

\* & 7: the slot after i.
Inc(i) == IF i = VIP_BUFFERS - 1 THEN 0 ELSE i + 1

\* The page table the engine uses for slot i (the MMU_PTA registers), of the
\* VIP_BUFFERS tables dma_buf has.
PageTable(i) == IF SharedTables THEN i \div 2 ELSE i

\* The page tables buffer_queue() fills, and the one it means for slot i.
NumTables     == IF PairedFields THEN VIP_BUFFERS \div 2 ELSE VIP_BUFFERS
Tables        == 0 .. NumTables - 1
QueueTable(i) == IF PairedFields THEN i \div 2 ELSE i

\* A mutant of NextTable: the index is not masked.
NextTableNoMask(t) == t + 1

\* & 7, or & 3 with two fields to a buffer.
NextTable(t) == IF t = NumTables - 1 THEN 0 ELSE t + 1

Listed(b) == \E k \in 1 .. Len(buf_list) : buf_list[k] = b

\* A mutant of Returned: the walk over buf_list starts at its second entry.
ReturnedButFirst(state) ==
  [b \in Buffers |-> IF /\ \E k \in 2 .. Len(buf_list) : buf_list[k] = b
                        /\ vb_state[b] = "active"
                     THEN state ELSE vb_state[b]]

\* return_all_buffers(): vb2_buffer_done(state) on each entry of buf_list, which
\* videobuf2 heeds for ACTIVE buffers only.
Returned(state) ==
  [b \in Buffers |-> IF Listed(b) /\ vb_state[b] = "active"
                     THEN state ELSE vb_state[b]]

\* The ring slot the head of buf_list stands for: the one after read_index once
\* the worker has taken the buffer read_index stands for.
HeadSlot == IF tasklet \in {"took", "advance", "store"} THEN Inc(read_index)
            ELSE read_index

\* Its page table, for buffer_queue().
HeadTable == QueueTable(HeadSlot)

\* How many of the listed buffers buffer_queue() has pointed a page table at: it
\* lists a buffer first.
Mapped == IF ioctl = "fill" THEN Len(buf_list) - 1 ELSE Len(buf_list)

\* A mutant of SkipField: the worker waits on the wrong field.
SkipSecondField == PairedFields /\ read_index % 2 = 1

\* With two fields to a buffer, an even slot is the first half of a frame.
SkipField == PairedFields /\ read_index % 2 = 0

VbStates      == {"user", "queued", "active", "done", "error"}
IoctlStates   == {"none", "hand", "fill", "start", "enable", "unmask",
                  "stopMask", "stopCapture", "stopIndex", "stopReturn", "cancel"}
TaskletStates == {"idle", "test", "body", "took", "advance", "store"}
Contents      == {"empty", "fresh", "over"}

Init ==
  /\ vb_state = [b \in Buffers |-> "user"]
  /\ queued_list = <<>>
  /\ streaming = FALSE
  /\ start_called = FALSE
  /\ ioctl = "none"
  /\ vb = NoBuf
  /\ buf_list = <<>>
  /\ mmu_q_index = 0
  /\ sequence = 0
  /\ dma_buf = [t \in Index |-> NoBuf]
  /\ read_index = 0
  /\ tasklet = "idle"
  /\ scheduled = FALSE
  /\ write_index = 0
  /\ cb = NoBuf
  /\ next_index = 0
  /\ bam_index = 0
  /\ capturing = FALSE
  /\ msi_status = FALSE
  /\ msi_enabled = FALSE
  /\ content = [b \in Buffers |-> "empty"]
  /\ overrun = FALSE
  /\ bumped = FALSE
  /\ skewed = FALSE
  /\ stray = FALSE

-----------------------------------------------------------------------------
(* Process context: the ioctls, one at a time under video_lock.            *)

\* VIDIOC_QBUF while the engine is off: videobuf2 keeps the buffer, and
\* starts the engine once min_buffers_needed buffers are there.
QBufIdle(b) ==
  /\ ioctl = "none" /\ ~start_called
  /\ vb_state[b] = "user"
  /\ vb_state' = [vb_state EXCEPT ![b] = "queued"]
  /\ queued_list' = Append(queued_list, b)
  /\ content' = [content EXCEPT ![b] = "empty"]
  /\ ioctl' = IF streaming /\ Len(queued_list) + 1 >= VIP_BUFFERS
              THEN "hand" ELSE "none"
  /\ UNCHANGED <<streaming, start_called, vb, listVars, sequence, read_index,
                 taskletVars, scheduled, bam_index, capturing, msiVars,
                 overrun, stray>>

\* VIDIOC_QBUF while the engine runs: buffer_queue() puts it on buf_list.
QBufRunning(b) ==
  /\ ioctl = "none" /\ start_called
  /\ vb_state[b] = "user"
  /\ vb_state' = [vb_state EXCEPT ![b] = "active"]
  /\ content' = [content EXCEPT ![b] = "empty"]
  /\ buf_list' = Append(buf_list, b)
  /\ vb' = b
  /\ ioctl' = "fill"
  /\ UNCHANGED <<queued_list, streaming, start_called, mmu_q_index, dma_buf,
                 sequence, read_index, taskletVars, scheduled, bam_index,
                 capturing, msiVars, overrun, skewed, stray>>

\* VIDIOC_STREAMON.
StreamOn ==
  /\ ioctl = "none" /\ ~streaming
  /\ IF Len(queued_list) >= VIP_BUFFERS
     THEN ioctl' = "hand" /\ streaming' = streaming
     ELSE ioctl' = "none" /\ streaming' = TRUE
  /\ UNCHANGED <<vb_state, queued_list, start_called, vb, listVars, sequence,
                 read_index, taskletVars, scheduled, engineVars, msiVars, stray>>

\* vb2_start_streaming() hands every queued buffer to buffer_queue() ...
Hand ==
  /\ ioctl = "hand"
  /\ vb_state' = [vb_state EXCEPT ![Head(queued_list)] = "active"]
  /\ queued_list' = Tail(queued_list)
  /\ buf_list' = Append(buf_list, Head(queued_list))
  /\ vb' = Head(queued_list)
  /\ ioctl' = "fill"
  /\ UNCHANGED <<streaming, start_called, mmu_q_index, dma_buf, sequence,
                 read_index, taskletVars, scheduled, engineVars, msiVars, skewed,
                 stray>>

\* A mutant of FillTable: the page table index is not advanced past the last one.
FillTableStuck ==
  /\ ioctl = "fill"
  /\ dma_buf' = [dma_buf EXCEPT ![mmu_q_index] = vb]
  /\ mmu_q_index' = IF mmu_q_index = NumTables - 1 THEN mmu_q_index
                    ELSE mmu_q_index + 1
  /\ vb' = NoBuf
  /\ ioctl' = IF start_called THEN "none"
              ELSE IF queued_list = <<>> THEN "start" ELSE "hand"
  /\ UNCHANGED <<vb2Vars, buf_list, sequence, read_index, taskletVars,
                 scheduled, engineVars, msiVars, skewed, stray>>

\* ... which then, outside qlock, points the next page table at it.
FillTable ==
  /\ ioctl = "fill"
  /\ dma_buf' = [dma_buf EXCEPT ![mmu_q_index] = vb]
  /\ mmu_q_index' = NextTable(mmu_q_index)
  /\ vb' = NoBuf
  /\ ioctl' = IF start_called THEN "none"
              ELSE IF queued_list = <<>> THEN "start" ELSE "hand"
  /\ UNCHANGED <<vb2Vars, buf_list, sequence, read_index, taskletVars,
                 scheduled, engineVars, msiVars, skewed, stray>>

\* A mutant of StartReset: the frame counter goes on from the last session.
StartResetKeepsSequence ==
  /\ ioctl = "start"
  /\ start_called' = TRUE
  /\ bam_index' = 0
  /\ overrun' = FALSE
  /\ ioctl' = "enable"
  /\ UNCHANGED <<vb_state, queued_list, streaming, vb, listVars, sequence,
                 read_index, taskletVars, scheduled, capturing, content,
                 msiVars, stray>>

\* start_streaming() and the BAM reset in saa716x_vip_setparams().
StartReset ==
  /\ ioctl = "start"
  /\ start_called' = TRUE
  /\ sequence' = 0
  /\ bam_index' = 0
  /\ overrun' = FALSE
  /\ ioctl' = "enable"
  /\ UNCHANGED <<vb_state, queued_list, streaming, vb, listVars, read_index,
                 taskletVars, scheduled, capturing, content, msiVars, stray>>

\* saa716x_vip_start() fails (module id, BAM reset or page table prefetch
\* time-out) and every buffer goes back to the QUEUED state. mmu_q_index stays
\* where the hand-over left it: "skewed" records that it is not at the slot the
\* next start begins with.
StartFail ==
  /\ ioctl = "enable"
  /\ start_called' = FALSE
  /\ vb_state' = Returned("queued")
  /\ queued_list' = buf_list \o queued_list
  /\ buf_list' = <<>>
  /\ skewed' = (mmu_q_index # 0)
  /\ ioctl' = "none"
  /\ UNCHANGED <<streaming, vb, mmu_q_index, dma_buf, sequence, read_index,
                 taskletVars, scheduled, engineVars, msiVars, stray>>

\* saa716x_vip_start() sets VID_CFEN_BOTH in VI_MODE ...
StartCapture ==
  /\ ioctl = "enable"
  /\ capturing' = TRUE
  /\ ioctl' = "unmask"
  /\ UNCHANGED <<vb2Vars, vb, listVars, sequence, read_index, taskletVars,
                 scheduled, bam_index, content, overrun, msiVars, stray>>

\* ... and lets its interrupt through.
StartUnmask ==
  /\ ioctl = "unmask"
  /\ msi_enabled' = TRUE
  /\ streaming' = TRUE
  /\ ioctl' = "none"
  /\ UNCHANGED <<vb_state, queued_list, start_called, vb, listVars, sequence,
                 read_index, taskletVars, scheduled, engineVars, msi_status,
                 stray>>

\* VIDIOC_STREAMOFF or close(): stop_streaming() runs if the engine was started.
StreamOff ==
  /\ ioctl = "none"
  /\ ioctl' = IF start_called THEN "stopMask" ELSE "cancel"
  /\ UNCHANGED <<vb2Vars, vb, listVars, sequence, read_index, taskletVars,
                 scheduled, engineVars, msiVars, stray>>

\* saa716x_vip_stop(): the interrupt is masked (its status bit is left) ...
StopMask ==
  /\ ioctl = "stopMask"
  /\ msi_enabled' = FALSE
  /\ ioctl' = "stopCapture"
  /\ UNCHANGED <<vb2Vars, vb, listVars, sequence, read_index, taskletVars,
                 scheduled, engineVars, msi_status, stray>>

\* ... capture is switched off ...
StopCapture ==
  /\ ioctl = "stopCapture"
  /\ capturing' = FALSE
  /\ ioctl' = "stopIndex"
  /\ UNCHANGED <<vb2Vars, vb, listVars, sequence, read_index, taskletVars,
                 scheduled, bam_index, content, overrun, msiVars, stray>>

\* A mutant of StopIndex: mmu_q_index survives the stop.
StopIndexKeepsQueue ==
  /\ ioctl = "stopIndex"
  /\ read_index' = 0
  /\ ioctl' = "stopReturn"
  /\ stray' = (stray \/ tasklet # "idle")
  /\ UNCHANGED <<vb2Vars, vb, listVars, sequence, taskletVars, scheduled,
                 engineVars, msiVars>>

\* ... and both ring indices are reset. Nothing waits for the tasklet: "stray"
\* records that it was running.
StopIndex ==
  /\ ioctl = "stopIndex"
  /\ read_index' = 0
  /\ mmu_q_index' = 0
  /\ skewed' = FALSE
  /\ ioctl' = "stopReturn"
  /\ stray' = (stray \/ tasklet # "idle")
  /\ UNCHANGED <<vb2Vars, vb, buf_list, dma_buf, sequence, taskletVars,
                 scheduled, engineVars, msiVars>>

\* return_all_buffers(s, VB2_BUF_STATE_ERROR).
StopReturn ==
  /\ ioctl = "stopReturn"
  /\ vb_state' = Returned("error")
  /\ buf_list' = <<>>
  /\ ioctl' = "cancel"
  /\ UNCHANGED <<queued_list, streaming, start_called, vb, mmu_q_index, dma_buf,
                 sequence, read_index, taskletVars, scheduled, engineVars,
                 msiVars, skewed, stray>>

\* videobuf2 takes every buffer back, whatever its state.
Cancel ==
  /\ ioctl = "cancel"
  /\ vb_state' = [b \in Buffers |-> "user"]
  /\ queued_list' = <<>>
  /\ streaming' = FALSE
  /\ start_called' = FALSE
  /\ ioctl' = "none"
  /\ UNCHANGED <<vb, listVars, sequence, read_index, taskletVars, scheduled,
                 engineVars, msiVars, stray>>

\* VIDIOC_DQBUF.
DQBuf(b) ==
  /\ ioctl = "none"
  /\ vb_state[b] = "done"
  /\ vb_state' = [vb_state EXCEPT ![b] = "user"]
  /\ UNCHANGED <<queued_list, streaming, start_called, ioctl, vb, listVars,
                 sequence, read_index, taskletVars, scheduled, engineVars,
                 msiVars, stray>>

-----------------------------------------------------------------------------
(* The interrupt handler.                                                  *)

\* A mutant of IrqHandler: the tasklet is not scheduled while it runs.
IrqHandlerDrops ==
  /\ msi_status /\ (msi_enabled \/ OtherIrq)
  /\ msi_status' = FALSE
  /\ scheduled' = (scheduled \/ tasklet = "idle")
  /\ UNCHANGED <<vb2Vars, ioctl, vb, listVars, sequence, read_index,
                 taskletVars, engineVars, msi_enabled, stray>>

\* saa716x_cap_pci_irq(): entered when some enabled source is pending; clears
\* every latched source and schedules the tasklet of each, masked or not.
IrqHandler ==
  /\ msi_status /\ (msi_enabled \/ OtherIrq)
  /\ msi_status' = FALSE
  /\ scheduled' = TRUE
  /\ UNCHANGED <<vb2Vars, ioctl, vb, listVars, sequence, read_index,
                 taskletVars, engineVars, msi_enabled, stray>>

-----------------------------------------------------------------------------
(* The tasklet video_vip_worker().                                         *)

\* The engine is off, or its ring indices have been reset.
RingReset == ~start_called \/ ioctl \in {"stopReturn", "cancel"}

\* A mutant of WorkerTest: the loop runs once more than there are frames.
WorkerTestLate ==
  /\ tasklet = "test"
  /\ tasklet' = IF Inc(write_index) = read_index THEN "idle" ELSE "body"
  /\ UNCHANGED <<vb2Vars, ioctl, vb, listVars, sequence, read_index, scheduled,
                 write_index, cb, bumped, next_index, engineVars, msiVars, stray>>

\* It reads the engine's index once, for the whole run.
TaskletStart ==
  /\ scheduled /\ tasklet = "idle"
  /\ scheduled' = FALSE
  /\ write_index' = bam_index
  /\ tasklet' = "test"
  /\ stray' = (stray \/ (RingReset /\ bam_index # read_index))
  /\ UNCHANGED <<vb2Vars, ioctl, vb, listVars, sequence, read_index, cb,
                 next_index, bumped, engineVars, msiVars>>

\* "nothing to do", or the loop condition.
WorkerTest ==
  /\ tasklet = "test"
  /\ tasklet' = IF write_index = read_index THEN "idle" ELSE "body"
  /\ UNCHANGED <<vb2Vars, ioctl, vb, listVars, sequence, read_index, scheduled,
                 write_index, cb, bumped, next_index, engineVars, msiVars, stray>>

\* The first of two fields is in: wait for the second.
WorkerSkip ==
  /\ tasklet = "body" /\ SkipField
  /\ tasklet' = "advance"
  /\ UNCHANGED <<vb2Vars, ioctl, vb, listVars, sequence, read_index, scheduled,
                 write_index, cb, bumped, next_index, engineVars, msiVars, stray>>

\* "vb2_queue is empty": the worker gives up and leaves read_index behind.
WorkerEmpty ==
  /\ tasklet = "body" /\ ~SkipField
  /\ buf_list = <<>>
  /\ tasklet' = "idle"
  /\ UNCHANGED <<vb2Vars, ioctl, vb, listVars, sequence, read_index, scheduled,
                 write_index, cb, bumped, next_index, engineVars, msiVars, stray>>

\* A mutant of WorkerTake: list_del() is forgotten.
WorkerTakeKeeps ==
  /\ tasklet = "body" /\ ~SkipField
  /\ buf_list # <<>>
  /\ cb' = Head(buf_list)
  /\ tasklet' = "took"
  /\ UNCHANGED <<vb2Vars, ioctl, vb, listVars, sequence, read_index,
                 scheduled, write_index, next_index, bumped, engineVars, msiVars,
                 stray>>

\* A mutant of WorkerTake: the newest buffer is taken instead of the oldest.
WorkerTakeNewest ==
  /\ tasklet = "body" /\ ~SkipField
  /\ buf_list # <<>>
  /\ cb' = buf_list[Len(buf_list)]
  /\ buf_list' = SubSeq(buf_list, 1, Len(buf_list) - 1)
  /\ tasklet' = "took"
  /\ UNCHANGED <<vb2Vars, ioctl, vb, mmu_q_index, dma_buf, sequence, read_index,
                 scheduled, write_index, next_index, bumped, engineVars, msiVars,
                 skewed, stray>>

\* Under qlock: the oldest buffer leaves buf_list, whatever table points to it.
WorkerTake ==
  /\ tasklet = "body" /\ ~SkipField
  /\ buf_list # <<>>
  /\ cb' = Head(buf_list)
  /\ buf_list' = Tail(buf_list)
  /\ bumped' = (Mapped > NumTables)
  /\ tasklet' = "took"
  /\ UNCHANGED <<vb2Vars, ioctl, vb, mmu_q_index, dma_buf, sequence, read_index,
                 scheduled, write_index, next_index, engineVars, msiVars, skewed,
                 stray>>

\* vb2_buffer_done(DONE): videobuf2 ignores, with a warning, a buffer that is
\* not ACTIVE.
WorkerDone ==
  /\ tasklet = "took"
  /\ sequence' = (sequence + 1) % SeqWrap
  /\ vb_state' = [vb_state EXCEPT ![cb] = IF @ = "active" THEN "done" ELSE @]
  /\ cb' = NoBuf
  /\ bumped' = FALSE
  /\ tasklet' = "advance"
  /\ UNCHANGED <<queued_list, streaming, start_called, ioctl, vb, listVars,
                 read_index, scheduled, write_index, next_index, engineVars,
                 msiVars, stray>>

\* read_index = (read_index + 1) & 7 is a read ...
WorkerLoad ==
  /\ tasklet = "advance"
  /\ next_index' = Inc(read_index)
  /\ tasklet' = "store"
  /\ UNCHANGED <<vb2Vars, ioctl, vb, listVars, sequence, read_index, scheduled,
                 write_index, cb, bumped, engineVars, msiVars, stray>>

\* ... and a write.
WorkerStore ==
  /\ tasklet = "store"
  /\ read_index' = next_index
  /\ next_index' = 0
  /\ tasklet' = "test"
  /\ UNCHANGED <<vb2Vars, ioctl, vb, listVars, sequence, scheduled, write_index,
                 cb, bumped, engineVars, msiVars, stray>>

-----------------------------------------------------------------------------
(* The engine (external: it is what the code's register writes drive).     *)

\* The slot the engine has just moved to points to a buffer that waits for it.
SlotReady(i, written) ==
  LET b == dma_buf[PageTable(i)]
  IN  \/ SharedTables /\ i % 2 = 1
      \/ b \in Buffers /\ Listed(b) /\ written[b] = "empty"

Written(b) == IF content[b] = "empty" THEN "fresh" ELSE "over"

\* A frame (or a field) ends: the engine moves to the next slot, whoever owns
\* the buffer there, and latches its interrupt. It is overrun when it comes
\* round to the slot the worker has still to read, or to one that is not ready.
EngineFrame ==
  /\ capturing
  /\ content' = LET b == dma_buf[PageTable(bam_index)]
                IN  IF b \in Buffers /\ (SharedTables => bam_index % 2 = 1)
                    THEN [content EXCEPT ![b] = Written(b)]
                    ELSE content
  /\ bam_index' = Inc(bam_index)
  /\ overrun' = (\/ overrun \/ Inc(bam_index) = HeadSlot
                  \/ ~SlotReady(Inc(bam_index), content'))
  /\ msi_status' = TRUE
  /\ UNCHANGED <<vb2Vars, ioctl, vb, listVars, sequence, read_index,
                 taskletVars, scheduled, capturing, msi_enabled, stray>>

-----------------------------------------------------------------------------
User ==
  \/ \E b \in Buffers : QBufIdle(b) \/ QBufRunning(b) \/ DQBuf(b)
  \/ StreamOn \/ StreamOff

IoctlStep ==
  \/ Hand \/ FillTable \/ StartReset \/ StartFail \/ StartCapture \/ StartUnmask
  \/ StopMask \/ StopCapture \/ StopIndex \/ StopReturn \/ Cancel

Worker ==
  \/ WorkerTest \/ WorkerSkip \/ WorkerEmpty \/ WorkerTake \/ WorkerDone
  \/ WorkerLoad \/ WorkerStore

Next == User \/ IoctlStep \/ IrqHandler \/ TaskletStart \/ Worker \/ EngineFrame

Spec == Init /\ [][Next]_vars

\* The runs in which the tasklet never straddles the reset of the ring.
QuietSpec == Init /\ [][Next /\ ~stray']_vars

\* Neither a race of the tasklet nor a failed start has put one index of the
\* ring away from the other.
InStep == ~stray /\ ~skewed

\* Interrupts are delivered, softirqs run, and an ioctl in progress goes on
\* (vip_start() and vip_stop() only wait for a bounded time). Nothing is asked
\* of the application or of the video source. Here the application also keeps
\* up with the source, so that the engine never enters a slot nobody queued, and
\* never has more buffers queued than the ring has tables.
Prompt ==
  /\ Next /\ InStep' /\ ~overrun'
  /\ Len(buf_list') + Len(queued_list') <= NumTables
FairSpec ==
  /\ Init /\ [][Prompt]_vars
  /\ WF_vars(Prompt /\ IrqHandler)
  /\ WF_vars(Prompt /\ (TaskletStart \/ Worker))
  /\ WF_vars(Prompt /\ IoctlStep)

-----------------------------------------------------------------------------
(* Properties.                                                             *)

\* The two-valued variables.
FlagsOK ==
  /\ streaming \in BOOLEAN
  /\ start_called \in BOOLEAN
  /\ scheduled \in BOOLEAN
  /\ capturing \in BOOLEAN
  /\ msi_status \in BOOLEAN
  /\ msi_enabled \in BOOLEAN
  /\ overrun \in BOOLEAN
  /\ bumped \in BOOLEAN
  /\ skewed \in BOOLEAN
  /\ stray \in BOOLEAN

\* The others.
DataOK ==
  /\ vb_state \in [Buffers -> VbStates]
  /\ queued_list \in Seq(Buffers)
  /\ ioctl \in IoctlStates
  /\ vb \in Buffers \cup {NoBuf}
  /\ buf_list \in Seq(Buffers)
  /\ mmu_q_index \in Tables
  /\ sequence \in 0 .. SeqWrap - 1
  /\ dma_buf \in [Index -> Buffers \cup {NoBuf}]
  /\ read_index \in Index
  /\ tasklet \in TaskletStates
  /\ write_index \in Index
  /\ cb \in Buffers \cup {NoBuf}
  /\ next_index \in Index
  /\ bam_index \in Index
  /\ content \in [Buffers -> Contents]

\* Every variable keeps its type: the ring indices stay inside the ring, the
\* lists hold buffers, the program counters keep to the steps of the code.
TypeOK == DataOK /\ FlagsOK

Running == start_called /\ ~RingReset

\* The table n places after t.
Turn(t, n) == (t + n) % NumTables

\* The k-th listed buffer is in the k-th table from that of HeadSlot, but for
\* those whose table a later buffer has taken, all but the last NumTables of them
\* that have one. The next table to fill is the one behind the last of them.
Aligned ==
  /\ \A k \in 1 .. Mapped :
       k + NumTables > Mapped => dma_buf[Turn(HeadTable, k - 1)] = buf_list[k]
  /\ mmu_q_index = Turn(HeadTable, Mapped)

\* buffer_queue() and the worker keep two independent indices and never compare
\* them: however many buffers are queued, list and ring are nevertheless in
\* step, until stop_streaming() resets the indices and then empties the list. A
\* start that fails with an incomplete turn of the ring puts them out of step
\* ("skewed") until the engine is stopped again.
SlotAlignment == InStep /\ ioctl # "stopReturn" => Aligned

\* A buffer the worker is about to hand to the application as DONE holds one
\* complete frame, written once since the buffer was queued. With more buffers
\* listed than there are tables the code does not keep to that: "bumped" excepts
\* the buffer whose table a later one had taken, and no other.
FreshFrame ==
  InStep /\ ~overrun /\ tasklet = "took" /\ ~bumped => content[cb] = "fresh"

\* While the engine captures and has not been overrun, it writes into a buffer
\* that is on buf_list, so one neither the application nor the worker holds,
\* however many buffers there are.
EngineOwnsSlot ==
  InStep /\ ~overrun /\ capturing =>
    LET b == dma_buf[PageTable(bam_index)]
    IN  b \in Buffers /\ Listed(b) /\ content[b] = "empty"

\* The worker reads the engine's index once per run: a frame that ends after
\* that read must still have an interrupt latched or the tasklet scheduled.
NoMissedWakeup ==
  InStep /\ ~overrun /\ Running =>
    IF tasklet = "idle" THEN bam_index # read_index => msi_status \/ scheduled
    ELSE bam_index # write_index => msi_status \/ scheduled

\* A buffer is ACTIVE for videobuf2 exactly while the driver has it, and the
\* driver has it in one place: once on buf_list or in the worker's hands.
SingleOwner ==
  ~stray =>
    /\ \A i, j \in 1 .. Len(buf_list) : buf_list[i] = buf_list[j] => i = j
    /\ tasklet = "took" => ~Listed(cb)
    /\ \A b \in Buffers :
         vb_state[b] = "active" <=> Listed(b) \/ (tasklet = "took" /\ cb = b)

\* videobuf2's contract for stop_streaming(): when it returns, no buffer is
\* ACTIVE any more (videobuf2 warns and forces them back otherwise).
StopReturnsAll ==
  ~stray /\ ioctl = "cancel" => \A b \in Buffers : vb_state[b] # "active"

\* The sequence number of the next frame is the number of frames the ring has
\* turned by since the engine was started.
SequenceTracksRing ==
  ~stray /\ Running =>
    sequence % NumTables =
      QueueTable(IF tasklet \in {"advance", "store"} THEN Inc(read_index)
                ELSE read_index)

\* A frame captured into a queued buffer gets to the application: the buffer
\* leaves the ACTIVE state, as DONE or because streaming is stopped.
FrameDelivered ==
  \A b \in Buffers :
    (vb_state[b] = "active" /\ content[b] = "fresh") ~> (vb_state[b] # "active")

\* The pipeline, as long as the tasklet does not straddle a reset of the ring,
\* is a capture queue: FIFO, gapless, nothing lost or delivered twice.
Held == IF tasklet = "took" THEN <<cb>> ELSE <<>>

Owner == [user |-> "app", queued |-> "queue", active |-> "queue",
          done |-> "full", error |-> "flushed"]

FQ == INSTANCE FrameQueue WITH
        CountWrap <- SeqWrap,
        owner     <- [b \in Buffers |-> Owner[vb_state[b]]],
        fifo      <- Held \o buf_list \o queued_list,
        running   <- start_called /\ ioctl # "cancel",
        count     <- sequence

ImplementsFrameQueue == FQ!Spec

-----------------------------------------------------------------------------
(* What the comments of the source say.                                    *)

\* saa716x_v4l2.c:182, "Queue this buffer to the DMA engine": whenever no
\* buffer_queue() call is in progress on a running engine, each listed buffer
\* is in a slot of the ring.
QueuedToEngine ==
  start_called /\ ioctl = "none" =>
    \A k \in 1 .. Len(buf_list) : \E t \in Tables : dma_buf[t] = buf_list[k]

\* saa716x_v4l2.c:266, "Any remaining buffers in the DMA queue are dequeued and
\* passed on to the vb2 framework marked as STATE_ERROR": once stop_streaming()
\* has stopped the engine, a buffer leaves buf_list as an error only.
RemainingReturnedAsError ==
  [][ioctl = "stopReturn" =>
       \A b \in Buffers : Listed(b) => Listed(b)' \/ vb_state'[b] = "error"]_vars

=============================================================================
