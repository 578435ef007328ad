# Verification of the SAA716x capture driver

This directory holds TLA+ models of the Linux driver for cards with the NXP
SAA7160/SAA7162 PCIe bridge (the repository this directory stands beside), the
TLC configurations that check them on small instances, and proofs of their main
invariants for instances of any size. Source lines are given as `file:line`
relative to the repository.

## 1. The system

The repository is one PCI driver core and four front drivers over it: the HDMI
capture card (`saa716x_cap.c`), the budget and the hybrid DVB cards
(`saa716x_budget.c`, `saa716x_hybrid.c`), and the full-featured DVB card with
an STi7109 decoder (`saa716x_ff_*.c`).

| Component | State it keeps | Operations | Interacts with |
|---|---|---|---|
| Video capture streaming (`saa716x_v4l2.c`, `saa716x_vip.c`, `saa716x_cap.c`) | `buf_list`, `mmu_q_index`, `sequence`, the ring's page tables, `read_index`; registers VI_MODE, BAM_DMA_BUF_MODE, MSI mask and status | QBUF, DQBUF, STREAMON, STREAMOFF, interrupt, tasklet | videobuf2 calls the queue operations; the engine writes memory and raises MSI; the handler schedules the tasklet; the tasklet completes buffers |
| Capture format and timings (`saa716x_v4l2.c`) | `s->format`, `s->timings`, `vip_params` | s_fmt, s_dv_timings, query | HDMI receiver through subdev calls; read by start_streaming |
| Audio capture (`saa716x_alsa.c`, `saa716x_aip.c`) | `capture_running`, hardware pointer, `read_index` of the AIP ring | prepare, trigger, pointer, tasklet | ALSA calls the operations in atomic context; shares the interrupt handler with video |
| HDMI receiver (`tda19978.c`) | EDID, hot-plug and lock state, delayed work | set_edid, log/query timings, enable/disable hot plug | I2C; called by the format ioctls |
| DVB feeds (`saa716x_adap.c`, `saa716x_fgpi.c`, workers in the front drivers) | `feeds` counter, FGPI ring `read_index` | start_feed, stop_feed, interrupt, tasklet | dvb_demux under its mutex; FGPI engine |
| STi7109 command channels (`saa716x_ff_cmd.c`, handler in `saa716x_ff_main.c`) | `cmd_ready`, `result_avail`, `result_len`, `result_data`, the command mailbox | raw_cmd, raw_osd_cmd, interrupt | firmware over the PHI bus, one interrupt each way |
| STi7109 data channel (same files) | `data_ready`, `block_done`, `data_handle`, the two halves of the block buffer | raw_data, interrupt | the same |
| TS output FIFO, video read, remote control (`saa716x_ff_main.c`, `saa716x_ff_ir.c`) | ring buffer and FIFO status; VIP ring; key timers | write, read, worker, interrupts | FPGA FIFO; VIP engine; input layer |
| I2C adapter (`saa716x_i2c.c`) | `i2c_op`, controller registers | transfer with retries, interrupt | HDMI receiver, tuners, EEPROM |
| Probe and remove of each card (`saa716x_cap.c` and the other front drivers, `saa716x_pci.c`) | which resources are held | probe with its failure labels, remove | everything above |
| Page tables, clocks, GPIO, PHI, SPI, MSI vectors, EEPROM, debugfs | none beyond hardware registers, or static tables | register access, parsing | helpers of the others |

### What is hard here

* **Four contexts, few locks.** Ioctls run under `video_lock`, the interrupt
  handler and the tasklet on any CPU, the engine by itself. Only `buf_list` is
  under a spin lock (`qlock`); the indices of the ring, the page tables and the
  flags of the STi7109 are not.
* **Indices nobody compares.** The driver advances `mmu_q_index` when it queues,
  the tasklet `read_index` when it completes, the engine its own index; that they
  agree with `buf_list` is an invariant of the whole protocol and of no function.
* **Interrupts that are latched, masked and cleared.** The handler reads the
  status once, clears all of it, and acts on bits that are masked.
* **Calls that give up.** Every wait for the STi7109 ends after a second or at a
  signal, while the firmware goes on; its late answer meets the next call.
* **Stop against the worker.** No stop function waits for its tasklet.
* **Registers read, changed and written back** by actors that share no lock: the
  FIFO control of the full-featured card, the status and hot plug of the receiver.
* **State kept twice.** The driver's copy of the receiver's page, timings,
  infoframe and port; the PCM pointer beside the ring index; the last key beside
  the keys the input layer holds. Each can go stale while it is used.

`PROJECT.json` lists each such hazard with its line and the properties that
cover it, or why none does yet.

### What makes each component correct

| Component | Correctness |
|---|---|
| Video streaming | list, ring and page tables stay in step; a buffer delivered as DONE holds one whole frame; every buffer has exactly one owner; no frame waits for ever; a stop gives every buffer back |
| Command channel | an answer belongs to the command asked; the mailbox is not overwritten before it is read; no sequence of time-outs leaves the channel dead |
| Data channel | a half is not overwritten while it is read; a handle stands for exactly the data sent; the channel does not wedge |
| DVB feeds | the engine runs exactly while there are feeds; every block of a session reaches the demux once, in order |
| Audio | the reported position and the elapsed periods agree with what was copied, across stop and start |
| I2C | what is reported done was done, by its own last try and on the page meant |
| HDMI receiver | what the chip no longer flags is known; the matrix written is one matrix and the right one; no EDID is announced half written, and each is announced at last |
| TS output | the stream reaches the FIFO whole and in order; data in the ring do not wait unseen |
| Remote control | no key stays pressed |
| Probe and remove | what a failed probe leaves is what it found; nothing runs after remove |
| Formats and timings | the parameters the engine is started with belong to the format and timings the ioctls report; the engine stays within the buffers and fills them |

## 2. Modules

| Module | Role |
|---|---|
| `FrameQueue` | abstract specification: what a capture queue promises its application |
| `VipCapture` | the capture pipeline: videobuf2, ioctls, engine, interrupt, tasklet |
| `MCVipCapture` | symmetry and view of its instances |
| `VipCaptureProofs` | theorems about it: owners and ring; the engine's place and what it wrote; the step refinement of `FrameQueue` |
| `StiCommand`, `MCStiCommand`, `StiCommandProofs` | the command channel, its instances, its theorems |
| `StiData`, `MCStiData`, `StiDataProofs` | the data channel, its instance, its theorems |
| `DvbFeeds`, `DvbFeedsProofs` | feeds, FGPI engine and demux worker of one DVB adapter; theorems about them |
| `CardLifecycle` | probe, failure labels and remove of the four cards, with the interrupt live |
| `LifecycleInvariant` | its inductive invariant: what is left to do fits what is held |
| `LifecycleLadders` | that the probe functions, labels and remove functions are as the invariant needs them |
| `LifecycleProofs` | that every step keeps the invariant, and the theorems |
| `HdmiReceiver` | the TDA19978 driver: EDID and hot plug, interrupt handler, timings, colour matrix |
| `CaptureConfig` | the ioctls on input, standard, timings and format, the parameters and buffers they lead to |
| `AlsaCapture` | the PCM device, the audio port's ring and its tasklet |
| `TsOutput` | write(), the FIFO's work item, its interrupt and the source ioctls of the full-featured card |
| `I2cTransfer` | a transfer with its retries, and the paged register accesses above it |
| `RemoteControl` | the remote control's handler, tasklet, key-up timer and exit |
| `DeviceDrivers` | these six side by side, and their fairness, for one run |
| `ReceiverProofs` | theorems about `HdmiReceiver` |
| `DriverProofs` | theorems about the other five, and that what holds of one holds beside the others |

Operators whose comment begins "A mutant of" change one definition the way a
bug would; no specification uses them. They show that the properties are
sensitive: each property fails when its mutant replaces the original.

### VipCapture

Variables carry the names of the source. `ioctl` and `tasklet` are program
counters: an ioctl is split where another context can see its intermediate
state, the tasklet around each shared access.

| Action | Code |
|---|---|
| `QBufIdle`, `StreamOn`, `DQBuf`, `Cancel`, `StreamOff` | videobuf2 (external), as `saa716x_v4l2_init` configures it |
| `Hand`, `QBufRunning` | `buffer_queue()`: the buffer joins `buf_list` under `qlock` |
| `FillTable` | its second part, outside the lock: the page table and `mmu_q_index` |
| `StartReset`, `StartFail`, `StartCapture`, `StartUnmask` | `start_streaming()`, `saa716x_vip_setparams()`, `saa716x_vip_start()` |
| `StopMask`, `StopCapture`, `StopIndex`, `StopReturn` | `saa716x_vip_stop()` register by register, `stop_streaming()` |
| `IrqHandler` | `saa716x_cap_pci_irq()` for the video source |
| `TaskletStart`, `WorkerTest`, `WorkerSkip`, `WorkerEmpty`, `WorkerTake`, `WorkerDone`, `WorkerLoad`, `WorkerStore` | `video_vip_worker()`; `read_index = (read_index + 1) & 7` is a load and a store |
| `EngineFrame` | the DMA engine: ends a frame, moves to the next slot, latches the interrupt |

The engine writes whatever the slot's page table points to; it knows nothing of
the queue. History variables: `content` (what the engine left in a buffer since
it was queued), `overrun` (the engine entered a slot that nobody had queued),
`bumped` (the buffer in the worker's hands had lost its page table to a later one),
`skewed` (a failed start left `mmu_q_index` away from `read_index`) and
`stray` (the tasklet ran across the reset of the ring in `saa716x_vip_stop()`).

*Field modes.* Two conditions in the code look at the same flags. `buffer_queue()` and the
worker count two fields to a buffer for `VIP_FIELD_SEQ` or either of the two field flags
(`saa716x_v4l2.c:214`, `saa716x_cap.c:414`): `PairedFields`. The engine's registers give two slots one page
table for `VIP_FIELD_SEQ`, or for `VIP_INTERLACED` with both field flags (`saa716x_vip.c:67`):
`SharedTables`, which implies the other. Both true is field mode, both false progressive mode. Flags in
between can be reached (720p60 with the field flags of the interlaced format of the analog input, say):
the engine then has a table for each slot, of which only the first half is filled, and the
worker waits for two slots to a buffer. The mode is a constant: it is fixed while the queue is
busy, but for `saa716x_subdev_init()` (see `CaptureConfig`).

*More buffers than tables.* A start needs `min_buffers_needed` = VIP_BUFFERS buffers, and nothing limits
them: `queue_setup()` has no upper bound, and an application like ffmpeg asks for more. `buffer_queue()`
goes round the tables whatever they point to, so with more buffers queued than there are tables
(8 in progressive mode, 4 in field mode) the oldest lose their tables, and the engine
is pointed at the newer ones. The worker knows nothing of it and takes the oldest of `buf_list`: it returns
as DONE a buffer that the engine has not written, or only before it lost its table (`bumped`). What still
holds then is in the properties: the *last* buffers of the list, as many as there are tables, are in the tables
that follow the worker's (`SlotAlignment`); a buffer that had its table when the worker took
it holds one whole frame (`FreshFrame`); the engine, unless it is overrun, writes only listed and empty
buffers (`EngineOwnsSlot`), though not always the one the worker takes next. What fails is that every DONE
buffer was written: the finding `vip_field_tables` shows it where it cannot be avoided, in field mode.

*Failed start.* `return_all_buffers()` gives the buffers back to the QUEUED state and
leaves `mmu_q_index` where it is. If it has not come round to 0, the next hand-over fills the tables
from there while engine and worker begin at 0 (`skewed`). With exactly VIP_BUFFERS buffers
this cannot happen.

*Overrun.* When the application is late, the list runs empty, the worker gives up
(`saa716x_cap.c:423`) and leaves `read_index` behind the engine. Buffers queued
later are then returned as DONE before the engine wrote to them until
`read_index` has caught up. No comment or document promises otherwise, so
`FreshFrame`, `EngineOwnsSlot` and `NoMissedWakeup` are claimed until the first
overrun since the engine was started; ownership, order, alignment and stopping are claimed beyond it.

*Stray.* Most properties are false when the tasklet straddles the reset. The
run `vip_stop_race` shows this as a finding; the other runs use `QuietSpec`, in
which it does not happen, and so ask whether everything else is right.

### FrameQueue

Buffers come back full in the order queued, numbered from 0 without a gap, only
while the queue runs; a stop flushes the rest. `VipCapture` implements it
(`ImplementsFrameQueue`): the queue is the buffer in the worker's hands, then
`buf_list`, then the buffers videobuf2 still holds; the number is `sequence`.

### StiCommand

| Action | Code |
|---|---|
| `RawCmd`, `ReadyTimeout`, `Ready`, `Write`, `Raise`, `ResultTimeout`, `ResultAvail`, `Copy` | `sti7109_raw_cmd()` and `sti7109_do_raw_cmd()`, under `cmd_lock` |
| `IrqEnter` ... `IrqAckReady` | the command part of `saa716x_ff_pci_irq()`, which runs beside the call |
| `Fw...` | the firmware (external) |

What is assumed of the firmware is what the driver relies on: it says READY once
after boot and once after each command; it answers at most once per command and
before READY; it reads the mailbox only when signalled. `lost` records that the
FPGA's READY bit was set again between the handler waking the caller and
acknowledging the previous READY (`saa716x_ff_main.c:1434-1438`), which clears
the second with the first. A result is a pair of owner and length, which is cut to
MAX_RESULT_LEN by the handler and to the caller's room by the call.

### StiData

`RawData` ... `Finish` are `sti7109_raw_data()` and `sti7109_do_raw_data()` under
`data_lock`, `Irq...` the two bits of the handler. A block is the transfer it
belongs to, its index and the number of blocks, as in the header the code writes;
its bytes are not modelled. Assumed of the firmware: it reads the halves in
turn, each after a BLOCK signal, and reports each done; it says DATA after
boot, after the last block and after a cancel; it looks for a cancel before
starting a block, and a cancel drops a signalled block. History variables:

* `late`: a transfer was cancelled that the firmware had already finished, or
  finished before it saw the cancel. The completion and the cancel then leave one
  DATA signal each, so the next transfer can start before the firmware has seen
  the cancel and lose its first block to it. From there TLC finds, with one more
  time-out, a half overwritten that the firmware is about to read, and a
  call that succeeds although its data did not arrive whole.
  `HalfFree`, `StoredWhole` and `DataNotLost` are claimed until this happens:
  nothing in the driver distinguishes the two signals, and nothing in the
  repository says how the firmware would.
* `lost`: as above. `DataNotLost` assumes it did not happen.
* `empty`: a call with `data_length` 0 succeeded. It has no block to wait
  for, but waits for `block_done` all the same (`saa716x_ff_cmd.c:320`). If a stale one
  from a cancelled transfer is there, the call takes the DATA signal, sends
  nothing, and the firmware has no reason to send another.

### DvbFeeds

| Action | Code |
|---|---|
| `StartFeed`, `StopFeed` | `saa716x_dvb_start_feed()`, `saa716x_dvb_stop_feed()`, under the demux's mutex: the counter, and whether the engine is touched |
| `ResetChannel`, `ResetIndex`, `Enable`, `Unmask` | `saa716x_fgpi_start()`, which may fail in the first and the third |
| `Mask`, `Halt` | `saa716x_fgpi_stop()` |
| `Go`, `Ungo` | the demux (external) lets a feed's data through after `start_feed` and stops doing so after `stop_feed` |
| `IrqHandler` | `saa716x_budget_pci_irq()` for this port |
| `TaskletStart`, `WorkerTest`, `WorkerFilter`, `WorkerLoad`, `WorkerStore` | `demux_worker()`, the same code in three drivers |
| `EngineBlock` | the engine (external) ends a block |

The frontend stays connected, so the early return of the two feed operations does
not occur. The write that restores the buffer numbers on chips of revision 1
(`saa716x_fgpi.c:99`) is left out: what it does to the index is known to the chip alone.
History variables: `block` (is the slot's block new to the demux, or written twice),
`overrun` (the engine entered a slot still to be read), `stray` (the tasklet was
running when `read_index` was reset) and `failed` (the engine did not start: nobody
looks at the result of `saa716x_fgpi_start()`, and as the counter is then past 1 the
next feeds do not try again). After an overrun or a stray reset the worker's
position says nothing about the engine's, and `FreshBlock` and `BlockDelivered`
claim nothing.

### CardLifecycle

Each C function is an operator named after it that yields its steps in order; a
step takes or gives back one resource. A step that can fail carries what
the code does then: the labels from the one it jumps to, through the end of its
function, and those of its caller. A label is an operator that ends in the next one
(`PciFail3` to `PciFail0`, `CapFail6` to `CapFail3`, `FfFail9` to `FfFail3`, `Err6` to `Err0`, `BudgetFail3`,
`FreeHdl`; `Fail2` and `Fail1` are the same code in all four drivers). `InTurn` is a loop: its
rounds, all of one length, one after the other. `todo` is what remains; the actions take its
steps one by one.

| Action | Code |
|---|---|
| `ProbeCard`, `RemoveCard`, `Return` | the PCI core (external) calls probe and remove, and looks at the result |
| `Acquire`, `CheckStep` | a call that can fail, and the `goto` or the ignored result after it |
| `RequestInta`, `RequestMsi`, `RequestMsiX` | `saa716x_request_irq()` |
| `Release`, `Skip` | a call that frees; one that the code makes only if the thing is there |
| `EnterDvbExit`, `Count` | the loops over the adapters, which run over `num_adapters` |
| `Flush`, `SetPointer` | `flush_workqueue()`; `priv` and `ir_priv` |
| `HandlerEnter`, `HandlerIr`, `HandlerQueue`, `HandlerLeave`, `WorkDone` | the interrupt handlers and `saa716x_irq_work_handler()`, reduced to what they use |

The DMA buffers of the capture card are modelled by their parts
(`AllocatePtable`, `FreePtable`, `SgAlloc`, `SgFree`, `DmabufAlloc`, `DmabufFree` of
`saa716x_dma.c`): page, mapping of the page, scatter list, memory, mapping of the
memory. Each can fail by itself but the last: `dma_map_sg()` answers 0 when it fails,
for which the label `err3` does not look and which trips a `BUG_ON`.

A failure has one of three kinds, as the code has it: reported (`fail`), jumped
on with `err` at 0 (`quiet`), ignored (`skip`, or `short` when the release does not ask
whether there is anything to release). A quiet failure ends in phase `husk`: the card is
freed but the driver core takes it for bound, and nothing can follow
but a remove function that dereferences NULL, which the model does not go into.

The properties say what the code gets right and name what it does not:

* `ReturnsAll` lists what a failed probe leaks: the work queue of the
  capture card (`saa716x_cap.c:253-267` never destroys it), page tables and buffers
  of a partly successful `vip_init2` or `aip_init2` (those before the failure whole, and of
  the failed one the page that could not be mapped or the scatter list that got no memory:
  `saa716x_dma.c:34`, `saa716x_dma.c:126`), the network interface and I2C clients
  of an adapter whose frontend cannot be registered (`saa716x_adap.c:206`), and MSI-X,
  which is enabled, refused a handler and never disabled (`saa716x_pci.c:88-108`).
* `UsersGoFirst` is about `Needs`, all that stands on something else: nodes on what they run, adapters,
  units and their tasklets on the registers, the handler on all it schedules, work on its structures. It
  excepts the pairs in `OutOfOrder`, in which the code itself has the order wrong:
  - the interrupt handler is requested first (`saa716x_cap.c:174`) and freed last (281): tasklets and buffers of
    video and audio come after it (226-231) and go before it (277-278), the queue its work runs on goes at 280,
    and so with the FGPI, the remote control and the STi7109 structure of the other cards. (That most of the
    sources are masked then is not an order, and the handler acts on masked sources too.)
  - the receiver's subdevice goes before the queue its work runs on (276 against 280).
  - the demux and network nodes of an adapter exist before its FGPI is initialised (`saa716x_adap.c:136` against 195) and
    are released after its buffers and tasklet are freed (249-255 against 231);
  - the I2C clients go before the frontend that uses them (234-245 against 247-248);
  - the video node of the full-featured card comes before, and goes after, its work queue and
    capture buffers (`saa716x_ff_main.c:952`, 932-943);
  - the four leaks listed under `ReturnsAll` outlive what they stand on.

  Each of these pairs was found violated by TLC before it was excepted; of all others the property and its theorem
  say that they are right on every path.
* `HandlerHasDevice` excepts, once remove or a failure label has begun, the
  work queue (destroyed before the interrupt is freed), and the STi7109 and
  remote control structures (freed while a handler may hold their pointer).
* `ReceiverWork` is about the work on its queue, which `destroy_workqueue()` drains before the card is
  freed. It excepts the failed probe, which frees the card without draining the queue, and the work put
  on the queue once it is destroyed: remove destroys the queue (`saa716x_cap.c:280`) before it frees the
  interrupt (281), so the handler can queue onto freed memory (`HandlerQueue`; `work` is "late" then, and the work may
  run at any time, or never). Of that work the property says only when it can come about.
* `ReleasedOnce` excepts the `short` resources: `saa716x_fgpi_init()`, `dvb_net_init()`,
  the FIFO work queue, `saa716x_vip_init()` and the debugfs file are released whether
  they came up or not.

### HdmiReceiver

Three threads call the driver of the TDA19978: the card's probe, the application's
ioctls, the work item that runs the interrupt handler. A call is a sequence of steps
(`SetTimings`, `SetRange`, `Isr`, `SetEdid`, `Probe`, each in the order of its C
function); a thread takes the first step of what it has left, and a step may
put more in front, as a branch of the code does.

| Action | Code |
|---|---|
| `InitCall`, `IoctlCall`, `IrqWork` | who calls: `saa716x_subdev_init()`, the subdevice calls of the ioctls, `saa716x_irq_work_handler()` |
| `Lock`, `Unlock` | `state->lock` |
| `Match`, `StoreTimings`, `ConfigureVhref` | `tda19978_s_dv_timings()`: the test for equal timings is made before the lock |
| `StoreRange`, `ClearConv`, `ChooseConv`, `StoreConv`, `TestConv`, `WriteBypass`, `WriteCoef` | `tda19978_s_ctrl()`, `tda19978_configure_csc()`, access by access |
| `ReadStatus`, `ClearStatus`, `CheckPort`, `ReadAvi`, `ParseAvi` | `tda19978_isr()` |
| `ForgetEdid`, `CancelHpd`, `LowerHpd`, `WriteEdid`, `StoreEdid`, `EnableEdid`, `HpdWork` | `tda19978_set_edid()` and the delayed work |
| `PortEvent`, `AviEvent` | the cable and the source (external) |

`FlagsTellNews` is the argument for clearing the flags before reading what they
announce. `MatrixWhole` and `AnnouncedWhole` except calls that meet without a lock
(`rxRaced`): `tda19978_s_ctrl()` takes none, and beside the handler it can leave half a matrix of
each, or follow `state->conv` while it is NULL (`tda19978.c:1410`); the probe's `set_edid`
and the application's can interleave, as the video node exists before the receiver is set up.

### CaptureConfig

| Action | Code |
|---|---|
| `SInput`, `SStd` | the ioctls of those names |
| `SDvTimingsBegin`, `SDvTimingsStore`, `SDvTimingsEnd` | `saa716x_cap_s_dv_timings()`: the receiver, the stream's timings, the format |
| `SFmt`, `DeriveStore("ioctl")` | `saa716x_cap_s_fmt_vid_cap()`: the format, then each store of `video_vip_get_stream_params_...()` |
| `ReqBufs`, `StreamOff` | videobuf2, with the driver's `queue_setup()` |
| `StreamOn`, `StreamGo` | `buffer_prepare()`, `start_streaming()`: it reads `vip_params` field by field |
| `SubdevProbe`, `SubdevParams`, `DeriveStore("init")`, `SubdevTimings` | `saa716x_subdev_init()` |

`FillPixFormat` is the function of that name. `StoredParams` has the stores of the two derivations
`video_vip_get_stream_params_tda19978()` and `..._adv7611()` in their order, as far as they reach the size
of what the engine writes: source format, samples (with the pitch), lines, flags, field flags.
`EngineBytes` is what the window and the pitch of `saa716x_vip_setparams()` come to. Timings are
named after their size and rate. 720p24 is accepted by the timings' capabilities and has no parameters.

*The crossing.* `video_lock` keeps the ioctls apart (`Unlocked`), but `saa716x_subdev_init()` does not take
it, and the video node is registered before it is called (`saa716x_v4l2.c:1258` against 1262). From the moment
`sd_receiver` is set (line 1085) S_FMT derives the same `vip_params` that line 1090 or 1113 is
deriving. Each reads the timings once, at its beginning, then stores one field after the other,
over the other's: an application that sets other timings in between can be left with the width
of one derivation and the height and flags of the other, by an S_FMT that reports success. STREAMON in the
middle hands such a mixture to the engine; what it reads is itself torn, each field at its own moment (`StreamGo`).
`derived` says that the parameters come from a whole derivation that no other one, no change of the
settings and no start crossed (`alone`), for the input, timings and format still in force; `EngineMatchesFormat` is claimed for an engine
started with such parameters. The next S_FMT by itself makes them good again. TLC shows that the exception is needed: without
`alone` the property fails. (The flags in `vip_params` are also read by `buffer_queue()` and the tasklet while
streaming; `VipCapture` has them constant, so the crossing that changes them under a running stream is in neither module.)

The driver derives `vip_params` in S_FMT and when it is loaded only: the other ioctls leave them. `EngineMatchesFormat` also says that
in standard definition the flags of the timings before it stay, with which the engine may write less
than a buffer. `crossed` marks S_DV_TIMINGS in the middle of `saa716x_subdev_init()`. The finding
`capture_crop` needs no crossing: its specification, `LoadedSpec`, has an application that waits until the driver is loaded.

### AlsaCapture

| Action | Code |
|---|---|
| `PcmOpenClose`, `PcmPrepare` | the PCM callbacks |
| `AipStart`, `TriggerRunning` | TRIGGER_START: `saa716x_aip_start()`, then `capture_running` |
| `TriggerStop`, `AipStopCapture`, `AipStopIndex` | TRIGGER_STOP |
| `AipWorker`, `AnnounceData`, `PeriodElapsed`, `AipAdvance` | `audio_aip_worker()` |
| `EnginePeriod` | the engine ends a period (external), and the handler schedules the tasklet |

`skewed` marks a tasklet that met a stream that was not running, or was still at work at a stop.
The latter includes a stop out of the tasklet itself, on an overrun: `read_index` is reset and then
advanced by the loop that called it, and is one ahead of the engine from there on.

### TsOutput

Four actors (`act`) work on the ring, `tsout_stat` and the FIFO's control register: the
writer (`WriteBegin` ... `WriteTest`), the work item (`WorkBegin` ... `WorkRun`), the interrupt
handler (`FifoEmptyIrq`, `FifoEmptyMask`) and the ioctls (`ResetFifo` ... `FillRing`).
`ReadCtrl` and `Kick` are the two halves of the register's read-modify-write, for
whoever does it. `tsRaced` marks that one wrote back what another had changed in between;
that can restart a FIFO given to the demux, or leave its interrupt masked for good when
a late handler masks it after the work item has filled the FIFO. A writer turns the interrupt on at its end only, so one that has to wait for room
needs somebody else to have done so. `NoLostKick` therefore also excepts a writer that waits while the
ring is being filled (FILL), and a write larger than the ring that began when the FIFO had found the
ring empty (RUN, interrupt off): both wait for ever (`saa716x_ff_main.c:802-819`). The second came up in
the proof, which has no bound that makes every write smaller than the ring.

### I2cTransfer

`IoBegin` and `XferBegin` are `io_read()` and `io_write()` with their page;
`I2cIrqStart`, `I2cIrqClear`, `SendBuffered`, `SendPolled`, `SendReset`, `SendDone`, `WaitOk`,
`WaitTimeout`, `Recv`, `NextBlock` are one try in the buffered mode of the full-featured card
or in the polled one of the others; `XferRetry` and `XferDone` end it. `BusSends` is the wire and the
device (external), where words can be lost or be taken while the driver is told otherwise. Each call has a
serial number that its words carry. The interrupt (`HandleI2cIrq`) may be late: of the try
before (`stale`) or from before the wait.

`AccessIsOwn` names what the code cannot know (`doubt`): a page write reported as failed though
the device took it, which leaves `state->page` at the old page; words left by a transfer whose reset
failed; a message cut by a reset in its middle; and for buffered writes an interrupt that
came before the wait it ends (`saa716x_i2c.c:391`). Reads are right even then, as their end is
taken from the FIFO.

### RemoteControl

`IrCommand`, `IrSchedule` are the handler, `EmitBegin` ... `EmitArm` `ir_emit_key()` in the tasklet,
`KeyupExpires`, `KeyupTest`, `KeyupReport`, `RepeatDelay` the timers, `IrInitCall`, `IrExit` init and
exit. `irRaced` marks `last_key` changed under the running key-up function, which then releases
the new key (`saa716x_ff_ir.c:134`). `saa716x_ir_exit()` clears `ir_priv` before it kills the tasklet, which
dereferences it: the state `oops`, about which nothing is claimed.

### DeviceDrivers

The six share no variable, as in the code they share no state but registers of chips of their own. A
behaviour chooses one of them and leaves the others alone, so that their state
spaces add up instead of multiplying. No property relates two of them, so nothing is lost.

## 3. Runs

| Run | Question | Instance |
|---|---|---|
| `vip_progressive` | Does the pipeline keep list, ring, contents, ownership and wakeups right under every interleaving? | 2 slots, 4 buffers, a second interrupt source, sequence modulo 2; `QuietSpec` |
| `vip_field` | Does it implement `FrameQueue` with two fields per buffer, even if the engine has twice as many tables as are filled? | 4 slots on 4 tables of which 2 are filled (`PairedFields` without `SharedTables`), 4 buffers, sequence modulo 2; `QuietSpec` |
| `vip_live` | Does every captured frame get out? | 2 slots, 3 buffers of which at most 2 are queued; `FairSpec` |
| `vip_field_tables` (violation) | Is a queued buffer queued to the engine in field mode? | 4 slots on 2 tables, 4 buffers |
| `vip_stop_race` (violation) | Are buffers left at a stop returned as errors? | 2 slots, 2 buffers; `Spec` |
| `sti_command` | Are answers, mailbox and readiness right under time-outs? | 3 commands, results up to 2 bytes, one more than fits on offer |
| `sti_command_room` (violation) | Is a result cut to the caller's room? | 2 commands |
| `sti_data` | Are the halves, the handles and readiness right under cancelled transfers? | 3 transfers of up to 4 blocks, handles modulo 2 |
| `dvb_feeds` | Does the engine follow the feeds, and does the demux get each block of a session once? | 3 slots, 3 feeds, a counter of 3 values; `FairSpec` |
| `card_lifecycle` | Do the labels and the remove functions undo exactly what was done, in an order that leaves nobody without what it uses? | the four cards, 2 adapters, three interrupt types, up to 3 ignored failures, 2 DMA buffers to a unit |
| `device_drivers` | Are the receiver, the configuration, audio, TS output, I2C and the remote control right when their contexts interleave? | see below; `RxFairness` |
| `capture_crop` (violation) | Does the cropping window keep the engine within the buffers? | 4 timings, 4 ioctls; `LoadedSpec` |

### Bounds and why they are enough

* *Ring size.* The code treats slots alike, modulo the size. With two slots every index wraps at
  every other step, and the list is empty, partly full, full, and longer than the ring.
  Field mode needs an even size; with 4 slots on 2 tables both indices wrap.
  What two slots cannot tell apart, "the next slot" and "the one before", the proofs below do: they
  cover every size.
* *Buffers.* The minimum for a start is the ring size (8 in the source in both modes,
  2 or 4 here). `vip_progressive` has twice that, so that every table can be
  overwritten while in use, as it is from the ninth buffer on in the source, and so that a failed
  start leaves `mmu_q_index` at every place. With two fields per buffer the minimum is already
  twice the number of tables. A third turn of the tables adds nothing new: a buffer that lost
  its table is not told apart from one that lost it twice. The theorems have no bound.
* *Sequence.* Modulo the number of tables, so that gap and repetition show. It
  bounds the counter and otherwise matters for nothing.
* *Commands and transfers.* The channel is serial: at any time there is at most
  the current call's identity, a late one in the firmware and one left in the
  mailbox, flags or stale buffer: three. Identities are reused in turn.
* *Result lengths.* 0, within, equal to and (on the firmware's side) above the
  room. *Blocks.* Up to four, so each half is filled twice in one transfer.
* *Feeds.* As many as the counter has values, as in the source (256 feeds, an
  u8), so that it wraps to 0 with all of them in use.
* *Cards.* Two adapters: a failure in the second finds one that is up and
  one half way. Every reported failure of every step is tried, in all
  interrupt modes; of the failures the code goes on after, up to three in one probe;
  each concerns one resource, and more would only add combinations of independent ones.
* *Receiver.* Two application calls or source events besides the probe's three calls: enough for
  every pair of calls, and a call and an event, to meet the handler. Two infoframes besides the one at power-up.
* *Configuration.* Four ioctls that change something (`MaxCfgCalls`; buffers and streaming are not counted):
  enough to change the timings, set a format, change the timings or the input again and set a format
  once more, each beside every step of `saa716x_subdev_init()`; both receivers. `EngineWithinBuffers` has
  no bound on them.
* *Audio.* A ring of 3 and five periods: it wraps, with a stop and a start between.
* *TS output.* A ring of 3 packets and one kept back, a FIFO of 2, four packets and two ioctls: the ring wraps and fills, and a
  flush meets each step of the others.
* *I2C.* Two accesses on two pages, so that the page is wrong for the second, with two faults among
  three tries each. *Remote control.* Three commands on two keys.
* `sti_data` does not continue past a state in which `late` holds
  (CONSTRAINT `NotLate`): only the type invariant is claimed there.
* Symmetry is used for identities in safety runs, not in `vip_live`. `vip_field`
  projects away `content` and `overrun`, which no action's guard and no
  property of that run reads.

Deadlock is checked in all runs but `device_drivers` and `capture_crop`, where the bounds
on calls and events end every behaviour: there is always something the application,
the demux, the firmware or the driver core can do. In `card_lifecycle` the husk alone
stays as it is (`Husk`).

### Findings

* `vip_field_tables`: in field mode there are half as many page tables as the
  eight buffers handed over before the start, and the last four overwrite
  the tables of the first four (`saa716x_v4l2.c:216`). The first four are returned as
  captured without the engine ever having had their address.
* `vip_stop_race`: a tasklet scheduled before `saa716x_vip_stop()` resets the index
  takes the remaining buffers after it and returns them as DONE
  (`saa716x_vip.c:371`), against the comment at `saa716x_v4l2.c:266`.
* `sti_command_room`: a command without room for a result returns, and copies to
  the caller, as many bytes as the last result had (`saa716x_ff_cmd.c:73`), because the
  cut of line 92 is inside the condition.
* `capture_crop`: the comment in `saa716x_vip_setparams()` says of the cropping window that it keeps VIP
  within the buffer. The window is that of the last derivation, while S_DV_TIMINGS, S_STD and
  S_INPUT change the format, and with it the buffers, and leave the parameters as they were
  (`saa716x_v4l2.c:389`).

## 4. Fairness

`FairSpec` of `VipCapture` assumes weak fairness of the interrupt handler (a
latched, enabled MSI is delivered), of the tasklet's start and of each of its
steps (softirqs run), and of the steps of an ioctl already begun (it holds
`video_lock` and every wait in it is bounded by a loop count). Nothing is assumed
of the application, which need never queue or dequeue, nor of the engine,
which need never end a frame. In that run the application keeps up (`~overrun`) and
has no more buffers queued than there are tables, no start fails with an incomplete turn, and the tasklet does not
straddle the reset (`Prompt`). Beyond them the frame of a buffer that lost its table is nobody's. `FrameDelivered`: a buffer with a whole frame
leaves the ACTIVE state.

`FairSpec` of `DvbFeeds` assumes the same of the interrupt while it is enabled,
the tasklet and the steps of a feed operation; a masked source need never be
noticed, although the handler acts on it when another source interrupts.
`BlockDelivered`: the worker does not stay for good behind an engine that runs.

`RxFairness` assumes that the work queues run: the delayed work, the interrupt's
work item, and the steps of whoever is inside a call. The source need never change and the
application never call. `EdidAnnounced`: an EDID once stored is announced, unless another
`set_edid` begins or two have crossed.

## 5. Proofs

All safety theorems have the form `Spec => []P` for the specification of the
component, with only the named assumptions on the constants (`VIP_BUFFERS >= 2`, even in
field mode; finite buffers; a result length of at least 1; identities distinct
from the "none" value; a feed counter that has at least as many values as there
can be feeds; rings of at least two places; `block_size >= 2`; bounds that are numbers)
and, where stated, a condition on the instance that is a hypothesis of the theorem. The bounds on
calls, faults and events stay parameters: what is proved holds for every value of them. Each theorem is
listed in `PROJECT.json`. Every invariant named below was checked by TLC on the reachable states of the
small instance before it was proved.

`VipCaptureProofs`:

* `TypeCorrect`. Needs, beyond `TypeOK`, that a buffer remains to be handed over
  while the ioctl is in its hand-over loop (`HandInv`); otherwise
  `Head(queued_list)` has no type.
* `OneOwner` (`SingleOwner`) and `StopComplete` (`StopReturnsAll`). Not inductive:
  that a returned buffer is not also listed depends on where the ioctl stands
  (`CtlInv`: for each place in the ioctl, which flags hold), on the worker
  being idle, or about to find nothing to do, while the ring is reset
  (`CalmInv`, which is where `~stray` enters), and on neither list holding a
  buffer twice (`Owners`). Lemmas on appending to and taking from a sequence
  without repetition carry the steps.
* `RingInStep` (`SlotAlignment`), for any number of buffers and every mode. The tables are filled in
  the order of the list, modulo their number, and the worker leaves the list in that order; of a list longer than
  the tables only its end is still in them. In addition a whole ring of buffers is handed
  over before the start (`Handover`); `RingWalk` gives the modular arithmetic.

`StiCommandProofs` rests on one idea: there is a single *token*, the right to use
the mailbox. It is with the firmware, on its way as READY, in
`cmd_ready`, with the call between `Ready` and `Raise`, or on its way as a
command, and never in two places (`TokenInv`). From it follow `MailboxKept`
(`MailboxIntact`) and `NoWedge` (`ReadyNotLost`); with the additional fact that
`result_avail` is reset by whoever takes the token, so that what is there afterwards is
the result of the token's command (`OwnInv`), follows `OwnAnswer`
(`AnswerOfOwnCommand`). They hold whatever the number of commands and the
maximal length.

`DvbFeedsProofs` has two invariants. `FeedInv` says what the counter counts,
the demux's feeds and the call in progress, modulo its width (`CountInv`), and what
is switched on at each step of a call (`CtlInv`). The bound on the feeds is what
makes "the counter is 1" and "the counter is 0" mean the first feed in and
the last one out. From it follow `TypeCorrect` and `EngineOnDemand`
(`EngineFollowsFeeds`). `RingInv` says that the slots from the worker's up to
the engine's, counted round the ring (`Dist`), hold fresh blocks, less the one
already handed over, and the others old ones; between the reset of the channel and
that of the index it says instead that the engine is at slot 0 and every block is
old, for which `CtlInv` is needed: the engine is off. From it follows `FreshBlocks`
(`FreshBlock`) for every size of the ring.

Then where the engine is. `EngineInv` says that while the engine is started
and has not been overrun, the buffers from the head of `buf_list` up to the engine's slot hold a
fresh frame, the engine's own and all after it are empty, and the worker knows of no more
filled slots than there are (`Supply`, with `Filled`, a distance round the ring); that before the
start all buffers are empty (`Unfilled`); that the worker enters its loop's body only for a slot
that is done (`BodyInv`). It needs `RingInStep`'s invariant to know which buffer a slot's table names. From
it follow `FramesComplete` (`FreshFrame`), `EngineKeepsToList` (`EngineOwnsSlot`) and
`NoFrameForgotten` (`NoMissedWakeup`), in progressive mode (`~PairedFields`) and for any number of buffers: a buffer
that lost its table is `bumped` when the worker takes it, and `Mapped` counts the listed buffers that were given a table.
In field mode the minimum of buffers has lost half of the tables before the engine starts, as the finding shows. `FramesNumbered`
(`SequenceTracksRing`) holds in both modes if the counter's width is a whole number of turns of the ring
(`WholeTurns`), as 2^32 is of 8 or 4.

And `CaptureQueue`: `QuietSpec` implements `FrameQueue`, for every number of slots and
buffers and both modes. The abstract queue is the buffer in the worker's hands, `buf_list` and
`queued_list` in that order; each action is shown to be one of `FrameQueue`'s (`StepApplication`,
`StepWorker`, `StepStop` ...) or to leave it alone: handing a buffer from videobuf2's list to the driver's moves none
(`HeadMoves`). `QueueInv` adds to the owners' invariant what is needed of videobuf2's states.

`StiDataProofs` follows the data token as `StiCommandProofs` the command's. `ChannelInv` says where a call that has
the token stands against the firmware: nothing signalled yet (`NoneRaised`), the last block before it or in
its hands (`WithFirmware`), or done with (`DoneWith`); and between calls, that only a cancelled one leaves
the firmware anything to do (`RestInv`). While `late` has not happened follow `HalvesApart` (`HalfFree`), `DataWhole`
(`StoredWhole`) and `ChannelOpen` (`DataNotLost`); `TypeCorrect` holds always.

`ReceiverProofs` proves of the TDA19978's driver `ReceiverTypes`, `NewsTakenIn` (`FlagsTellNews`), `ColoursInStep`
(`MatrixWhole`) and `EdidWhole` (`AnnouncedWhole`). A thread's program is the sequence of steps it has left, so
everything begins with what that sequence can be. Its inductive invariant `RxInv` has five parts:

* `RxTypes`: types, and `Control`: what a thread has left is the rest of one of the driver's functions
  (`Fits` says what may follow each step in each call). From it follows where each thread can be
  (`Places`), so that a step is known by its name.
* `FlagsInv`: a port change or an infoframe that the chip flags no more has been taken in, or the handler
  that read the flag is on its way to do so; what the handler read may be old, but then the flag is up again.
* `LockInv`: who is between the steps that touch timings, infoframe and matrix holds `state->lock`, if its call
  takes it: `s_ctrl` does not, and the probe is alone.
* `ColourInv`: at rest the matrix is whole, and a thread inside has it as far as its step says (`Colours`); as
  long as `rxRaced` does not record that `s_ctrl` met another call.
* `EdidInv`: at most one `set_edid` (else recorded as raced), and the chip's EDID is at rest (`Settled`) or as far as that
  call has come (`EdidAt`).

`MatrixWhole` speaks of moments at which no call runs. It is not inductive without what holds in the
middle of each call, which the last three parts give. `rxRaced` is a history variable: it weakens what is proved exactly
as it weakens what the run checks, to behaviours before the first crossing that the code does not exclude.

`DriverProofs` has an inductive invariant for each of the other drivers:

* *Audio* (`PointerInStep`): the slots before the engine's index are new, or all are since it has lapped (`RingInv`);
  what each TRIGGER step leaves (`TriggerInv`, `TurnedInv`); the tasklet works behind the engine (`BehindEngine`).
* *Remote control* (`KeysReleased`): a key that is down has a timer pending, its function running, or the
  tasklet at a step from which it arms the timer (`HeldInv`); what `saa716x_ir_exit()` has waited for rests
  (`ClosedInv`).
* *Configuration* (`EngineWithinBuffers`, `ReceiverInStep`): the format is what its timings give,
  between calls (`FormatInv`), and the buffers are of its size (`BufsInv`). A derivation that is still
  `alone` has stored, up to its step, what its timings give, and those are the stream's; one that ended alone has
  left the parameters of the settings in force; and an engine started with them has read the same
  values throughout (`ParamsInv`). `BytesOf` computes what the engine writes for every timings the driver knows.
* *TS output* (`StreamWhole`, `KickNotLost`): the ring holds the packets after the last moved, at `pread + k` modulo
  its length (`TsRingInv`, on `RingPlaces`); the lock has one holder, and an ioctl that resets the FIFO
  has the work item at rest (`TsLockInv`); the FIFO ends with the last packet moved and starts
  after the last flush (`FifoInv`); whoever left the interrupt off has found the ring empty, or is yet to turn it on (`KickInv`).
* *I2C* (`AccessesOwn`): `CountInv` says how far a message has come, as an equation of the words counted, the
  bytes left, the block and what remains of it. `WriteInv` puts the device in step with the words
  sent, those still in the FIFO continuing where it stands; so that an empty FIFO at the end means
  that the last word was taken. `ReadInv` says that every answer in the FIFO or received belongs to
  the call and its page; `WaitInv`, that an interrupt which ends a wait came after the words, or is
  in doubt; `PageInv`, that the page remembered is the device's unless a page write was
  reported wrongly; `CallersInv`, that `page_lock` makes the transfer the caller's own. Each clause is guarded
  by the doubts the property names, so the proof shows that there are no others.

`DriversApart` takes a behaviour of all six drivers together to one of each; with it `TypesKept` (`TypeOK`
of `DeviceDrivers`) and `DriversCorrect` (all ten safety properties) hold of the specification that the run `device_drivers` checks.

`LifecycleInvariant`, `LifecycleLadders` and `LifecycleProofs` prove the six properties of `CardLifecycle`
for every number of adapters (1 to 4) and of DMA buffers, all subsets of cards and interrupt types and any number of ignored failures.
None of the properties is inductive: that the next release finds its resource there depends on all
that is left to do. So the invariant `LifeInv` speaks of `todo` as a whole:

* While labels or a remove function run (`Releasing`), `todo` *unwinds* what is held (`Unwinds`): it asks for nothing that
  is neither held nor taken for held, gives nothing back twice, a user before what it stands on, and takes with
  what it frees everybody who stands on it. What it does not give back is only what `Forgotten` allows after a
  failure, and nothing in a remove function.
* While a probe function runs (`Building`), `todo` *builds* from what is held (`Builds`): every step stands on what the steps
  before it hold for sure; the ladder it fails into unwinds whatever they may hold, less what the labels forget; and
  at the end the remove function unwinds all of it. Three sets say how far a probe function has
  come (`Stage`): what may be held, what is held for sure, and what the code takes for held, since it passed over a failure.
  A fourth is the adapters counted, over which `saa716x_dvb_exit()` will run.
* In the loop of `saa716x_dvb_exit()` the adapters still to be counted off are those that are counted (`UncountInv`),
  which keeps `num_adapters` from going below 0.
* A handler runs only while the interrupt is registered (`HandlerInv`); the work is the capture card's, whose work queue
  is there while it waits; late work comes about only after the queue is gone (`WorkInv`).

That a probe function builds when it begins is `ProbeFits`, a theorem about the code's sequences and no
state. `LifecycleLadders` leads to it: `Ladder(s, C, G, A)` (the steps `s` give back `G` and ask for `A`) and `Path(crd, s, a, d)`
(the steps `s` fit from stage `a` on and add `d`) hold of single steps, pass from two sequences to one after the
other (`LadderConcat`, `PathConcat`), and from the rounds of a loop to the loop (`PathLoop`). No induction is needed for the last:
`InTurn` gives each step of the loop by a quotient and a remainder, so a statement about all its steps is one about all rounds.
From these, each label, each part and each of the three probe functions in turn (the hybrid card's is the budget card's).

`LifecycleProofs` then shows that each action keeps `LifeInv`: a step taken leaves the rest building, or fails into its
ladder; a step given back leaves the rest unwinding; entering the loop of `saa716x_dvb_exit()` puts in place of the call
the releases of all adapters counted, which give back the same. From `LifeHolds` follow `LifeTypes` (`TypeOK`), `NothingOutlivesItsBase` (`UsersGoFirst`),
`NothingFreedTwice` (`ReleasedOnce`), `NothingKept` (`ReturnsAll`), `HandlerKeepsDevice` (`HandlerHasDevice`) and `WorkKeepsDevice` (`ReceiverWork`).

### Model-checked only

Liveness alone (`FrameDelivered`, `BlockDelivered`, `EdidAnnounced`): it rests on fairness, and so on ENABLED,
which is out of the prover's reach.

## 6. Abstractions, and what is not modelled

* Frames, results and data are identities; the register sequence that sets up
  the video engine is one step that resets the indices, as no other context
  can see its middle.
* `dequeue`, `poll` and the file handles of videobuf2 are reduced to which state a
  buffer is in. Memory allocation and mapping of buffers are left out.
* The four other interrupt bits of the full-featured card and its IR, FIFO and
  demux parts do not touch the state of the two channels.
* The OSD command channel has the command channel's code with names changed and
  is not instantiated.
* In `CardLifecycle` what a step does to the chip is left out, with the steps that
  cannot fail and hold nothing (`saa716x_cgu_init`, `saa716x_core_boot`, GPIO,
  the EEPROM). Applications that keep a node open across an unbind are left out: an open
  node keeps the module loaded, but not the device bound. The network interface of an
  adapter, which can be up during remove, is a resource without a user.
* `HdmiReceiver`: an EDID is given with two blocks, as `saa716x_subdev_init()` does, or with none. The call with
  one block does the same (`tda19978.c:1240-1247` writes both halves whatever their number) and only stores the number. Accesses to the chip succeed (their failures are `I2cTransfer`'s subject), and probe
  failures and the remove function are one step of `CardLifecycle`. The audio and source
  infoframes only store and log; queries and log_status change nothing. `CaptureConfig`: the debugfs
  caller of `s_dv_timings` is left out, and the ADV7611's own driver is not in the repository: it takes the
  timings it is given.
* `TsOutput` has one video ioctl at a time, though two descriptors of the node could make two; a second one would
  meet the first as it meets the other actors.
* `EngineFrame`, `EngineBlock` and `EnginePeriod` are steps of the chip. What is known of them is what
  the code reads back of them: the index registers `PROJECT.json` maps them to.
* `read()` of raw frames (`saa716x_ff_main.c:664`) is not modelled: one thread under `video_lock` starts
  the engine, sleeps, stops it and copies a buffer. What is wrong with it shows without
  interleavings: `saa716x_vip_stop()` has reset `read_index` by the time line 709 reads it, so that
  unless a late tasklet has set it again the last buffer of the ring is copied, whatever was captured.
* What an application can do to a node that is registered before what it uses exists (`saa716x_ff_main.c:952`)
  is listed as a hazard without a property: `CardLifecycle` names the pair and has no application.
* `saa716x_dmabuf_sgpagefill()` is a sequential function without state of its own; `VipCapture` has the filled
  table as one assignment. The DVB ports' and the full-featured card's DMA buffers
  (`saa716x_fgpi_init()`, `saa716x_vip_init()`) are one resource each in `CardLifecycle`.
* Left out: clock generation, SPI, GREG, PHI, GPIO access (register
  programming without state), the EEPROM parser (only logs), debugfs
  (diagnostics), MSI vectors (`saa716x_add_irqvector()` has no caller), the old
  copy `saa716x_cap.c.bak`.

## 7. Plan

Every safety property of the passing runs has its theorem. What could be added is listed in section 6: an application at
the nodes while a card comes and goes, `read()` of raw frames beside the capture tasklet, and the stream's flags changing
under a running stream, are what no property covers yet.
