--------------------------- MODULE CardLifecycle ---------------------------
(***************************************************************************)
(* Probe and remove of the four drivers (capture, budget, hybrid and full- *)
(* featured card), with the interrupt handler and the receiver's work that *)
(* run beside them.                                                        *)
(*                                                                         *)
(* The C functions are sequences of steps. A step takes or gives back one  *)
(* resource, named <<name, index>> (or <<part, unit, index>> for a DMA     *)
(* buffer of the capture card); if it may fail, it carries what the code   *)
(* then runs: the rest of its own ladder of labels and that of its caller. *)
(* "todo" is what the running function has still to do. What a step does   *)
(* to the chip is left out.                                                *)
(***************************************************************************)
EXTENDS Integers, Sequences

CONSTANTS Cards,      \* the drivers: "cap", "budget", "hybrid", "ff"
          Adapters,   \* DVB adapters of a card (config->adapters, 1 to 4)
          DmaBuffers, \* DMA buffers of a VIP and of an AIP (16 and 8)
          IntTypes,   \* the module parameter int_type
          MaxIgnored  \* bound on the failures the code goes on after

ASSUME CardsAssumption == Cards \subseteq {"cap", "budget", "hybrid", "ff"}
ASSUME AdaptersAssumption == Adapters \in 1 .. 4
ASSUME DmaBuffersAssumption == DmaBuffers \in Nat \ {0}
ASSUME IntTypesAssumption == IntTypes \subseteq {"inta", "msi", "msix"}
ASSUME MaxIgnoredAssumption == MaxIgnored \in Nat

VARIABLES
  card,          \* which driver the device belongs to
  phase,         \* where the driver core is with the device
  todo,          \* the steps left of the running probe or remove
  held,          \* the resources allocated or registered
  short,         \* those whose failure was ignored: freed all the same
  err,           \* the probe function will return an error
  num_adapters,  \* saa716x_dev.num_adapters
  int_type,      \* saa716x_dev.int_type
  ptr,           \* the private pointers (priv, ir_priv) that are not NULL
  handler,       \* what a running interrupt handler uses, {} if none runs
  work,          \* irq_work: "queued" (or running), "late" if on the freed queue
  ignored        \* failures ignored so far

vars == <<card, phase, todo, held, short, err, num_adapters, int_type, ptr,
          handler, work, ignored>>

Singles == {"dev", "wq", "pci", "bar", "mmio", "irq", "msi", "msix",
            "drvdata", "vip", "aip", "v4l2", "ctrl", "video", "subdev",
            "alsa", "debugfs", "sti", "iobuf", "videodev", "fifowq", "vbuf",
            "audio", "osd", "ir"}
PerAdapter == {"adapter", "dmx", "dmxdev", "fehw", "femem", "net", "client",
               "fe", "frontend", "fgpi"}
R(name) == <<name, 0>>

\* What a DMA buffer of the unit ("vip" or "aip") consists of: the page of its page
\* table, the mapping of that, the scatter list, the memory and its mapping.
Parts == {"page", "ptab", "list", "mem", "sgmap"}
Buf(unit, n) == [p \in Parts |-> <<p, unit, n>>]

Resources == (Parts \X {"vip", "aip"} \X (1 .. DmaBuffers))
             \cup (Singles \X {0}) \cup ({"i2c"} \X {0, 1})
             \cup (PerAdapter \X (0 .. Adapters - 1))
Phases == {"absent", "probing", "failing", "bound", "removing", "failed",
           "husk"}

-----------------------------------------------------------------------------
(* Steps. "only" must be held (or be short) for the step to be taken at    *)
(* all; "may" are the outcomes it can have.                                *)

Step(op, res, only, may, fail) ==
  [op |-> op, res |-> res, only |-> only, may |-> may, fail |-> fail]

\* Fails into the ladder "fail".
Take(res, fail)     == Step("take", res, {}, {"ok", "fail"}, fail)
\* The code forgets to set err before it jumps.
TakeQuiet(res, fail) == Step("take", res, {}, {"ok", "quiet"}, fail)
\* Cannot fail.
Get(res)            == Step("take", res, {}, {"ok"}, <<>>)
\* Optional: absent, disabled, or its failure is seen later.
Try(res)            == Step("take", res, {}, {"ok", "skip"}, <<>>)
\* Its failure is ignored, and its release does not ask.
Blind(res)          == Step("take", res, {}, {"ok", "short"}, <<>>)
\* Takes nothing.
Check(may, fail)    == Step("check", R("dev"), {}, may, fail)
Drop(res)           == Step("drop", res, {}, {"ok"}, <<>>)
\* The code asks whether it is there.
DropIf(res)         == Step("drop", res, {res}, {"ok"}, <<>>)
Plain(op, res)      == Step(op, res, {}, {"ok"}, <<>>)

\* A loop: rounds of one length, one after the other.
InTurn(rounds) ==
  IF rounds = <<>> THEN <<>>
  ELSE LET m == Len(rounds[1])
       IN  [k \in 1 .. Len(rounds) * m |->
              rounds[((k - 1) \div m) + 1][((k - 1) % m) + 1]]

-----------------------------------------------------------------------------
(* The PCI device, the core and the I2C adapters.                          *)

\* The label fail1 of every probe function.
Fail1 == << Drop(R("dev")) >>

\* The labels fail0 to fail3 of saa716x_pci_init(); its caller goes on at fail1.
PciFail0 == << DropIf(R("drvdata")) >> \o Fail1
PciFail1 == << Drop(R("pci")) >> \o PciFail0
PciFail2 == << Drop(R("bar")) >> \o PciFail1
PciFail3 == << Drop(R("mmio")) >> \o PciFail2

\* saa716x_pci_init(). The check is for the DMA masks and the power management
\* capability.
PciInit ==
  << Take(R("pci"), PciFail0),
     Check({"ok", "fail"}, PciFail1),
     Take(R("bar"), PciFail1),
     Take(R("mmio"), PciFail2),
     Step("irq", R("irq"), {}, {"ok", "fail"}, PciFail3),
     Get(R("drvdata")) >>

\* A mutant of PciExit: the registers are unmapped under the handler.
PciExitUnmapsFirst ==
  << Drop(R("mmio")), Drop(R("irq")), DropIf(R("msi")), Drop(R("bar")),
     Drop(R("pci")), DropIf(R("drvdata")) >>

\* saa716x_pci_exit().
PciExit ==
  << Drop(R("irq")), DropIf(R("msi")), Drop(R("mmio")), Drop(R("bar")),
     Drop(R("pci")), DropIf(R("drvdata")) >>

\* The label fail2 of every probe function.
Fail2 == PciExit \o Fail1

\* saa716x_msi_init() fails if an interrupt stays pending or enabled.
MsiInit     == << Check({"ok", "fail"}, Fail2) >>
\* saa716x_jetpack_init() fails for a bridge it does not know.
JetpackInit == << Check({"ok", "fail"}, Fail2) >>

\* saa716x_i2c_init() deletes the adapters already added when one fails.
I2cInit ==
  << Take(<<"i2c", 0>>, Fail2),
     Take(<<"i2c", 1>>, << Drop(<<"i2c", 0>>) >> \o Fail2) >>

I2cExit == << Drop(<<"i2c", 0>>), Drop(<<"i2c", 1>>) >>

\* What every probe function does first, once it has the device structure.
\* saa716x_cgu_init(), saa716x_core_boot() and saa716x_phi_init() cannot fail.
CoreInit == PciInit \o MsiInit \o JetpackInit \o I2cInit

-----------------------------------------------------------------------------
(* DMA buffers.                                                            *)

\* saa716x_allocate_ptable(): the page stays when it cannot be mapped.
AllocatePtable(b, undo) == << Take(b["page"], undo), Take(b["ptab"], undo) >>

\* saa716x_free_ptable().
FreePtable(b) == << DropIf(b["ptab"]), DropIf(b["page"]) >>

\* saa716x_dmabuf_sgalloc(): the list stays when there is no memory.
SgAlloc(b, undo) == << Take(b["list"], undo), Take(b["mem"], undo) >>

\* saa716x_dmabuf_sgfree().
SgFree(b) == << DropIf(b["mem"]), DropIf(b["list"]) >>

\* saa716x_dmabuf_alloc(). A negative result of dma_map_sg() would free all, but
\* dma_map_sg() answers 0 when it fails, which trips the BUG_ON of
\* saa716x_dmabuf_sgpagefill(): it is not seen to fail.
DmabufAlloc(b, undo) ==
  AllocatePtable(b, undo) \o SgAlloc(b, FreePtable(b) \o undo)
  \o << Get(b["sgmap"]) >>

\* saa716x_dmabuf_free().
DmabufFree(b) == << Drop(b["sgmap"]) >> \o SgFree(b) \o FreePtable(b)

-----------------------------------------------------------------------------
(* The capture card.                                                       *)

\* saa716x_vip_init2() and saa716x_aip_init2() free nothing when the tables of a
\* later buffer cannot be had.
VipInit2(undo) ==
  InTurn([n \in 1 .. DmaBuffers |-> AllocatePtable(Buf("vip", n), undo)])
  \o << Get(R("vip")) >>
VipExit2 ==
  << Drop(R("vip")) >>
  \o InTurn([n \in 1 .. DmaBuffers |-> FreePtable(Buf("vip", n))])
AipInit2(undo) ==
  InTurn([n \in 1 .. DmaBuffers |-> DmabufAlloc(Buf("aip", n), undo)])
  \o << Get(R("aip")) >>
AipExit2 ==
  << Drop(R("aip")) >>
  \o InTurn([n \in 1 .. DmaBuffers |-> DmabufFree(Buf("aip", n))])

\* The label free_hdl of saa716x_v4l2_init().
FreeHdl == << DropIf(R("ctrl")), Drop(R("v4l2")) >>

\* saa716x_subdev_init(): nobody asks whether it found the receiver.
SubdevInit == << Try(R("subdev")) >>

\* saa716x_v4l2_init(). The check is vb2_queue_init().
V4l2Init(undo) ==
  << Get(R("v4l2")), Take(R("ctrl"), FreeHdl \o undo),
     Check({"ok", "fail"}, FreeHdl \o undo),
     Take(R("video"), FreeHdl \o undo) >> \o SubdevInit

\* saa716x_v4l2_exit(): v4l2_device_unregister() takes the receiver along.
V4l2Exit ==
  << Drop(R("video")), Drop(R("ctrl")), DropIf(R("subdev")), Drop(R("v4l2")) >>

\* Disabled by a module parameter, or created and registered.
AlsaInit(undo) ==
  << Step("take", R("alsa"), {}, {"ok", "skip", "fail"}, undo) >>

\* saa716x_make_debugfs(), not looked at: without its file it removes the
\* directory and leaves debugfs_root set.
MakeDebugfs ==
  << Step("take", R("debugfs"), {}, {"ok", "skip", "short"}, <<>>) >>

\* A mutant of CapFail3: the I2C adapters stay.
CapFail3KeepsI2c == Fail2

\* The labels fail3 to fail6 of saa716x_cap_pci_probe().
CapFail3 == I2cExit \o Fail2
CapFail4 == VipExit2 \o CapFail3
CapFail5 == AipExit2 \o CapFail4
CapFail6 == V4l2Exit \o CapFail5

\* saa716x_cap_pci_probe().
CapProbe ==
  << Take(R("dev"), <<>>), Take(R("wq"), Fail1) >> \o CoreInit
  \o VipInit2(CapFail3) \o AipInit2(CapFail4)
  \o V4l2Init(CapFail5) \o AlsaInit(CapFail6) \o MakeDebugfs

\* A mutant of CapRemove: the work queue goes last.
CapRemoveQueueLast ==
  << DropIf(R("debugfs")), Plain("flush", R("wq")), DropIf(R("alsa")) >>
  \o V4l2Exit \o AipExit2 \o VipExit2 \o I2cExit
  \o PciExit \o << Drop(R("dev")), Drop(R("wq")) >>

\* saa716x_cap_pci_remove().
CapRemove ==
  << DropIf(R("debugfs")), Plain("flush", R("wq")), DropIf(R("alsa")) >>
  \o V4l2Exit \o AipExit2 \o VipExit2 \o I2cExit
  \o << Drop(R("wq")) >> \o PciExit \o << Drop(R("dev")) >>

-----------------------------------------------------------------------------
(* DVB adapters; the budget and the hybrid card.                           *)

\* saa716x_fgpi_init(): nobody asks whether its buffers could be had.
FgpiInit(i) == << Blind(<<"fgpi", i>>) >>

\* The labels err0 and err1 of saa716x_dvb_init().
Err0(i, undo) == << Drop(<<"adapter", i>>) >> \o undo
Err1(i, undo) == << Drop(<<"dmx", i>>) >> \o Err0(i, undo)

\* A mutant of Err2: it releases one thing too many.
Err2Early(i, undo) ==
  << Drop(<<"fehw", i>>), Drop(<<"dmxdev", i>>) >> \o Err1(i, undo)

\* Its labels err2, err3, err4 and err6; there is no err5.
Err2(i, undo) == << Drop(<<"dmxdev", i>>) >> \o Err1(i, undo)
Err3(i, undo) == << Drop(<<"fehw", i>>) >> \o Err2(i, undo)
Err4(i, undo) == << Drop(<<"femem", i>>) >> \o Err3(i, undo)
Err6(i, undo) == << DropIf(<<"fe", i>>) >> \o Err4(i, undo)

\* One round of the loop of saa716x_dvb_init(): the frontend and its I2C
\* clients are optional.
AdapterInit(i, undo) ==
  << Take(<<"adapter", i>>, undo),
     Take(<<"dmx", i>>, Err0(i, undo)),
     Take(<<"dmxdev", i>>, Err1(i, undo)),
     Take(<<"fehw", i>>, Err2(i, undo)),
     Take(<<"femem", i>>, Err3(i, undo)),
     Check({"ok", "fail"}, Err4(i, undo)),
     Blind(<<"net", i>>), Try(<<"client", i>>), Try(<<"fe", i>>),
     Step("take", <<"frontend", i>>, {<<"fe", i>>}, {"ok", "fail"},
          Err6(i, undo)) >>
  \o FgpiInit(i) \o << Plain("count", <<"adapter", i>>) >>

DvbInit(undo) ==
  InTurn([n \in 1 .. Adapters |-> AdapterInit(n - 1, undo)])

\* A mutant of AdapterExit: the network interface is forgotten.
AdapterExitKeepsNet(i) ==
  << Drop(<<"fgpi", i>>), DropIf(<<"client", i>>), DropIf(<<"frontend", i>>),
     DropIf(<<"fe", i>>), Drop(<<"femem", i>>),
     Drop(<<"fehw", i>>), Drop(<<"dmxdev", i>>), Drop(<<"dmx", i>>),
     Drop(<<"adapter", i>>), Plain("uncount", <<"adapter", i>>) >>

\* A mutant of AdapterExit: the adapter is counted off twice.
AdapterExitCountsTwice(i) ==
  << Drop(<<"fgpi", i>>), DropIf(<<"client", i>>), DropIf(<<"frontend", i>>),
     DropIf(<<"fe", i>>), Drop(<<"net", i>>), Drop(<<"femem", i>>),
     Drop(<<"fehw", i>>), Drop(<<"dmxdev", i>>), Drop(<<"dmx", i>>),
     Drop(<<"adapter", i>>), Plain("uncount", <<"adapter", i>>),
     Plain("uncount", <<"adapter", i>>) >>

\* One round of the loop of saa716x_dvb_exit().
AdapterExit(i) ==
  << Drop(<<"fgpi", i>>), DropIf(<<"client", i>>), DropIf(<<"frontend", i>>),
     DropIf(<<"fe", i>>), Drop(<<"net", i>>), Drop(<<"femem", i>>),
     Drop(<<"fehw", i>>), Drop(<<"dmxdev", i>>), Drop(<<"dmx", i>>),
     Drop(<<"adapter", i>>), Plain("uncount", <<"adapter", i>>) >>

DvbExit == << Plain("dvb_exit", R("dev")) >>

\* The label fail3 of the budget and the hybrid probe function.
BudgetFail3 == DvbExit \o I2cExit \o Fail2

\* saa716x_budget_pci_probe(); saa716x_hybrid_pci_probe() is the same but
\* for the registers it sets.
BudgetProbe ==
  << Take(R("dev"), <<>>) >> \o CoreInit \o DvbInit(BudgetFail3)
HybridProbe == BudgetProbe

\* saa716x_budget_pci_remove(), saa716x_hybrid_pci_remove().
BudgetRemove == DvbExit \o I2cExit \o PciExit \o << Drop(R("dev")) >>
HybridRemove == BudgetRemove

-----------------------------------------------------------------------------
(* The full-featured card.                                                 *)

\* saa716x_ff_fpga_init(): the bitstream is there and the FPGA takes it.
FpgaInit(undo)   == << Check({"ok", "fail"}, undo) >>
\* saa716x_ff_st7109_init(): loader and firmware are there, and the STi7109
\* asks for each block within a second.
St7109Init(undo) == << Check({"ok", "fail"}, undo) >>

\* saa716x_ir_init() sets ir_priv once all is done.
IrInit(undo) == << Take(R("ir"), undo), Plain("point", R("ir")) >>
IrExit       == << Plain("clear", R("ir")), Drop(R("ir")) >>

\* saa716x_ff_video_init(): the buffers only if video_capture is on.
FfVideoInit ==
  << Try(R("videodev")), Blind(R("fifowq")),
     Step("take", R("vbuf"), {}, {"ok", "skip", "short"}, <<>>) >>

FfVideoExit ==
  << DropIf(R("vbuf")), Drop(R("fifowq")), DropIf(R("videodev")) >>

\* The labels fail3 to fail9 of saa716x_ff_pci_probe(). The video,
\* audio and OSD functions return 0: no jump to fail7 or fail8 is taken.
FfFail3 == I2cExit \o Fail2
FfFail4 == << Drop(R("sti")) >> \o FfFail3
FfFail5 == << Drop(R("iobuf")) >> \o FfFail4
FfFail6 == DvbExit \o FfFail5
FfFail7 == FfVideoExit \o FfFail6
FfFail8 == << DropIf(R("audio")) >> \o FfFail7
FfFail9 == << DropIf(R("osd")) >> \o FfFail8

\* saa716x_ff_pci_probe(). The check is the wait for the STi7109's boot, which
\* a signal ends without an error.
FfProbe ==
  << Take(R("dev"), <<>>) >> \o CoreInit
  \o << TakeQuiet(R("sti"), FfFail3), TakeQuiet(R("iobuf"), FfFail4),
        Plain("point", R("sti")) >>
  \o FpgaInit(FfFail5) \o St7109Init(FfFail5) \o DvbInit(FfFail6)
  \o << Check({"ok", "fail", "quiet"}, FfFail6) >>
  \o FfVideoInit
  \o << Try(R("audio")), Try(R("osd")) >> \o IrInit(FfFail9)

\* saa716x_ff_pci_remove().
FfRemove ==
  IrExit \o << DropIf(R("osd")), DropIf(R("audio")) >>
  \o FfVideoExit \o DvbExit
  \o << Drop(R("iobuf")), Plain("clear", R("sti")), Drop(R("sti")) >>
  \o I2cExit \o PciExit \o << Drop(R("dev")) >>

ProbeSteps  == [cap |-> CapProbe, budget |-> BudgetProbe,
                hybrid |-> HybridProbe, ff |-> FfProbe]
RemoveSteps == [cap |-> CapRemove, budget |-> BudgetRemove,
                hybrid |-> HybridRemove, ff |-> FfRemove]

Init ==
  /\ card \in Cards
  /\ phase = "absent"
  /\ todo = <<>>
  /\ held = {}
  /\ short = {}
  /\ err = FALSE
  /\ num_adapters = 0
  /\ int_type \in IntTypes
  /\ ptr = {}
  /\ handler = {}
  /\ work = "none"
  /\ ignored = 0

-----------------------------------------------------------------------------
(* The driver core. The device structure of each attempt is a new one:     *)
(* what a failed attempt leaked is not seen again, nor what was still to   *)
(* run on the old one.                                                     *)

ProbeCard ==
  /\ phase \in {"absent", "failed"} /\ handler = {}
  /\ phase' = "probing"
  /\ todo' = ProbeSteps[card]
  /\ int_type' \in IntTypes
  /\ held' = {} /\ short' = {} /\ ptr' = {} /\ err' = FALSE
  /\ num_adapters' = 0 /\ ignored' = 0 /\ work' = "none"
  /\ UNCHANGED <<card, handler>>

RemoveCard ==
  /\ phase = "bound"
  /\ phase' = "removing"
  /\ todo' = RemoveSteps[card]
  /\ UNCHANGED <<card, held, short, err, num_adapters, int_type, ptr, handler,
                 work, ignored>>

\* The probe or remove function returns. An error it did not report makes a
\* husk: the driver core takes the device for bound.
Return ==
  /\ phase \in {"probing", "failing", "removing"} /\ todo = <<>>
  /\ phase' = CASE phase = "probing"  -> "bound"
                [] phase = "removing" -> "absent"
                [] phase = "failing"  -> IF err THEN "failed" ELSE "husk"
  /\ UNCHANGED <<card, todo, held, short, err, num_adapters, int_type, ptr,
                 handler, work, ignored>>

\* A husk has no driver data: its remove function would dereference NULL.
Husk == phase = "husk" /\ UNCHANGED vars

-----------------------------------------------------------------------------
(* Probe and remove functions.                                             *)

Taken(step) == step.only \subseteq held \cup short
Doing(op)   == todo # <<>> /\ Head(todo).op = op /\ Taken(Head(todo))

Skip ==
  /\ todo # <<>> /\ ~Taken(Head(todo))
  /\ todo' = Tail(todo)
  /\ UNCHANGED <<card, phase, held, short, err, num_adapters, int_type, ptr,
                 handler, work, ignored>>

\* The code jumps to a label.
Jump(reported) ==
  /\ phase' = "failing"
  /\ todo' = Head(todo).fail
  /\ err' = reported
  /\ UNCHANGED <<short, ignored>>

\* The code goes on.
Continue == todo' = Tail(todo) /\ UNCHANGED <<phase, err>>

Outcome(o) ==
  CASE o = "ok"    -> Continue /\ UNCHANGED <<short, ignored>>
    [] o = "skip"  -> /\ Continue /\ ignored < MaxIgnored
                      /\ ignored' = ignored + 1 /\ short' = short
    [] o = "short" -> /\ Continue /\ ignored < MaxIgnored
                      /\ ignored' = ignored + 1
                      /\ short' = short \cup {Head(todo).res}
    [] o = "fail"  -> Jump(TRUE)
    [] o = "quiet" -> Jump(FALSE)

Acquire ==
  /\ Doing("take")
  /\ \E o \in Head(todo).may :
       /\ Outcome(o)
       /\ held' = IF o = "ok" THEN held \cup {Head(todo).res} ELSE held
  /\ UNCHANGED <<card, num_adapters, int_type, ptr, handler, work>>

CheckStep ==
  /\ Doing("check")
  /\ \E o \in Head(todo).may : Outcome(o)
  /\ UNCHANGED <<card, held, num_adapters, int_type, ptr, handler, work>>

\* saa716x_request_irq() in INTA mode, asked for or fallen back to when MSI
\* or MSI-X cannot be enabled.
RequestInta ==
  /\ Doing("irq")
  /\ int_type' = "inta"
  /\ \/ Outcome("ok") /\ held' = held \cup {R("irq")}
     \/ Outcome("fail") /\ held' = held
  /\ UNCHANGED <<card, num_adapters, ptr, handler, work>>

RequestMsi ==
  /\ Doing("irq") /\ int_type = "msi"
  /\ \/ Outcome("ok") /\ held' = held \cup {R("irq"), R("msi")}
     \/ Outcome("fail") /\ held' = held
  /\ UNCHANGED <<card, num_adapters, int_type, ptr, handler, work>>

\* No driver fills in saa716x_msix_handler[]: the first vector is refused,
\* and MSI-X stays enabled.
RequestMsiX ==
  /\ Doing("irq") /\ int_type = "msix"
  /\ Outcome("fail")
  /\ held' = held \cup {R("msix")}
  /\ UNCHANGED <<card, num_adapters, int_type, ptr, handler, work>>

\* free_irq() waits for the handler, destroy_workqueue() for the work queued.
Release ==
  /\ Doing("drop")
  /\ Head(todo).res = R("irq") => handler = {}
  /\ Head(todo).res = R("wq") => work # "queued"
  /\ held' = held \ {Head(todo).res}
  /\ short' = short \ {Head(todo).res}
  /\ Continue
  /\ UNCHANGED <<card, num_adapters, int_type, ptr, handler, work, ignored>>

\* flush_workqueue().
Flush ==
  /\ Doing("flush") /\ work # "queued"
  /\ Continue
  /\ UNCHANGED <<card, held, short, num_adapters, int_type, ptr, handler, work,
                 ignored>>

\* The loop of saa716x_dvb_exit() runs over the adapters counted so far.
EnterDvbExit ==
  /\ Doing("dvb_exit")
  /\ todo' = InTurn([n \in 1 .. num_adapters |-> AdapterExit(n - 1)])
             \o Tail(todo)
  /\ UNCHANGED <<card, phase, held, short, err, num_adapters, int_type, ptr,
                 handler, work, ignored>>

Count ==
  /\ \/ Doing("count") /\ num_adapters' = num_adapters + 1
     \/ Doing("uncount") /\ num_adapters' = num_adapters - 1
  /\ Continue
  /\ UNCHANGED <<card, held, short, int_type, ptr, handler, work, ignored>>

\* saa716x->priv and saa716x->ir_priv are set, or set to NULL.
SetPointer ==
  /\ \/ Doing("point") /\ ptr' = ptr \cup {Head(todo).res}
     \/ Doing("clear") /\ ptr' = ptr \ {Head(todo).res}
  /\ Continue
  /\ UNCHANGED <<card, held, short, num_adapters, int_type, handler, work,
                 ignored>>

-----------------------------------------------------------------------------
(* The interrupt handler and the receiver's work.                          *)

\* On a shared line it runs whenever it is registered. That of the full-
\* featured card returns at once while priv is NULL.
HandlerEnter ==
  /\ R("irq") \in held /\ handler = {}
  /\ handler' = IF card = "ff"
                THEN {R("dev")} \cup (IF R("sti") \in ptr
                                     THEN {R("sti"), R("mmio")} ELSE {})
                ELSE {R("dev"), R("mmio")}
  /\ UNCHANGED <<card, phase, todo, held, short, err, num_adapters, int_type,
                 ptr, work, ignored>>

\* saa716x_ir_handler() looks at ir_priv.
HandlerIr ==
  /\ R("sti") \in handler /\ R("ir") \in ptr \ handler
  /\ handler' = handler \cup {R("ir")}
  /\ UNCHANGED <<card, phase, todo, held, short, err, num_adapters, int_type,
                 ptr, work, ignored>>

\* The receiver's interrupt, which remove does not mask: queue_work(). On a queue
\* destroyed already the item is lost, or runs at any later time.
HandlerQueue ==
  /\ card = "cap" /\ handler # {} /\ R("wq") \notin handler
  /\ handler' = handler \cup {R("wq")}
  /\ work' \in IF R("wq") \in held THEN {"queued"} ELSE {work, "late"}
  /\ UNCHANGED <<card, phase, todo, held, short, err, num_adapters, int_type,
                 ptr, ignored>>

HandlerLeave ==
  /\ handler # {}
  /\ handler' = {}
  /\ UNCHANGED <<card, phase, todo, held, short, err, num_adapters, int_type,
                 ptr, work, ignored>>

\* saa716x_irq_work_handler() returns.
WorkDone ==
  /\ work # "none"
  /\ work' = "none"
  /\ UNCHANGED <<card, phase, todo, held, short, err, num_adapters, int_type,
                 ptr, handler, ignored>>

Next ==
  \/ ProbeCard \/ RemoveCard \/ Return \/ Husk \/ Skip
  \/ Acquire \/ CheckStep \/ RequestInta \/ RequestMsi \/ RequestMsiX
  \/ Release \/ Flush \/ EnterDvbExit \/ Count \/ SetPointer
  \/ HandlerEnter \/ HandlerIr \/ HandlerQueue \/ HandlerLeave \/ WorkDone

Spec == Init /\ [][Next]_vars

-----------------------------------------------------------------------------

\* Types: probe and remove work on known resources, and the adapters counted
\* are never more than the card has, nor fewer than none.
TypeOK ==
  /\ card \in Cards
  /\ phase \in Phases
  /\ \A n \in DOMAIN todo : todo[n].res \in Resources
  /\ held \subseteq Resources /\ short \subseteq Resources
  /\ err \in BOOLEAN
  /\ num_adapters \in 0 .. Adapters
  /\ int_type \in IntTypes \cup {"inta"}
  /\ ptr \subseteq {R("sti"), R("ir")}
  /\ handler \subseteq Resources
  /\ work \in {"none", "queued", "late"}
  /\ ignored \in 0 .. MaxIgnored

\* What an interrupt handler works on is there while it works: the device
\* structure and the mapped registers on every path through probe, failure
\* and remove (free_irq() comes before iounmap() and kfree()), and everything
\* it touches until remove or a failure label begins. From then on the work
\* queue, the STi7109 structure and the remote control are freed under it.
HandlerHasDevice ==
  /\ handler \ {R("wq"), R("sti"), R("ir")} \subseteq held
  /\ phase \in {"probing", "bound"} => handler \subseteq held

\* Who uses what, by name. The handler schedules the tasklets of the ports and
\* queues work; the work of the capture card is part of its structure and calls
\* the receiver.
CardNeeds ==
  {<<"irq", "mmio">>, <<"irq", "dev">>, <<"mmio", "bar">>, <<"bar", "pci">>,
   <<"msi", "pci">>, <<"drvdata", "dev">>, <<"subdev", "v4l2">>,
   <<"video", "v4l2">>, <<"video", "ctrl">>, <<"video", "vip">>,
   <<"alsa", "aip">>, <<"debugfs", "mmio">>, <<"videodev", "sti">>,
   <<"videodev", "adapter">>, <<"audio", "sti">>, <<"audio", "adapter">>,
   <<"osd", "sti">>, <<"osd", "adapter">>, <<"fifowq", "iobuf">>,
   <<"iobuf", "sti">>, <<"ir", "dev">>, <<"vip", "mmio">>, <<"aip", "mmio">>,
   <<"sti", "mmio">>, <<"irq", "wq">>, <<"irq", "vip">>, <<"irq", "aip">>,
   <<"irq", "sti">>, <<"irq", "ir">>, <<"irq", "fifowq">>, <<"irq", "vbuf">>,
   <<"wq", "dev">>, <<"wq", "subdev">>, <<"videodev", "fifowq">>,
   <<"videodev", "vbuf">>, <<"msix", "pci">>}
\* The same within an adapter: its demux and network node run the FGPI, whose
\* tasklet feeds the demux.
AdapterNeeds ==
  {<<"dmx", "adapter">>, <<"dmxdev", "dmx">>, <<"fehw", "dmx">>,
   <<"femem", "dmx">>, <<"frontend", "fe">>, <<"frontend", "adapter">>,
   <<"frontend", "client">>, <<"fe", "client">>, <<"dmxdev", "fgpi">>,
   <<"net", "fgpi">>, <<"net", "dmx">>, <<"fgpi", "dmx">>}
\* The same of the parts of a DMA buffer.
PartNeeds == {<<"ptab", "page">>, <<"sgmap", "list">>, <<"sgmap", "mem">>}

\* Who uses what: <<user, used>>.
Needs ==
  {<<R(p[1]), R(p[2])>> : p \in CardNeeds}
  \cup {<<<<p[1], i>>, <<p[2], i>>>> : i \in 0 .. Adapters - 1, p \in AdapterNeeds}
  \cup {<<<<p[1], u, n>>, <<p[2], u, n>>>> :
           u \in {"vip", "aip"}, n \in 1 .. DmaBuffers, p \in PartNeeds}
  \cup {<<R(u), <<"ptab", u, n>>>> : u \in {"vip", "aip"}, n \in 1 .. DmaBuffers}
  \cup {<<R("aip"), <<"sgmap", "aip", n>>>> : n \in 1 .. DmaBuffers}
  \cup {<<R("irq"), <<"fgpi", i>>>> : i \in 0 .. Adapters - 1}
  \cup {<<<<"fgpi", i>>, R("mmio")>> : i \in 0 .. Adapters - 1}
  \cup {<<<<"i2c", b>>, R("mmio")>> : b \in {0, 1}}
  \cup {<<<<u, i>>, <<"i2c", b>>>> :
           u \in {"fe", "client"}, i \in 0 .. Adapters - 1, b \in {0, 1}}
  \cup {<<R("subdev"), <<"i2c", 0>>>>}

\* Where the code has the order wrong, by the names of user and used:
\*  - the handler is requested before what it schedules, tasklets, queues and
\*    private structures (the receiver's queue alone is there before it), and is
\*    freed after all of it;
\*  - the receiver goes before the queue its work runs on;
\*  - demux and network node of an adapter come before its FGPI and go after it;
\*  - the I2C clients of a frontend go before it;
\*  - the video node of the full-featured card comes before the queue and the
\*    buffers it uses, and goes after them;
\*  - the labels forget the queue, the network interface, the I2C clients and
\*    MSI-X, which outlive the structure, the demux, the adapter and the device.
Misordered ==
  ({"irq"} \X {"wq", "vip", "aip", "fgpi", "sti", "ir", "fifowq", "vbuf"})
  \cup {<<"wq", "subdev">>, <<"dmxdev", "fgpi">>, <<"net", "fgpi">>,
        <<"frontend", "client">>, <<"fe", "client">>, <<"videodev", "fifowq">>,
        <<"videodev", "vbuf">>, <<"wq", "dev">>, <<"net", "dmx">>,
        <<"client", "i2c">>, <<"msix", "pci">>}
OutOfOrder == {p \in Needs : <<p[1][1], p[2][1]>> \in Misordered}

\* But for the pairs above, nothing outlives what it uses and nothing is offered
\* before it can work: buses, nodes, adapters and the handler are registered
\* after and removed before the buffers, buses and registers they use, on every
\* path through probe, failure labels and remove.
UsersGoFirst == \A p \in Needs \ OutOfOrder : p[1] \in held => p[2] \in held

\* No label and no remove function frees what is not there: each ladder is
\* entered at the rung that fits, and saa716x_dvb_exit() stops at the
\* adapters that came up. Excepted are failures the code chose to ignore.
ReleasedOnce == Doing("drop") => Head(todo).res \in held \cup short

\* What the labels of the probe functions forget: the work queue, the network
\* interface and the I2C clients of an adapter whose frontend cannot be registered,
\* MSI-X, and DMA buffers of the one unit whose initialisation failed: those before
\* the failure whole, of the failed one the page or the list.
Forgotten(S) ==
  /\ \A r \in S : r[1] \in {"wq", "net", "client", "msix"} \cup Parts
  /\ \E unit \in {"vip", "aip"} : \A n \in 1 .. DmaBuffers :
       LET left(u) == {p \in Parts : <<p, u, n>> \in S} IN
       /\ \A u \in {"vip", "aip"} \ {unit} : left(u) = {}
       /\ left(unit) \in {{}, {"page"}, {"list"},
                         IF unit = "vip" THEN {"page", "ptab"} ELSE Parts}

\* Remove gives everything back. A failed probe gives all back but what its
\* labels forget.
ReturnsAll ==
  /\ phase = "absent" => held = {} /\ ptr = {}
  /\ phase \in {"failed", "husk"} => Forgotten(held)

\* While the card is removed the receiver's work never runs from its queue on the
\* freed structure, for destroy_workqueue() drains the queue before kfree().
\* Excepted is work put on the destroyed queue: free_irq(), which alone keeps the
\* handler from queueing, comes after destroy_workqueue(). There is such work only
\* once the queue is gone, never while the card is probed or bound. (The labels
\* of the probe function do not drain the queue.)
ReceiverWork ==
  /\ work = "queued" /\ phase \notin {"failing", "failed"} =>
       {R("dev"), R("wq")} \subseteq held
  /\ work = "late" => R("wq") \notin held /\ phase \notin {"probing", "bound"}
=============================================================================
