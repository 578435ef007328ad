------------------------------ MODULE StiData -------------------------------
(***************************************************************************)
(* The data channel of the full-featured card: sti7109_raw_data() sends a  *)
(* piece of data to the STi7109 in blocks, through a buffer of two halves. *)
(* While the firmware reads one half the driver fills the other. A block   *)
(* the firmware does not report done within a second cancels the transfer. *)
(*                                                                         *)
(* Callers hold data_lock for the whole call. The interrupt handler runs   *)
(* on another CPU beside the call.                                         *)
(***************************************************************************)
EXTENDS Integers

CONSTANTS MaxBlocks,   \* bound: blocks of a transfer (147 at MAX_DATA_LEN)
          HandleWrap,  \* values of data_handle (2^16)
          Transfers,   \* bound: identities of transfers, reused in turn
          NoTransfer   \* the identity of no transfer

ASSUME MaxBlocksAssumption == MaxBlocks \in Nat \ {0}
ASSUME HandleWrapAssumption == HandleWrap \in Nat \ {0}
ASSUME TransfersAssumption == Transfers # {} /\ NoTransfer \notin Transfers

VARIABLES
  call,            \* where the call that holds data_lock stands
  transfer,        \* the identity of the call's data
  numBlocks, blockIndex,         \* locals of sti7109_do_raw_data()
  data_handle,     \* sti7109_dev's handle for the next data
  data_ready, block_done,        \* sti7109_dev's flags
  half,            \* the block in each half at ADDR_BLOCK_DATA
  iset,            \* FPGA_ADDR_PHI_ISET: signals to the firmware
  emi_isr,         \* FPGA_ADDR_EMI_ISR: signals to the driver
  irq,             \* where saa716x_ff_pci_irq() stands
  phiISR,          \* local of saa716x_ff_pci_irq()
  fw,              \* what the firmware does
  fwNext,          \* the index of the block the firmware waits for or reads
  fwOf,            \* the data whose first fwNext blocks the firmware has
  stored,          \* the data the firmware has received last, complete
  answer,          \* history: the handle the last call returned, if any
  lost,            \* history: a signal was acknowledged before it was seen
  late,            \* history: a transfer the firmware had finished was cancelled
  empty            \* history: a call without a block took the answer to another

dataVars == <<transfer, numBlocks, blockIndex, data_handle, answer>>
callVars == <<call, dataVars>>
flagVars == <<data_ready, block_done>>
irqVars  == <<irq, phiISR>>
fwVars   == <<fw, fwNext, fwOf, stored>>
history  == <<lost, late, empty>>
vars == <<call, transfer, numBlocks, blockIndex, data_handle, data_ready,
          block_done, half, iset, emi_isr, irq, phiISR, fw, fwNext, fwOf,
          stored, answer, lost, late, empty>>

Signals     == {"BLOCK", "DATA"}
AnyTransfer == Transfers \cup {NoTransfer}
Handles     == 0 .. HandleWrap - 1
Data        == [of : AnyTransfer, handle : Handles]
NoData      == [of |-> NoTransfer, handle |-> 0]
NoHandle    == -1
Blocks      == [data : Data, index : 0 .. MaxBlocks - 1, num : 0 .. MaxBlocks]
CallStates  == {"idle", "ready", "write", "wait", "raise", "final"}
IrqStates   == {"idle", "block", "ackBlock", "data", "ackData"}
FwStates    == {"boot", "idle", "read", "finish"}

\* activeBlock: the half a block goes through.
Active(i) == i % 2

Init ==
  /\ call = "idle"
  /\ transfer = NoTransfer
  /\ numBlocks = 0
  /\ blockIndex = 0
  /\ data_handle = 0
  /\ data_ready = 0
  /\ block_done = 0
  /\ half = [h \in 0 .. 1 |-> [data |-> NoData, index |-> 0, num |-> 0]]
  /\ iset = {}
  /\ emi_isr = {}
  /\ irq = "idle"
  /\ phiISR = {}
  /\ fw = "boot"
  /\ fwNext = 0
  /\ fwOf = NoData
  /\ stored = NoData
  /\ answer = NoHandle
  /\ lost = FALSE
  /\ late = FALSE
  /\ empty = FALSE

-----------------------------------------------------------------------------
(* The call.                                                               *)

\* sti7109_raw_data() with data of n blocks; no data is no block.
RawData(t, n) ==
  /\ call = "idle"
  /\ t # transfer
  /\ call' = "ready"
  /\ transfer' = t
  /\ numBlocks' = n
  /\ blockIndex' = 0
  /\ answer' = NoHandle
  /\ UNCHANGED <<data_handle, flagVars, half, iset, emi_isr, irqVars, fwVars,
                 history>>

\* Time-out or signal while waiting for data_ready.
ReadyTimeout ==
  /\ call = "ready" /\ data_ready = 0
  /\ call' = "idle"
  /\ UNCHANGED <<dataVars, flagVars, half, iset, emi_isr, irqVars, fwVars,
                 history>>

Ready ==
  /\ call = "ready" /\ data_ready = 1
  /\ data_ready' = 0
  /\ call' = IF numBlocks = 0 THEN "final" ELSE "write"
  /\ UNCHANGED <<dataVars, block_done, half, iset, emi_isr, irqVars, fwVars,
                 history>>

\* A mutant of Write: no block waits for the one before it.
WriteNoWait ==
  /\ call = "write"
  /\ half' = [half EXCEPT ![Active(blockIndex)] =
                [data  |-> [of |-> transfer, handle |-> data_handle],
                 index |-> blockIndex, num |-> numBlocks]]
  /\ call' = "raise"
  /\ UNCHANGED <<dataVars, flagVars, iset, emi_isr, irqVars, fwVars, history>>

\* Header and data of a block go into the half that is not being read. Every
\* block but the first then waits for the one before it.
Write ==
  /\ call = "write"
  /\ half' = [half EXCEPT ![Active(blockIndex)] =
                [data  |-> [of |-> transfer, handle |-> data_handle],
                 index |-> blockIndex, num |-> numBlocks]]
  /\ call' = IF blockIndex > 0 THEN "wait" ELSE "raise"
  /\ UNCHANGED <<dataVars, flagVars, iset, emi_isr, irqVars, fwVars, history>>

\* The firmware is done with the block before.
BlockDone ==
  /\ call = "wait" /\ block_done = 1
  /\ call' = "raise"
  /\ UNCHANGED <<dataVars, flagVars, half, iset, emi_isr, irqVars, fwVars,
                 history>>

\* A mutant of Raise: block_done is not reset.
RaiseKeepsDone ==
  /\ call = "raise"
  /\ iset' = iset \cup {"BLOCK"}
  /\ blockIndex' = blockIndex + 1
  /\ call' = IF blockIndex + 1 = numBlocks THEN "final" ELSE "write"
  /\ UNCHANGED <<transfer, numBlocks, data_handle, answer, flagVars, half,
                 emi_isr, irqVars, fwVars, history>>

\* A mutant of Raise: one block too many.
RaiseOneMore ==
  /\ call = "raise"
  /\ block_done' = 0
  /\ iset' = iset \cup {"BLOCK"}
  /\ blockIndex' = blockIndex + 1
  /\ call' = IF blockIndex = numBlocks THEN "final" ELSE "write"
  /\ UNCHANGED <<transfer, numBlocks, data_handle, answer, data_ready, half,
                 emi_isr, irqVars, fwVars, history>>

\* block_done = 0 and the interrupt to the firmware.
Raise ==
  /\ call = "raise"
  /\ block_done' = 0
  /\ iset' = iset \cup {"BLOCK"}
  /\ blockIndex' = blockIndex + 1
  /\ call' = IF blockIndex + 1 = numBlocks THEN "final" ELSE "write"
  /\ UNCHANGED <<transfer, numBlocks, data_handle, answer, data_ready, half,
                 emi_isr, irqVars, fwVars, history>>

\* The firmware has all the blocks signalled to it.
Finished == fw = "finish" \/ (fw = "idle" /\ fwNext = 0 /\ "BLOCK" \notin iset)

\* A mutant of BlockTimeout: the firmware is not told.
BlockTimeoutSilent ==
  /\ call \in {"wait", "final"} /\ block_done = 0
  /\ call' = "idle"
  /\ UNCHANGED <<dataVars, flagVars, half, iset, emi_isr, irqVars, fwVars,
                 history>>

\* A block is not done in time: "send a data interrupt to cancel the transfer".
BlockTimeout ==
  /\ call \in {"wait", "final"} /\ block_done = 0
  /\ iset' = iset \cup {"DATA"}
  /\ call' = "idle"
  /\ late' = (late \/ (numBlocks > 0 /\ Finished))
  /\ UNCHANGED <<dataVars, flagVars, half, emi_isr, irqVars, fwVars, lost,
                 empty>>

\* The last block is done.
Finish ==
  /\ call = "final" /\ block_done = 1
  /\ block_done' = 0
  /\ call' = "idle"
  /\ answer' = data_handle
  /\ data_handle' = (data_handle + 1) % HandleWrap
  /\ empty' = (empty \/ numBlocks = 0)
  /\ UNCHANGED <<transfer, numBlocks, blockIndex, data_ready, half, iset,
                 emi_isr, irqVars, fwVars, lost, late>>

-----------------------------------------------------------------------------
(* The interrupt handler, EXTINT_0 part, for the bits of this channel.     *)

IrqEnter ==
  /\ irq = "idle" /\ emi_isr # {}
  /\ phiISR' = emi_isr
  /\ irq' = IF "BLOCK" \in emi_isr THEN "block" ELSE "data"
  /\ UNCHANGED <<callVars, flagVars, half, iset, emi_isr, fwVars, history>>

IrqBlock ==
  /\ irq = "block"
  /\ block_done' = 1
  /\ irq' = "ackBlock"
  /\ UNCHANGED <<callVars, data_ready, half, iset, emi_isr, phiISR, fwVars,
                 history>>

IrqAckBlock ==
  /\ irq = "ackBlock"
  /\ emi_isr' = emi_isr \ {"BLOCK"}
  /\ phiISR' = phiISR \ {"BLOCK"}
  /\ irq' = IF "DATA" \in phiISR THEN "data" ELSE "idle"
  /\ UNCHANGED <<callVars, flagVars, half, iset, fwVars, history>>

IrqData ==
  /\ irq = "data"
  /\ data_ready' = 1
  /\ irq' = "ackData"
  /\ UNCHANGED <<callVars, block_done, half, iset, emi_isr, phiISR, fwVars,
                 history>>

IrqAckData ==
  /\ irq = "ackData"
  /\ emi_isr' = emi_isr \ {"DATA"}
  /\ phiISR' = phiISR \ {"DATA"}
  /\ irq' = "idle"
  /\ UNCHANGED <<callVars, flagVars, half, iset, fwVars, history>>

-----------------------------------------------------------------------------
(* The firmware (external), as the driver relies on it.                    *)

\* The firmware signals s to the driver.
FwSignal(s) ==
  /\ emi_isr' = emi_isr \cup {s}
  /\ lost' = (lost \/ irq = (IF s = "BLOCK" THEN "ackBlock" ELSE "ackData"))

FwBoot ==
  /\ fw = "boot"
  /\ FwSignal("DATA")
  /\ fw' = "idle"
  /\ UNCHANGED <<callVars, flagVars, half, iset, irqVars, fwNext, fwOf,
                 stored, late, empty>>

\* It starts to read the half whose turn it is, unless there is something to
\* cancel ...
FwRead ==
  /\ fw = "idle" /\ "BLOCK" \in iset /\ "DATA" \notin iset
  /\ iset' = iset \ {"BLOCK"}
  /\ fw' = "read"
  /\ UNCHANGED <<callVars, flagVars, half, emi_isr, irqVars, fwNext, fwOf,
                 stored, history>>

\* ... and is done with it. The header tells which block it is, and whether it
\* is the last.
FwDone ==
  LET b     == half[Active(fwNext)]
      inRow == b.index = fwNext /\ (fwNext > 0 => b.data = fwOf)
      last  == b.index = b.num - 1
  IN  /\ fw = "read"
      /\ FwSignal("BLOCK")
      /\ fw' = IF last THEN "finish" ELSE "idle"
      /\ fwNext' = IF last \/ fwNext = MaxBlocks - 1 THEN 0 ELSE fwNext + 1
      /\ fwOf' = IF inRow THEN b.data ELSE NoData
      /\ stored' = IF ~last THEN stored ELSE IF inRow THEN b.data ELSE NoData
      /\ UNCHANGED <<callVars, flagVars, half, iset, irqVars, late, empty>>

FwFinish ==
  /\ fw = "finish"
  /\ FwSignal("DATA")
  /\ fw' = "idle"
  /\ late' = (late \/ "DATA" \in iset)
  /\ UNCHANGED <<callVars, flagVars, half, iset, irqVars, fwNext, fwOf,
                 stored, empty>>

\* A data interrupt from the driver: whatever was going on is dropped.
FwCancel ==
  /\ "DATA" \in iset /\ fw # "boot"
  /\ iset' = {}
  /\ FwSignal("DATA")
  /\ fw' = "idle"
  /\ fwNext' = 0
  /\ fwOf' = NoData
  /\ UNCHANGED <<callVars, flagVars, half, irqVars, stored, late, empty>>

-----------------------------------------------------------------------------
Caller ==
  \/ \E t \in Transfers, n \in 0 .. MaxBlocks : RawData(t, n)
  \/ ReadyTimeout \/ Ready \/ Write \/ BlockDone \/ Raise \/ BlockTimeout
  \/ Finish

Irq == IrqEnter \/ IrqBlock \/ IrqAckBlock \/ IrqData \/ IrqAckData

Firmware == FwBoot \/ FwRead \/ FwDone \/ FwFinish \/ FwCancel

Next == Caller \/ Irq \/ Firmware

Spec == Init /\ [][Next]_vars

-----------------------------------------------------------------------------
(* Properties.                                                             *)

TypeOK ==
  /\ call \in CallStates
  /\ transfer \in AnyTransfer
  /\ numBlocks \in 0 .. MaxBlocks
  /\ blockIndex \in 0 .. MaxBlocks
  /\ data_ready \in {0, 1}
  /\ block_done \in {0, 1}
  /\ half \in [0 .. 1 -> Blocks]
  /\ iset \in SUBSET Signals
  /\ emi_isr \in SUBSET Signals
  /\ irq \in IrqStates
  /\ phiISR \in SUBSET Signals
  /\ fw \in FwStates
  /\ fwNext \in 0 .. MaxBlocks - 1
  /\ fwOf \in Data
  /\ stored \in Data
  /\ data_handle \in Handles
  /\ answer \in Handles \cup {NoHandle}
  /\ lost \in BOOLEAN
  /\ late \in BOOLEAN
  /\ empty \in BOOLEAN

\* The half a block is about to be written to is not the one the firmware reads
\* or has been told to read.
HalfFree ==
  ~late /\ call = "write" =>
    Active(blockIndex) # Active(fwNext) \/ (fw # "read" /\ "BLOCK" \notin iset)

\* A call that sent data and returns a handle has got all of the data to the
\* firmware under that handle, in order, with nothing from another transfer in
\* between.
StoredWhole ==
  ~late /\ answer # NoHandle /\ numBlocks > 0 =>
    stored = [of |-> transfer, handle |-> answer]

\* The channel does not wedge: when no transfer is under way and the firmware
\* has nothing to do, a DATA signal is there for the next call.
DataNotLost ==
  /\ call \in {"idle", "ready"} /\ fw = "idle" /\ iset = {}
  /\ ~lost /\ ~late /\ ~empty
  => data_ready = 1 \/ "DATA" \in emi_isr

=============================================================================
