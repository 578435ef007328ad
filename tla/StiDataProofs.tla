--------------------------- MODULE StiDataProofs ----------------------------
(***************************************************************************)
(* Theorems about the data channel, for every number of blocks, every      *)
(* width of the handle and every set of transfers.                         *)
(***************************************************************************)
EXTENDS StiData, TLAPS

-----------------------------------------------------------------------------
(* The inductive invariant. Each of the two signals to the driver is a     *)
(* token: BLOCK for the one block the firmware may be working on, DATA for *)
(* the right to send.                                                      *)

\* The loop over the blocks.
LoopInv ==
  /\ call = "ready" => blockIndex = 0
  /\ call \in {"write", "wait", "raise"} => blockIndex < numBlocks

TypeInv == TypeOK /\ LoopInv

\* A signal the handler has not acted upon yet.
BlockPending == "BLOCK" \in emi_isr /\ irq # "ackBlock"
DataPending  == "DATA" \in emi_isr /\ irq # "ackData"

\* The firmware has nothing to do.
AtRest == fw = "idle" /\ fwNext = 0 /\ iset = {}

\* The DATA token is not with the driver.
NoToken == data_ready = 0 /\ ~DataPending

Busy == call \in {"write", "wait", "raise", "final"}

\* The data of the call, and its block i.
Sent     == [of |-> transfer, handle |-> data_handle]
Block(i) == [data |-> Sent, index |-> i, num |-> numBlocks]

\* Signals are handled BLOCK first and are kept until they are acknowledged.
IrqInv ==
  /\ irq \in {"block", "ackBlock"} => "BLOCK" \in emi_isr
  /\ irq \in {"data", "ackData"} => "DATA" \in emi_isr
  /\ irq \in {"block", "ackBlock"} /\ "DATA" \in phiISR => "DATA" \in emi_isr
  /\ irq = "data" => "BLOCK" \notin emi_isr

\* The right to send is with the driver only while the firmware rests and all
\* its earlier BLOCK signals have been seen.
TokenInv ==
  data_ready = 1 => AtRest /\ "BLOCK" \notin emi_isr /\ ~DataPending

\* Where a call that has the right to send stands.
CallInv ==
  /\ (call = "ready" \/ Busy) => answer = NoHandle
  /\ Busy /\ numBlocks = 0 => call = "final" /\ blockIndex = 0
  /\ call = "final" => blockIndex = numBlocks
  /\ call = "wait" => blockIndex > 0
  /\ call \in {"wait", "raise"} => half[Active(blockIndex)] = Block(blockIndex)

\* Nothing has been signalled to the firmware yet ...
NoneRaised == AtRest /\ NoToken /\ ~BlockPending

\* ... or the last block signalled is before it or in its hands ...
WithFirmware ==
  /\ NoToken /\ ~BlockPending /\ block_done = 0
  /\ fwNext = blockIndex - 1
  /\ (fw = "idle" /\ iset = {"BLOCK"}) \/ (fw = "read" /\ iset = {})
  /\ half[Active(fwNext)] = Block(fwNext)
  /\ fwNext > 0 => fwOf = Sent

\* ... or it is done with it, and with the whole transfer if that was the last.
DoneWith ==
  /\ iset = {}
  /\ block_done = 1 => ~BlockPending
  /\ IF blockIndex < numBlocks
     THEN NoToken /\ fw = "idle" /\ fwNext = blockIndex /\ fwOf = Sent
     ELSE /\ fwNext = 0 /\ stored = Sent
          /\ fw = "idle" \/ (fw = "finish" /\ NoToken)

BusyInv ==
  Busy => /\ blockIndex = 0 => NoneRaised
          /\ blockIndex > 0 => WithFirmware \/ DoneWith
          /\ call = "raise" /\ blockIndex > 0 => DoneWith /\ block_done = 1

\* Between calls: after boot, after a cancelled call, after a complete one.
RestInv ==
  ~Busy => /\ fw = "boot" => iset = {} /\ fwNext = 0 /\ NoToken
           /\ fw = "finish" /\ iset = {} => fwNext = 0 /\ NoToken
           /\ "DATA" \in iset => NoToken /\ answer = NoHandle
           /\ (fw = "read" \/ "BLOCK" \in iset \/ fwNext # 0) => "DATA" \in iset
           /\ answer # NoHandle /\ numBlocks > 0 =>
                stored = [of |-> transfer, handle |-> answer]

\* The right to send is not lost.
KeptInv ==
  /\ ~lost /\ ~empty /\ AtRest
  /\ (~Busy \/ (call = "final" /\ numBlocks > 0))
  => data_ready = 1 \/ DataPending

ChannelInv ==
  /\ TypeInv
  /\ ~late => IrqInv /\ TokenInv /\ CallInv /\ BusyInv /\ RestInv /\ KeptInv

-----------------------------------------------------------------------------
(* Types.                                                                  *)

\* Two blocks in a row go through different halves.
LEMMA ActiveHalf ==
  ASSUME NEW i \in Nat
  PROVE  Active(i) \in 0 .. 1 /\ Active(i + 1) # Active(i)
BY DEF Active

\* The types hold at the start.
LEMMA TypeInit == Init => TypeInv
<1> SUFFICES ASSUME Init PROVE TypeInv
  OBVIOUS
<1> USE DEF Init
<1>1. NoData \in Data /\ 0 \in 0 .. MaxBlocks - 1 /\ 0 \in Handles
  BY MaxBlocksAssumption, HandleWrapAssumption DEF NoData, Data, Handles, AnyTransfer
<1>2. half \in [0 .. 1 -> Blocks]
  BY <1>1, MaxBlocksAssumption DEF Blocks
<1>3. LoopInv
  BY DEF LoopInv
<1>4. /\ call \in CallStates /\ irq \in IrqStates /\ fw \in FwStates
      /\ transfer \in AnyTransfer /\ answer \in Handles \cup {NoHandle}
      /\ data_handle \in Handles /\ fwOf \in Data /\ stored \in Data
  BY <1>1 DEF CallStates, IrqStates, FwStates, AnyTransfer
<1>5. /\ numBlocks \in 0 .. MaxBlocks /\ blockIndex \in 0 .. MaxBlocks
      /\ fwNext \in 0 .. MaxBlocks - 1
  BY <1>1, MaxBlocksAssumption
<1>6. /\ iset \in SUBSET Signals /\ emi_isr \in SUBSET Signals /\ phiISR \in SUBSET Signals
      /\ data_ready \in {0, 1} /\ block_done \in {0, 1}
      /\ lost \in BOOLEAN /\ late \in BOOLEAN /\ empty \in BOOLEAN
  OBVIOUS
<1> QED
  BY <1>2, <1>3, <1>4, <1>5, <1>6 DEF TypeInv, TypeOK

\* A caller's steps keep the types.
LEMMA TypeCaller == TypeInv /\ Caller => TypeInv'
<1> SUFFICES ASSUME TypeInv, Caller PROVE TypeInv'
  OBVIOUS
<1> USE DEF TypeInv, LoopInv, TypeOK, flagVars, irqVars, fwVars, history, dataVars, callVars
<1> USE MaxBlocksAssumption, HandleWrapAssumption
<1>1. ASSUME NEW t \in Transfers, NEW n \in 0 .. MaxBlocks, RawData(t, n)
      PROVE  TypeInv'
  BY <1>1 DEF RawData, CallStates, AnyTransfer
<1>2. CASE ReadyTimeout \/ Ready \/ BlockDone
  BY <1>2 DEF ReadyTimeout, Ready, BlockDone, CallStates
<1>3. CASE Write
  <2>1. [data |-> Sent, index |-> blockIndex, num |-> numBlocks] \in Blocks
    BY <1>3 DEF Write, Sent, Data, Blocks
  <2>2. half' \in [0 .. 1 -> Blocks]
    BY <1>3, <2>1 DEF Write, Sent
  <2>3. call' \in {"wait", "raise"} /\ call = "write"
    BY <1>3 DEF Write
  <2> QED
    BY <1>3, <2>2, <2>3 DEF Write, CallStates
<1>4. CASE Raise
  BY <1>4 DEF Raise, CallStates, Signals
<1>5. CASE BlockTimeout
  BY <1>5 DEF BlockTimeout, CallStates, Signals
<1>6. CASE Finish
  BY <1>6 DEF Finish, CallStates, Handles
<1> QED
  BY <1>1, <1>2, <1>3, <1>4, <1>5, <1>6 DEF Caller

\* The interrupt handler keeps them.
LEMMA TypeIrq == TypeInv /\ Irq => TypeInv'
<1> SUFFICES ASSUME TypeInv, Irq PROVE TypeInv'
  OBVIOUS
<1> QED
  BY DEF TypeInv, LoopInv, TypeOK, Irq, IrqEnter, IrqBlock, IrqAckBlock, IrqData, IrqAckData,
         IrqStates, flagVars, fwVars, history, dataVars, callVars

\* The firmware keeps them.
LEMMA TypeFirmware == TypeInv /\ Firmware => TypeInv'
<1> SUFFICES ASSUME TypeInv, Firmware PROVE TypeInv'
  OBVIOUS
<1> USE DEF TypeInv, LoopInv, TypeOK, flagVars, irqVars, history, dataVars, callVars,
            FwStates, Signals
<1>1. NoData \in Data
  BY HandleWrapAssumption DEF NoData, Data, AnyTransfer, Handles
<1>2. CASE FwBoot \/ FwRead \/ FwFinish
  BY <1>2 DEF FwBoot, FwRead, FwFinish, FwSignal
<1>3. CASE FwCancel
  BY <1>1, <1>3, MaxBlocksAssumption DEF FwCancel, FwSignal
<1>4. CASE FwDone
  <2>1. half[Active(fwNext)] \in Blocks
    BY ActiveHalf
  <2> QED
    BY <1>1, <1>4, <2>1, MaxBlocksAssumption DEF FwDone, FwSignal, Blocks
<1> QED
  BY <1>2, <1>3, <1>4 DEF Firmware

\* Every step keeps them.
LEMMA TypeStep == TypeInv /\ [Next]_vars => TypeInv'
<1>1. TypeInv /\ UNCHANGED vars => TypeInv'
  BY DEF TypeInv, LoopInv, TypeOK, vars
<1> QED
  BY <1>1, TypeCaller, TypeIrq, TypeFirmware DEF Next

\* Every variable of the data channel keeps its type.
THEOREM TypeCorrect == Spec => []TypeOK
<1>1. TypeInv => TypeOK
  BY DEF TypeInv
<1> QED
  BY <1>1, TypeInit, TypeStep, PTL DEF Spec

-----------------------------------------------------------------------------
(* The tokens, action by action.                                           *)

\* "late" is never taken back.
LEMMA LateStep == [Next]_vars /\ ~late' => ~late
<1> USE DEF history, vars
<1>1. ASSUME NEW t \in Transfers, NEW n \in 0 .. MaxBlocks, RawData(t, n)
      PROVE  late' = late
  BY <1>1 DEF RawData
<1>2. Caller /\ ~late' => ~late
  BY <1>1 DEF Caller, ReadyTimeout, Ready, Write, BlockDone, Raise, BlockTimeout, Finish
<1>3. (Irq \/ Firmware) /\ ~late' => ~late
  BY DEF Irq, IrqEnter, IrqBlock, IrqAckBlock, IrqData, IrqAckData, Firmware, FwBoot,
         FwRead, FwDone, FwFinish, FwCancel
<1> QED
  BY <1>2, <1>3 DEF Next

Channel == IrqInv /\ TokenInv /\ CallInv /\ BusyInv /\ RestInv /\ KeptInv

\* A caller writes and signals only what is its own to write and to signal.
LEMMA CallerStep ==
  ASSUME TypeInv, TypeInv', Channel, ~late, ~late', Caller
  PROVE  Channel'
<1> USE DEF TypeInv, LoopInv, TypeOK, flagVars, irqVars, fwVars, history, dataVars,
            callVars, Channel, BlockPending, DataPending, AtRest, NoToken, Busy
<1>0. UNCHANGED <<emi_isr, irq, phiISR, fw, fwNext, fwOf, stored, lost>>
  <2>1. ASSUME NEW t \in Transfers, NEW n \in 0 .. MaxBlocks, RawData(t, n)
        PROVE  UNCHANGED <<emi_isr, irq, phiISR, fw, fwNext, fwOf, stored, lost>>
    BY <2>1 DEF RawData
  <2> QED
    BY <2>1 DEF Caller, ReadyTimeout, Ready, Write, BlockDone, Raise, BlockTimeout, Finish
<1>i. IrqInv'
  BY <1>0 DEF IrqInv
<1>1. ASSUME NEW t \in Transfers, NEW n \in 0 .. MaxBlocks, RawData(t, n)
      PROVE  Channel'
  BY <1>0, <1>i, <1>1 DEF RawData, TokenInv, CallInv, BusyInv, RestInv, KeptInv
<1>2. CASE ReadyTimeout
  BY <1>0, <1>i, <1>2 DEF ReadyTimeout, TokenInv, CallInv, BusyInv, RestInv, KeptInv
<1>3. CASE Ready
  <2>1. AtRest' /\ NoToken' /\ ~BlockPending'
    BY <1>0, <1>3 DEF Ready, TokenInv
  <2> QED
    BY <1>0, <1>i, <1>3, <2>1 DEF Ready, TokenInv, CallInv, BusyInv, NoneRaised, RestInv, KeptInv
<1>4. CASE Write
  <2>1. /\ half' = [half EXCEPT ![Active(blockIndex)] = Block(blockIndex)]
        /\ call = "write" /\ call' = IF blockIndex > 0 THEN "wait" ELSE "raise"
        /\ UNCHANGED <<transfer, numBlocks, blockIndex, data_handle, answer, data_ready,
                       block_done, iset, late, empty>>
    BY <1>4 DEF Write, Block, Sent
  <2>2. half'[Active(blockIndex)] = Block(blockIndex)
    BY <2>1, ActiveHalf
  <2>3. WithFirmware => WithFirmware'
    <3>1. ASSUME WithFirmware PROVE half'[Active(fwNext)] = half[Active(fwNext)]
      BY <2>1, <3>1, ActiveHalf DEF WithFirmware
    <3> QED
      BY <1>0, <2>1, <3>1 DEF WithFirmware, Block, Sent
  <2>4. /\ NoneRaised => NoneRaised'
        /\ DoneWith => DoneWith'
    BY <1>0, <2>1 DEF NoneRaised, DoneWith, Sent
  <2> QED
    BY <1>0, <1>i, <2>1, <2>2, <2>3, <2>4
       DEF TokenInv, CallInv, BusyInv, RestInv, KeptInv, Block, Sent
<1>5. CASE BlockDone
  BY <1>0, <1>i, <1>5
     DEF BlockDone, TokenInv, CallInv, BusyInv, WithFirmware, DoneWith, RestInv, KeptInv,
         Block, Sent
<1>6. CASE Raise
  <2>1. /\ call = "raise" /\ call' = IF blockIndex + 1 = numBlocks THEN "final" ELSE "write"
        /\ block_done' = 0 /\ iset' = iset \cup {"BLOCK"} /\ blockIndex' = blockIndex + 1
        /\ UNCHANGED <<transfer, numBlocks, data_handle, answer, data_ready, half, late, empty>>
    BY <1>6 DEF Raise
  <2>2. /\ blockIndex < numBlocks /\ blockIndex \in Nat
        /\ fw = "idle" /\ iset = {} /\ fwNext = blockIndex
        /\ NoToken /\ ~BlockPending /\ (fwNext > 0 => fwOf = Sent)
    BY <2>1 DEF BusyInv, NoneRaised, DoneWith
  <2>3. WithFirmware'
    BY <1>0, <2>1, <2>2 DEF WithFirmware, CallInv, Block, Sent
  <2> QED
    BY <1>0, <1>i, <2>1, <2>2, <2>3 DEF TokenInv, CallInv, BusyInv, RestInv, KeptInv
<1>7. CASE BlockTimeout
  <2>1. /\ call \in {"wait", "final"} /\ block_done = 0 /\ iset' = iset \cup {"DATA"}
        /\ call' = "idle" /\ ~(numBlocks > 0 /\ Finished)
        /\ UNCHANGED <<transfer, numBlocks, blockIndex, data_handle, answer, data_ready,
                       block_done, half, empty>>
    BY <1>7 DEF BlockTimeout
  <2>2. NoToken /\ fw # "boot"
    BY <2>1 DEF BusyInv, NoneRaised, WithFirmware, DoneWith, Finished, CallInv
  <2> QED
    BY <1>0, <1>i, <2>1, <2>2 DEF TokenInv, CallInv, BusyInv, RestInv, KeptInv
<1>8. CASE Finish
  <2>1. /\ call = "final" /\ block_done = 1 /\ block_done' = 0 /\ call' = "idle"
        /\ answer' = data_handle /\ empty' = (empty \/ numBlocks = 0)
        /\ UNCHANGED <<transfer, numBlocks, blockIndex, data_ready, half, iset>>
    BY <1>8 DEF Finish
  <2>2. CASE numBlocks = 0
    <3>1. AtRest /\ NoToken
      BY <2>1, <2>2 DEF CallInv, BusyInv, NoneRaised
    <3>2. TokenInv' /\ CallInv' /\ BusyInv' /\ KeptInv'
      BY <1>0, <2>1, <2>2, <3>1 DEF TokenInv, CallInv, BusyInv, KeptInv
    <3>3. RestInv'
      BY <1>0, <2>1, <2>2, <3>1 DEF RestInv
    <3> QED
      BY <1>i, <3>2, <3>3
  <2>3. CASE numBlocks # 0
    <3>1. DoneWith /\ blockIndex = numBlocks /\ numBlocks > 0
      BY <2>1, <2>3 DEF CallInv, BusyInv, WithFirmware
    <3> QED
      BY <1>0, <1>i, <2>1, <3>1
         DEF TokenInv, CallInv, BusyInv, DoneWith, Sent, RestInv, KeptInv
  <2> QED
    BY <2>2, <2>3
<1> QED
  BY <1>1, <1>2, <1>3, <1>4, <1>5, <1>6, <1>7, <1>8 DEF Caller

\* The interrupt handler passes on the signals the firmware gave, and each once.
LEMMA IrqStep ==
  ASSUME TypeInv, TypeInv', Channel, ~late, ~late', Irq
  PROVE  Channel'
<1> USE DEF TypeInv, LoopInv, TypeOK, flagVars, irqVars, fwVars, history, dataVars,
            callVars, Channel, BlockPending, DataPending, AtRest, NoToken, Busy
<1>0. UNCHANGED <<call, transfer, numBlocks, blockIndex, data_handle, answer, half, iset,
                  fw, fwNext, fwOf, stored, lost, empty>>
  BY DEF Irq, IrqEnter, IrqBlock, IrqAckBlock, IrqData, IrqAckData
<1>c. CallInv'
  BY <1>0 DEF CallInv, Block, Sent
<1>1. CASE IrqEnter
  <2>1. IrqInv' /\ TokenInv' /\ (DataPending' <=> DataPending) /\ (BlockPending' <=> BlockPending)
    BY <1>0, <1>1 DEF IrqEnter, IrqInv, TokenInv, Signals
  <2> QED
    BY <1>0, <1>c, <1>1, <2>1
       DEF IrqEnter, BusyInv, NoneRaised, WithFirmware, DoneWith, RestInv, KeptInv, Block, Sent
<1>2. CASE IrqBlock
  <2>1. BlockPending /\ ~BlockPending' /\ block_done' = 1 /\ (DataPending' <=> DataPending)
    BY <1>0, <1>2 DEF IrqBlock, IrqInv
  <2>2. IrqInv' /\ TokenInv'
    BY <1>0, <1>2 DEF IrqBlock, IrqInv, TokenInv
  <2> QED
    BY <1>0, <1>c, <1>2, <2>1, <2>2
       DEF IrqBlock, BusyInv, NoneRaised, WithFirmware, DoneWith, RestInv, KeptInv, Sent
<1>3. CASE IrqAckBlock
  <2>1. /\ ~BlockPending' /\ (DataPending' <=> DataPending) /\ irq = "ackBlock"
        /\ UNCHANGED <<data_ready, block_done>>
    BY <1>0, <1>3 DEF IrqAckBlock, IrqInv
  <2>2. IrqInv' /\ TokenInv'
    BY <1>0, <1>3, <2>1 DEF IrqAckBlock, IrqInv, TokenInv
  <2> QED
    BY <1>0, <1>c, <2>1, <2>2
       DEF BusyInv, NoneRaised, WithFirmware, DoneWith, RestInv, KeptInv, Block, Sent
<1>4. CASE IrqData
  <2>1. /\ DataPending /\ ~DataPending' /\ data_ready' = 1 /\ block_done' = block_done
        /\ "BLOCK" \notin emi_isr /\ emi_isr' = emi_isr
    BY <1>0, <1>4 DEF IrqData, IrqInv
  <2>2. AtRest
    BY <2>1 DEF BusyInv, NoneRaised, WithFirmware, DoneWith, RestInv, CallInv, FwStates, Signals
  <2>3. IrqInv' /\ TokenInv'
    BY <1>0, <1>4, <2>1, <2>2 DEF IrqData, IrqInv, TokenInv
  <2> QED
    BY <1>0, <1>c, <2>1, <2>2, <2>3
       DEF BusyInv, NoneRaised, WithFirmware, DoneWith, RestInv, KeptInv, Sent
<1>5. CASE IrqAckData
  <2>1. /\ ~DataPending /\ ~DataPending' /\ (BlockPending' <=> BlockPending)
        /\ UNCHANGED <<data_ready, block_done>>
    BY <1>0, <1>5 DEF IrqAckData
  <2>2. IrqInv' /\ TokenInv'
    BY <1>0, <1>5, <2>1 DEF IrqAckData, IrqInv, TokenInv
  <2> QED
    BY <1>0, <1>c, <2>1, <2>2
       DEF BusyInv, NoneRaised, WithFirmware, DoneWith, RestInv, KeptInv, Block, Sent
<1> QED
  BY <1>1, <1>2, <1>3, <1>4, <1>5 DEF Irq

\* The firmware reads what was signalled to it, and answers each block and the end.
LEMMA FirmwareStep ==
  ASSUME TypeInv, TypeInv', Channel, ~late, ~late', Firmware
  PROVE  Channel'
<1> USE DEF TypeInv, LoopInv, TypeOK, flagVars, irqVars, history, dataVars,
            callVars, Channel, BlockPending, DataPending, AtRest, NoToken, Busy
<1>0. UNCHANGED <<call, transfer, numBlocks, blockIndex, data_handle, answer, half,
                  data_ready, block_done, irq, phiISR, empty>>
  BY DEF Firmware, FwBoot, FwRead, FwDone, FwFinish, FwCancel
<1>c. CallInv'
  BY <1>0 DEF CallInv, Block, Sent
<1>1. CASE FwBoot
  <2>1. ~Busy /\ iset = {} /\ fwNext = 0 /\ NoToken
    BY <1>1 DEF FwBoot, BusyInv, NoneRaised, WithFirmware, DoneWith, RestInv, CallInv
  <2> QED
    BY <1>0, <1>c, <1>1, <2>1
       DEF FwBoot, FwSignal, IrqInv, TokenInv, BusyInv, RestInv, KeptInv
<1>2. CASE FwRead
  <2>1. /\ fw = "idle" /\ fw' = "read" /\ iset = {"BLOCK"} /\ iset' = {}
        /\ UNCHANGED <<emi_isr, fwNext, fwOf, stored, lost>>
    BY <1>2 DEF FwRead, Signals
  <2>2. Busy /\ blockIndex > 0 /\ WithFirmware
    BY <2>1 DEF BusyInv, NoneRaised, DoneWith, RestInv
  <2>3. WithFirmware' /\ call # "raise"
    BY <1>0, <2>1, <2>2 DEF WithFirmware, BusyInv, DoneWith, Block, Sent
  <2> QED
    BY <1>0, <1>c, <2>1, <2>2, <2>3 DEF IrqInv, TokenInv, BusyInv, RestInv, KeptInv
<1>3. CASE FwDone
  <2>1. /\ fw = "read" /\ fw' \in {"finish", "idle"} /\ iset' = iset
        /\ emi_isr' = emi_isr \cup {"BLOCK"}
    BY <1>3 DEF FwDone, FwSignal
  <2>2. CASE ~Busy
    <3>1. "DATA" \in iset /\ NoToken /\ answer = NoHandle
      BY <2>1, <2>2 DEF RestInv
    <3> QED
      BY <1>0, <1>c, <2>1, <2>2, <3>1 DEF IrqInv, TokenInv, BusyInv, RestInv, KeptInv
  <2>3. CASE Busy
    <3>1. blockIndex > 0 /\ WithFirmware /\ call # "raise" /\ numBlocks > 0
      BY <2>1, <2>3 DEF BusyInv, NoneRaised, DoneWith, CallInv
    <3>2. /\ half[Active(fwNext)] = Block(fwNext) /\ fwNext = blockIndex - 1
          /\ (fwNext > 0 => fwOf = Sent) /\ iset = {} /\ blockIndex <= numBlocks
          /\ NoToken /\ block_done = 0
      BY <2>1, <2>3, <3>1 DEF WithFirmware, CallInv
    <3>3. /\ fw' = IF blockIndex = numBlocks THEN "finish" ELSE "idle"
          /\ fwNext' = IF blockIndex = numBlocks THEN 0 ELSE blockIndex
          /\ fwOf' = Sent /\ (blockIndex = numBlocks => stored' = Sent)
      <4> DEFINE b == half[Active(fwNext)]
      <4>1. b.data = Sent /\ b.index = fwNext /\ b.num = numBlocks
        BY <3>2 DEF Block
      <4>2. (b.index = b.num - 1) <=> blockIndex = numBlocks
        BY <3>2, <4>1
      <4>3. blockIndex # numBlocks => fwNext # MaxBlocks - 1 /\ fwNext + 1 = blockIndex
        BY <3>2, MaxBlocksAssumption
      <4>4. b.index = fwNext /\ (fwNext > 0 => b.data = fwOf)
        BY <3>2, <4>1
      <4> HIDE DEF b
      <4> QED
        BY <1>3, <4>1, <4>2, <4>3, <4>4 DEF FwDone, b
    <3>4. DoneWith' /\ NoToken'
      BY <1>0, <2>1, <3>2, <3>3 DEF DoneWith, Sent
    <3> QED
      BY <1>0, <1>c, <2>1, <2>3, <3>1, <3>2, <3>3, <3>4
         DEF IrqInv, TokenInv, BusyInv, RestInv, KeptInv
  <2> QED
    BY <2>2, <2>3
<1>4. CASE FwFinish
  <2>1. /\ fw = "finish" /\ fw' = "idle" /\ "DATA" \notin iset
        /\ emi_isr' = emi_isr \cup {"DATA"} /\ lost' = (lost \/ irq = "ackData")
        /\ UNCHANGED <<iset, fwNext, fwOf, stored>>
    BY <1>4 DEF FwFinish, FwSignal
  <2>2. CASE Busy
    <3>1. blockIndex > 0 /\ DoneWith /\ ~(blockIndex < numBlocks) /\ call = "final" /\ NoToken
      BY <2>1, <2>2 DEF BusyInv, NoneRaised, WithFirmware, DoneWith, CallInv
    <3>2. DoneWith'
      BY <1>0, <2>1, <3>1 DEF DoneWith, Sent
    <3>3. IrqInv' /\ TokenInv'
      BY <1>0, <2>1, <3>1 DEF IrqInv, TokenInv
    <3>4. BusyInv' /\ RestInv'
      BY <1>0, <2>1, <2>2, <3>1, <3>2 DEF BusyInv, RestInv
    <3>5. KeptInv'
      BY <1>0, <2>1, <3>1 DEF KeptInv
    <3> QED
      BY <1>c, <3>3, <3>4, <3>5
  <2>3. CASE ~Busy
    <3>1. iset = {} /\ fwNext = 0 /\ NoToken
      BY <2>1, <2>3 DEF RestInv, Signals
    <3> QED
      BY <1>0, <1>c, <2>1, <2>3, <3>1 DEF IrqInv, TokenInv, BusyInv, RestInv, KeptInv
  <2> QED
    BY <2>2, <2>3
<1>5. CASE FwCancel
  <2>1. /\ "DATA" \in iset /\ iset' = {} /\ fw' = "idle" /\ fwNext' = 0 /\ stored' = stored
        /\ emi_isr' = emi_isr \cup {"DATA"} /\ lost' = (lost \/ irq = "ackData")
    BY <1>5 DEF FwCancel, FwSignal
  <2>2. ~Busy
    BY <2>1 DEF BusyInv, NoneRaised, WithFirmware, DoneWith, CallInv
  <2>3. NoToken /\ answer = NoHandle
    BY <2>1, <2>2 DEF RestInv
  <2> QED
    BY <1>0, <1>c, <2>1, <2>2, <2>3 DEF IrqInv, TokenInv, BusyInv, RestInv, KeptInv
<1> QED
  BY <1>1, <1>2, <1>3, <1>4, <1>5 DEF Firmware

\* At the start both halves are free.
LEMMA ChannelInit == Init => ChannelInv
<1> SUFFICES ASSUME Init PROVE ChannelInv
  OBVIOUS
<1>1. IrqInv /\ TokenInv /\ CallInv /\ BusyInv /\ RestInv /\ KeptInv
  BY DEF Init, IrqInv, TokenInv, CallInv, BusyInv, RestInv, KeptInv, Busy, NoToken,
         DataPending, BlockPending, AtRest
<1> QED
  BY <1>1, TypeInit DEF ChannelInv

\* Every step keeps the channel's invariant.
LEMMA ChannelStep == ChannelInv /\ [Next]_vars => ChannelInv'
<1> SUFFICES ASSUME ChannelInv, [Next]_vars PROVE ChannelInv'
  OBVIOUS
<1>1. TypeInv /\ TypeInv'
  BY TypeStep DEF ChannelInv
<1>2. ASSUME ~late' PROVE Channel'
  <2>1. ~late /\ Channel
    BY <1>2, LateStep DEF ChannelInv, Channel
  <2>2. CASE UNCHANGED vars
    BY <2>1, <2>2 DEF vars, Channel, IrqInv, TokenInv, CallInv, BusyInv, RestInv, KeptInv, Busy,
       NoToken, DataPending, BlockPending, AtRest, NoneRaised, WithFirmware, DoneWith,
       Block, Sent
  <2> QED
    BY <1>1, <1>2, <2>1, <2>2, CallerStep, IrqStep, FirmwareStep DEF Next
<1> QED
  BY <1>1, <1>2 DEF ChannelInv, Channel

\* The driver never fills the half the firmware reads or has been told to read, as
\* long as no transfer is cancelled that the firmware had finished.
THEOREM HalvesApart == Spec => []HalfFree
<1>1. ChannelInv => HalfFree
  <2> SUFFICES ASSUME ChannelInv, ~late, call = "write",
                      ~(fw # "read" /\ "BLOCK" \notin iset)
               PROVE  Active(blockIndex) # Active(fwNext)
    BY DEF HalfFree
  <2>1. WithFirmware /\ blockIndex \in Nat
    BY DEF ChannelInv, TypeInv, TypeOK, BusyInv, Busy, NoneRaised, AtRest, DoneWith
  <2>2. fwNext \in Nat /\ blockIndex = fwNext + 1
    BY <2>1 DEF WithFirmware, ChannelInv, TypeInv, TypeOK
  <2> QED
    BY <2>2, ActiveHalf
<1> QED
  BY <1>1, ChannelInit, ChannelStep, PTL DEF Spec

\* A call that returns a handle has stored all of its data under that handle, for
\* any number of blocks, lost signals included.
THEOREM DataWhole == Spec => []StoredWhole
<1>1. ChannelInv => StoredWhole
  BY DEF ChannelInv, StoredWhole, CallInv, RestInv
<1> QED
  BY <1>1, ChannelInit, ChannelStep, PTL DEF Spec

\* The right to send data is never lost, as long as no signal is.
THEOREM ChannelOpen == Spec => []DataNotLost
<1>1. ChannelInv => DataNotLost
  BY DEF ChannelInv, DataNotLost, RestInv, KeptInv, Busy, AtRest, DataPending
<1> QED
  BY <1>1, ChannelInit, ChannelStep, PTL DEF Spec

=============================================================================
