-------------------------- MODULE StiCommandProofs --------------------------
(***************************************************************************)
(* Proofs about StiCommand.                                                *)
(*                                                                         *)
(* The argument: the right to use the mailbox is a token that goes round:  *)
(* READY signalled, cmd_ready, the call writing the command, the command   *)
(* signalled, the firmware at work. It is never duplicated, and the result *)
(* of a command is out of the mailbox before the token is back at the      *)
(* driver.                                                                 *)
(***************************************************************************)
EXTENDS StiCommand, TLAPS

\* Where the token may be.
AtIsr      == "READY" \in emi_isr /\ irq # "ackReady"
AtDriver   == cmd_ready = 1
AtCall     == call \in {"write", "raise"}
AtIset     == iset # NoCommand
AtFirmware == fw \in {"work", "done"}

\* There is one token at most.
OneToken ==
  /\ fw = "boot" => ~AtIsr /\ ~AtDriver /\ ~AtCall /\ ~AtIset
  /\ AtIsr       => ~AtDriver /\ ~AtCall /\ ~AtIset /\ ~AtFirmware
  /\ AtDriver    => ~AtCall /\ ~AtIset /\ ~AtFirmware
  /\ AtCall      => ~AtIset /\ ~AtFirmware
  /\ AtIset      => ~AtFirmware

\* The handler is about to report a READY it has read.
Reporting == irq = "ready" /\ "READY" \in phiISR

\* What the handler has read and not acknowledged is still signalled; nothing is
\* before the firmware has booted.
IrqInv ==
  /\ fw = "boot" => emi_isr = {} /\ irq = "idle"
  /\ irq \in {"read", "avail", "ackCmd"} => "CMD" \in emi_isr
  /\ irq \in {"read", "avail", "ackCmd", "ready"} /\ "READY" \in phiISR =>
       "READY" \in emi_isr

\* A result is in the mailbox until the handler is past it, and until then the
\* token is not on its way to the next command.
ResultInv ==
  "CMD" \in emi_isr =>
    /\ mailbox.kind = "result"
    /\ ~AtDriver /\ ~AtCall /\ ~AtIset /\ ~Reporting
    /\ fw \in {"idle", "done"}

\* A command is in the mailbox until the firmware has taken it.
CommandInv ==
  /\ call # "idle" => cmd \in Commands
  /\ call = "raise" => mailbox = Command(cmd)
  /\ AtIset => mailbox = Command(iset)

\* The firmware sends no empty result.
FullInv == mailbox.kind = "result" => mailbox.len > 0

\* Whatever is on its way to the call that waits for a result is its own.
OwnInv ==
  /\ AtCall => result_avail = 0
  /\ call = "result" =>
       /\ result_max_len > 0
       /\ AtIset => iset = cmd /\ result_avail = 0
       /\ fw = "work" => fw_cmd = cmd /\ result_avail = 0
       /\ "CMD" \in emi_isr => mailbox.of = cmd
       /\ irq = "avail" => result_data = cmd /\ length > 0
       /\ result_avail = 1 => result_data = cmd /\ result_len > 0
  /\ (call = "result" /\ result_avail = 1) \/ (call = "copy" /\ result_max_len > 0) =>
       /\ irq \notin {"read", "avail"}
       /\ "CMD" \in emi_isr => irq = "ackCmd"
       /\ ~AtIset /\ fw # "work"
  /\ call = "copy" /\ result_max_len > 0 =>
       result_data = cmd /\ result_len \in 1 .. result_max_len

\* A token is lost only if an acknowledgement takes a READY nobody saw.
TokenInv ==
  ~lost => fw = "boot" \/ AtIsr \/ AtDriver \/ AtCall \/ AtIset \/ AtFirmware

Channel == OneToken /\ IrqInv /\ ResultInv /\ CommandInv /\ FullInv

-----------------------------------------------------------------------------
(* Type correctness. *)

\* Each step keeps the types.
LEMMA TypeStep == TypeOK /\ [Next]_vars => TypeOK'
<1> SUFFICES ASSUME TypeOK, [Next]_vars PROVE TypeOK'
  OBVIOUS
<1> USE MaxResultLenAssumption, CommandsAssumption
<1>1. ASSUME NEW c \in Commands, NEW max \in Lengths, RawCmd(c, max)
      PROVE  TypeOK'
  BY <1>1
     DEF RawCmd, TypeOK, Signals, Messages, AnyCommand, Lengths, CallStates,
         IrqStates, FwStates, Failed, NoAnswer, Command, Result, Least, vars,
         callVars, flagVars, resVars, irqVars, fwVars
<1>2. CASE ReadyTimeout
  BY <1>2
     DEF ReadyTimeout, TypeOK, Signals, Messages, AnyCommand, Lengths,
         CallStates, IrqStates, FwStates, Failed, NoAnswer, Command, Result,
         Least, vars, callVars, flagVars, resVars, irqVars, fwVars
<1>3. CASE Ready
  BY <1>3
     DEF Ready, TypeOK, Signals, Messages, AnyCommand, Lengths, CallStates,
         IrqStates, FwStates, Failed, NoAnswer, Command, Result, Least, vars,
         callVars, flagVars, resVars, irqVars, fwVars
<1>4. CASE Write
  BY <1>4
     DEF Write, TypeOK, Signals, Messages, AnyCommand, Lengths, CallStates,
         IrqStates, FwStates, Failed, NoAnswer, Command, Result, Least, vars,
         callVars, flagVars, resVars, irqVars, fwVars
<1>5. CASE Raise
  BY <1>5
     DEF Raise, TypeOK, Signals, Messages, AnyCommand, Lengths, CallStates,
         IrqStates, FwStates, Failed, NoAnswer, Command, Result, Least, vars,
         callVars, flagVars, resVars, irqVars, fwVars
<1>6. CASE ResultTimeout
  BY <1>6
     DEF ResultTimeout, TypeOK, Signals, Messages, AnyCommand, Lengths,
         CallStates, IrqStates, FwStates, Failed, NoAnswer, Command, Result,
         Least, vars, callVars, flagVars, resVars, irqVars, fwVars
<1>7. CASE ResultAvail
  BY <1>7
     DEF ResultAvail, TypeOK, Signals, Messages, AnyCommand, Lengths,
         CallStates, IrqStates, FwStates, Failed, NoAnswer, Command, Result,
         Least, vars, callVars, flagVars, resVars, irqVars, fwVars
<1>8. CASE Copy
  BY <1>8
     DEF Copy, TypeOK, Signals, Messages, AnyCommand, Lengths, CallStates,
         IrqStates, FwStates, Failed, NoAnswer, Command, Result, Least, vars,
         callVars, flagVars, resVars, irqVars, fwVars
<1>9. CASE IrqEnter
  BY <1>9
     DEF IrqEnter, TypeOK, Signals, Messages, AnyCommand, Lengths, CallStates,
         IrqStates, FwStates, Failed, NoAnswer, Command, Result, Least, vars,
         callVars, flagVars, resVars, irqVars, fwVars
<1>10. CASE IrqRead
  BY <1>10
     DEF IrqRead, TypeOK, Signals, Messages, AnyCommand, Lengths, CallStates,
         IrqStates, FwStates, Failed, NoAnswer, Command, Result, Least, vars,
         callVars, flagVars, resVars, irqVars, fwVars
<1>11. CASE IrqAvail
  BY <1>11
     DEF IrqAvail, TypeOK, Signals, Messages, AnyCommand, Lengths, CallStates,
         IrqStates, FwStates, Failed, NoAnswer, Command, Result, Least, vars,
         callVars, flagVars, resVars, irqVars, fwVars
<1>12. CASE IrqAckCmd
  BY <1>12
     DEF IrqAckCmd, TypeOK, Signals, Messages, AnyCommand, Lengths,
         CallStates, IrqStates, FwStates, Failed, NoAnswer, Command, Result,
         Least, vars, callVars, flagVars, resVars, irqVars, fwVars
<1>13. CASE IrqReady
  BY <1>13
     DEF IrqReady, TypeOK, Signals, Messages, AnyCommand, Lengths, CallStates,
         IrqStates, FwStates, Failed, NoAnswer, Command, Result, Least, vars,
         callVars, flagVars, resVars, irqVars, fwVars
<1>14. CASE IrqAckReady
  BY <1>14
     DEF IrqAckReady, TypeOK, Signals, Messages, AnyCommand, Lengths,
         CallStates, IrqStates, FwStates, Failed, NoAnswer, Command, Result,
         Least, vars, callVars, flagVars, resVars, irqVars, fwVars
<1>15. CASE FwBoot
  BY <1>15
     DEF FwBoot, TypeOK, Signals, Messages, AnyCommand, Lengths, CallStates,
         IrqStates, FwStates, Failed, NoAnswer, Command, Result, Least, vars,
         callVars, flagVars, resVars, irqVars, fwVars
<1>16. CASE FwTake
  BY <1>16
     DEF FwTake, TypeOK, Signals, Messages, AnyCommand, Lengths, CallStates,
         IrqStates, FwStates, Failed, NoAnswer, Command, Result, Least, vars,
         callVars, flagVars, resVars, irqVars, fwVars
<1>17. CASE FwNoResult
  BY <1>17
     DEF FwNoResult, TypeOK, Signals, Messages, AnyCommand, Lengths,
         CallStates, IrqStates, FwStates, Failed, NoAnswer, Command, Result,
         Least, vars, callVars, flagVars, resVars, irqVars, fwVars
<1>18. CASE FwReady
  BY <1>18
     DEF FwReady, TypeOK, Signals, Messages, AnyCommand, Lengths, CallStates,
         IrqStates, FwStates, Failed, NoAnswer, Command, Result, Least, vars,
         callVars, flagVars, resVars, irqVars, fwVars
<1>19. ASSUME NEW n \in 1 .. MAX_RESULT_LEN + 1, FwResult(n)
      PROVE  TypeOK'
  BY <1>19
     DEF FwResult, TypeOK, Signals, Messages, AnyCommand, Lengths, CallStates,
         IrqStates, FwStates, Failed, NoAnswer, Command, Result, Least, vars,
         callVars, flagVars, resVars, irqVars, fwVars
<1>20. CASE UNCHANGED vars
  BY <1>20
     DEF TypeOK, Signals, Messages, AnyCommand, Lengths, CallStates,
         IrqStates, FwStates, Failed, NoAnswer, Command, Result, Least, vars,
         callVars, flagVars, resVars, irqVars, fwVars
<1> QED
  BY <1>1, <1>2, <1>3, <1>4, <1>5, <1>6, <1>7, <1>8, <1>9, <1>10, <1>11,
     <1>12, <1>13, <1>14, <1>15, <1>16, <1>17, <1>18, <1>19, <1>20
     DEF Next, Caller, Irq, Firmware

\* Every variable of the command channel keeps its type.
THEOREM TypeCorrect == Spec => []TypeOK
<1>1. Init => TypeOK
  <2> SUFFICES ASSUME Init PROVE TypeOK
    OBVIOUS
  <2>1. /\ answer \in [ret : {"ok", "failed"}, cmd : AnyCommand, of : AnyCommand,
                       len : Lengths, max : Lengths]
        /\ mailbox \in Messages
    BY MaxResultLenAssumption DEF Init, NoAnswer, Messages, AnyCommand, Lengths
  <2>2. phiISR \in SUBSET Signals /\ emi_isr \in SUBSET Signals /\ lost \in BOOLEAN
    BY DEF Init
  <2> QED
    BY <2>1, <2>2, MaxResultLenAssumption
       DEF Init, TypeOK, AnyCommand, Lengths, CallStates, IrqStates, FwStates
<1> QED
  BY <1>1, TypeStep, PTL DEF Spec

-----------------------------------------------------------------------------
(* The token and the mailbox. *)

\* The token stays with one party, and the mailbox holds what that one is to read.
LEMMA ChannelStep == TypeOK /\ Channel /\ [Next]_vars => Channel'
<1> SUFFICES ASSUME TypeOK, Channel, [Next]_vars PROVE Channel'
  OBVIOUS
<1> USE CommandsAssumption
<1>1. ASSUME NEW c \in Commands, NEW max \in Lengths, RawCmd(c, max)
      PROVE  Channel'
  BY <1>1
     DEF RawCmd, TypeOK, Signals, Messages, AnyCommand, Lengths, CallStates,
         IrqStates, FwStates, AtIsr, AtDriver, AtCall, AtIset, AtFirmware,
         Reporting, Channel, OneToken, IrqInv, ResultInv, CommandInv, FullInv,
         Command, Result, vars, callVars, flagVars, resVars, irqVars, fwVars
<1>2. CASE ReadyTimeout
  BY <1>2
     DEF ReadyTimeout, TypeOK, Signals, Messages, AnyCommand, Lengths,
         CallStates, IrqStates, FwStates, AtIsr, AtDriver, AtCall, AtIset,
         AtFirmware, Reporting, Channel, OneToken, IrqInv, ResultInv,
         CommandInv, FullInv, Command, Result, vars, callVars, flagVars,
         resVars, irqVars, fwVars
<1>3. CASE Ready
  BY <1>3
     DEF Ready, TypeOK, Signals, Messages, AnyCommand, Lengths, CallStates,
         IrqStates, FwStates, AtIsr, AtDriver, AtCall, AtIset, AtFirmware,
         Reporting, Channel, OneToken, IrqInv, ResultInv, CommandInv, FullInv,
         Command, Result, vars, callVars, flagVars, resVars, irqVars, fwVars
<1>4. CASE Write
  BY <1>4
     DEF Write, TypeOK, Signals, Messages, AnyCommand, Lengths, CallStates,
         IrqStates, FwStates, AtIsr, AtDriver, AtCall, AtIset, AtFirmware,
         Reporting, Channel, OneToken, IrqInv, ResultInv, CommandInv, FullInv,
         Command, Result, vars, callVars, flagVars, resVars, irqVars, fwVars
<1>5. CASE Raise
  BY <1>5
     DEF Raise, TypeOK, Signals, Messages, AnyCommand, Lengths, CallStates,
         IrqStates, FwStates, AtIsr, AtDriver, AtCall, AtIset, AtFirmware,
         Reporting, Channel, OneToken, IrqInv, ResultInv, CommandInv, FullInv,
         Command, Result, vars, callVars, flagVars, resVars, irqVars, fwVars
<1>6. CASE ResultTimeout
  BY <1>6
     DEF ResultTimeout, TypeOK, Signals, Messages, AnyCommand, Lengths,
         CallStates, IrqStates, FwStates, AtIsr, AtDriver, AtCall, AtIset,
         AtFirmware, Reporting, Channel, OneToken, IrqInv, ResultInv,
         CommandInv, FullInv, Command, Result, vars, callVars, flagVars,
         resVars, irqVars, fwVars
<1>7. CASE ResultAvail
  BY <1>7
     DEF ResultAvail, TypeOK, Signals, Messages, AnyCommand, Lengths,
         CallStates, IrqStates, FwStates, AtIsr, AtDriver, AtCall, AtIset,
         AtFirmware, Reporting, Channel, OneToken, IrqInv, ResultInv,
         CommandInv, FullInv, Command, Result, vars, callVars, flagVars,
         resVars, irqVars, fwVars
<1>8. CASE Copy
  BY <1>8
     DEF Copy, TypeOK, Signals, Messages, AnyCommand, Lengths, CallStates,
         IrqStates, FwStates, AtIsr, AtDriver, AtCall, AtIset, AtFirmware,
         Reporting, Channel, OneToken, IrqInv, ResultInv, CommandInv, FullInv,
         Command, Result, vars, callVars, flagVars, resVars, irqVars, fwVars
<1>9. CASE IrqEnter
  BY <1>9
     DEF IrqEnter, TypeOK, Signals, Messages, AnyCommand, Lengths, CallStates,
         IrqStates, FwStates, AtIsr, AtDriver, AtCall, AtIset, AtFirmware,
         Reporting, Channel, OneToken, IrqInv, ResultInv, CommandInv, FullInv,
         Command, Result, vars, callVars, flagVars, resVars, irqVars, fwVars
<1>10. CASE IrqRead
  BY <1>10
     DEF IrqRead, TypeOK, Signals, Messages, AnyCommand, Lengths, CallStates,
         IrqStates, FwStates, AtIsr, AtDriver, AtCall, AtIset, AtFirmware,
         Reporting, Channel, OneToken, IrqInv, ResultInv, CommandInv, FullInv,
         Command, Result, vars, callVars, flagVars, resVars, irqVars, fwVars
<1>11. CASE IrqAvail
  BY <1>11
     DEF IrqAvail, TypeOK, Signals, Messages, AnyCommand, Lengths, CallStates,
         IrqStates, FwStates, AtIsr, AtDriver, AtCall, AtIset, AtFirmware,
         Reporting, Channel, OneToken, IrqInv, ResultInv, CommandInv, FullInv,
         Command, Result, vars, callVars, flagVars, resVars, irqVars, fwVars
<1>12. CASE IrqAckCmd
  BY <1>12
     DEF IrqAckCmd, TypeOK, Signals, Messages, AnyCommand, Lengths,
         CallStates, IrqStates, FwStates, AtIsr, AtDriver, AtCall, AtIset,
         AtFirmware, Reporting, Channel, OneToken, IrqInv, ResultInv,
         CommandInv, FullInv, Command, Result, vars, callVars, flagVars,
         resVars, irqVars, fwVars
<1>13. CASE IrqReady
  BY <1>13
     DEF IrqReady, TypeOK, Signals, Messages, AnyCommand, Lengths, CallStates,
         IrqStates, FwStates, AtIsr, AtDriver, AtCall, AtIset, AtFirmware,
         Reporting, Channel, OneToken, IrqInv, ResultInv, CommandInv, FullInv,
         Command, Result, vars, callVars, flagVars, resVars, irqVars, fwVars
<1>14. CASE IrqAckReady
  BY <1>14
     DEF IrqAckReady, TypeOK, Signals, Messages, AnyCommand, Lengths,
         CallStates, IrqStates, FwStates, AtIsr, AtDriver, AtCall, AtIset,
         AtFirmware, Reporting, Channel, OneToken, IrqInv, ResultInv,
         CommandInv, FullInv, Command, Result, vars, callVars, flagVars,
         resVars, irqVars, fwVars
<1>15. CASE FwBoot
  BY <1>15
     DEF FwBoot, TypeOK, Signals, Messages, AnyCommand, Lengths, CallStates,
         IrqStates, FwStates, AtIsr, AtDriver, AtCall, AtIset, AtFirmware,
         Reporting, Channel, OneToken, IrqInv, ResultInv, CommandInv, FullInv,
         Command, Result, vars, callVars, flagVars, resVars, irqVars, fwVars
<1>16. CASE FwTake
  BY <1>16
     DEF FwTake, TypeOK, Signals, Messages, AnyCommand, Lengths, CallStates,
         IrqStates, FwStates, AtIsr, AtDriver, AtCall, AtIset, AtFirmware,
         Reporting, Channel, OneToken, IrqInv, ResultInv, CommandInv, FullInv,
         Command, Result, vars, callVars, flagVars, resVars, irqVars, fwVars
<1>17. CASE FwNoResult
  BY <1>17
     DEF FwNoResult, TypeOK, Signals, Messages, AnyCommand, Lengths,
         CallStates, IrqStates, FwStates, AtIsr, AtDriver, AtCall, AtIset,
         AtFirmware, Reporting, Channel, OneToken, IrqInv, ResultInv,
         CommandInv, FullInv, Command, Result, vars, callVars, flagVars,
         resVars, irqVars, fwVars
<1>18. CASE FwReady
  BY <1>18
     DEF FwReady, TypeOK, Signals, Messages, AnyCommand, Lengths, CallStates,
         IrqStates, FwStates, AtIsr, AtDriver, AtCall, AtIset, AtFirmware,
         Reporting, Channel, OneToken, IrqInv, ResultInv, CommandInv, FullInv,
         Command, Result, vars, callVars, flagVars, resVars, irqVars, fwVars
<1>19. ASSUME NEW n \in 1 .. MAX_RESULT_LEN + 1, FwResult(n)
      PROVE  Channel'
  BY <1>19
     DEF FwResult, TypeOK, Signals, Messages, AnyCommand, Lengths, CallStates,
         IrqStates, FwStates, AtIsr, AtDriver, AtCall, AtIset, AtFirmware,
         Reporting, Channel, OneToken, IrqInv, ResultInv, CommandInv, FullInv,
         Command, Result, vars, callVars, flagVars, resVars, irqVars, fwVars
<1>20. CASE UNCHANGED vars
  BY <1>20
     DEF TypeOK, Signals, Messages, AnyCommand, Lengths, CallStates,
         IrqStates, FwStates, AtIsr, AtDriver, AtCall, AtIset, AtFirmware,
         Reporting, Channel, OneToken, IrqInv, ResultInv, CommandInv, FullInv,
         Command, Result, vars, callVars, flagVars, resVars, irqVars, fwVars
<1> QED
  BY <1>1, <1>2, <1>3, <1>4, <1>5, <1>6, <1>7, <1>8, <1>9, <1>10, <1>11,
     <1>12, <1>13, <1>14, <1>15, <1>16, <1>17, <1>18, <1>19, <1>20
     DEF Next, Caller, Irq, Firmware

\* The types and the channel's discipline hold always.
LEMMA ChannelInvariant == Spec => [](TypeOK /\ Channel)
<1>1. Init => Channel
  BY
     DEF Init, AtIsr, AtDriver, AtCall, AtIset, AtFirmware, Reporting,
         Channel, OneToken, IrqInv, ResultInv, CommandInv, FullInv
<1> QED
  BY <1>1, TypeCorrect, ChannelStep, PTL DEF Spec

\* Neither side overwrites what the other has yet to read in the mailbox.
THEOREM MailboxKept == Spec => []MailboxIntact
<1>1. Channel => MailboxIntact
  BY
     DEF AtIsr, AtDriver, AtCall, AtIset, AtFirmware, Reporting, Channel,
         OneToken, IrqInv, ResultInv, CommandInv, FullInv, MailboxIntact
<1> QED
  BY <1>1, ChannelInvariant, PTL

-----------------------------------------------------------------------------
(* The answer. *)

\* A caller takes the answer to its own command.
LEMMA OwnStep == TypeOK /\ Channel /\ OwnInv /\ [Next]_vars => OwnInv'
<1> SUFFICES ASSUME TypeOK, Channel, OwnInv, [Next]_vars PROVE OwnInv'
  OBVIOUS
<1> USE MaxResultLenAssumption, CommandsAssumption
<1>1. ASSUME NEW c \in Commands, NEW max \in Lengths, RawCmd(c, max)
      PROVE  OwnInv'
  BY <1>1
     DEF RawCmd, TypeOK, Signals, Messages, AnyCommand, Lengths, CallStates,
         IrqStates, FwStates, AtIsr, AtDriver, AtCall, AtIset, AtFirmware,
         Reporting, Channel, OneToken, IrqInv, ResultInv, CommandInv, FullInv,
         OwnInv, Command, Result, Least, vars, callVars, flagVars, resVars,
         irqVars, fwVars
<1>2. CASE ReadyTimeout
  BY <1>2
     DEF ReadyTimeout, TypeOK, Signals, Messages, AnyCommand, Lengths,
         CallStates, IrqStates, FwStates, AtIsr, AtDriver, AtCall, AtIset,
         AtFirmware, Reporting, Channel, OneToken, IrqInv, ResultInv,
         CommandInv, FullInv, OwnInv, Command, Result, Least, vars, callVars,
         flagVars, resVars, irqVars, fwVars
<1>3. CASE Ready
  BY <1>3
     DEF Ready, TypeOK, Signals, Messages, AnyCommand, Lengths, CallStates,
         IrqStates, FwStates, AtIsr, AtDriver, AtCall, AtIset, AtFirmware,
         Reporting, Channel, OneToken, IrqInv, ResultInv, CommandInv, FullInv,
         OwnInv, Command, Result, Least, vars, callVars, flagVars, resVars,
         irqVars, fwVars
<1>4. CASE Write
  BY <1>4
     DEF Write, TypeOK, Signals, Messages, AnyCommand, Lengths, CallStates,
         IrqStates, FwStates, AtIsr, AtDriver, AtCall, AtIset, AtFirmware,
         Reporting, Channel, OneToken, IrqInv, ResultInv, CommandInv, FullInv,
         OwnInv, Command, Result, Least, vars, callVars, flagVars, resVars,
         irqVars, fwVars
<1>5. CASE Raise
  BY <1>5
     DEF Raise, TypeOK, Signals, Messages, AnyCommand, Lengths, CallStates,
         IrqStates, FwStates, AtIsr, AtDriver, AtCall, AtIset, AtFirmware,
         Reporting, Channel, OneToken, IrqInv, ResultInv, CommandInv, FullInv,
         OwnInv, Command, Result, Least, vars, callVars, flagVars, resVars,
         irqVars, fwVars
<1>6. CASE ResultTimeout
  BY <1>6
     DEF ResultTimeout, TypeOK, Signals, Messages, AnyCommand, Lengths,
         CallStates, IrqStates, FwStates, AtIsr, AtDriver, AtCall, AtIset,
         AtFirmware, Reporting, Channel, OneToken, IrqInv, ResultInv,
         CommandInv, FullInv, OwnInv, Command, Result, Least, vars, callVars,
         flagVars, resVars, irqVars, fwVars
<1>7. CASE ResultAvail
  BY <1>7
     DEF ResultAvail, TypeOK, Signals, Messages, AnyCommand, Lengths,
         CallStates, IrqStates, FwStates, AtIsr, AtDriver, AtCall, AtIset,
         AtFirmware, Reporting, Channel, OneToken, IrqInv, ResultInv,
         CommandInv, FullInv, OwnInv, Command, Result, Least, vars, callVars,
         flagVars, resVars, irqVars, fwVars
<1>8. CASE Copy
  BY <1>8
     DEF Copy, TypeOK, Signals, Messages, AnyCommand, Lengths, CallStates,
         IrqStates, FwStates, AtIsr, AtDriver, AtCall, AtIset, AtFirmware,
         Reporting, Channel, OneToken, IrqInv, ResultInv, CommandInv, FullInv,
         OwnInv, Command, Result, Least, vars, callVars, flagVars, resVars,
         irqVars, fwVars
<1>9. CASE IrqEnter
  BY <1>9
     DEF IrqEnter, TypeOK, Signals, Messages, AnyCommand, Lengths, CallStates,
         IrqStates, FwStates, AtIsr, AtDriver, AtCall, AtIset, AtFirmware,
         Reporting, Channel, OneToken, IrqInv, ResultInv, CommandInv, FullInv,
         OwnInv, Command, Result, Least, vars, callVars, flagVars, resVars,
         irqVars, fwVars
<1>10. CASE IrqRead
  BY <1>10
     DEF IrqRead, TypeOK, Signals, Messages, AnyCommand, Lengths, CallStates,
         IrqStates, FwStates, AtIsr, AtDriver, AtCall, AtIset, AtFirmware,
         Reporting, Channel, OneToken, IrqInv, ResultInv, CommandInv, FullInv,
         OwnInv, Command, Result, Least, vars, callVars, flagVars, resVars,
         irqVars, fwVars
<1>11. CASE IrqAvail
  BY <1>11
     DEF IrqAvail, TypeOK, Signals, Messages, AnyCommand, Lengths, CallStates,
         IrqStates, FwStates, AtIsr, AtDriver, AtCall, AtIset, AtFirmware,
         Reporting, Channel, OneToken, IrqInv, ResultInv, CommandInv, FullInv,
         OwnInv, Command, Result, Least, vars, callVars, flagVars, resVars,
         irqVars, fwVars
<1>12. CASE IrqAckCmd
  BY <1>12
     DEF IrqAckCmd, TypeOK, Signals, Messages, AnyCommand, Lengths,
         CallStates, IrqStates, FwStates, AtIsr, AtDriver, AtCall, AtIset,
         AtFirmware, Reporting, Channel, OneToken, IrqInv, ResultInv,
         CommandInv, FullInv, OwnInv, Command, Result, Least, vars, callVars,
         flagVars, resVars, irqVars, fwVars
<1>13. CASE IrqReady
  BY <1>13
     DEF IrqReady, TypeOK, Signals, Messages, AnyCommand, Lengths, CallStates,
         IrqStates, FwStates, AtIsr, AtDriver, AtCall, AtIset, AtFirmware,
         Reporting, Channel, OneToken, IrqInv, ResultInv, CommandInv, FullInv,
         OwnInv, Command, Result, Least, vars, callVars, flagVars, resVars,
         irqVars, fwVars
<1>14. CASE IrqAckReady
  BY <1>14
     DEF IrqAckReady, TypeOK, Signals, Messages, AnyCommand, Lengths,
         CallStates, IrqStates, FwStates, AtIsr, AtDriver, AtCall, AtIset,
         AtFirmware, Reporting, Channel, OneToken, IrqInv, ResultInv,
         CommandInv, FullInv, OwnInv, Command, Result, Least, vars, callVars,
         flagVars, resVars, irqVars, fwVars
<1>15. CASE FwBoot
  BY <1>15
     DEF FwBoot, TypeOK, Signals, Messages, AnyCommand, Lengths, CallStates,
         IrqStates, FwStates, AtIsr, AtDriver, AtCall, AtIset, AtFirmware,
         Reporting, Channel, OneToken, IrqInv, ResultInv, CommandInv, FullInv,
         OwnInv, Command, Result, Least, vars, callVars, flagVars, resVars,
         irqVars, fwVars
<1>16. CASE FwTake
  BY <1>16
     DEF FwTake, TypeOK, Signals, Messages, AnyCommand, Lengths, CallStates,
         IrqStates, FwStates, AtIsr, AtDriver, AtCall, AtIset, AtFirmware,
         Reporting, Channel, OneToken, IrqInv, ResultInv, CommandInv, FullInv,
         OwnInv, Command, Result, Least, vars, callVars, flagVars, resVars,
         irqVars, fwVars
<1>17. CASE FwNoResult
  BY <1>17
     DEF FwNoResult, TypeOK, Signals, Messages, AnyCommand, Lengths,
         CallStates, IrqStates, FwStates, AtIsr, AtDriver, AtCall, AtIset,
         AtFirmware, Reporting, Channel, OneToken, IrqInv, ResultInv,
         CommandInv, FullInv, OwnInv, Command, Result, Least, vars, callVars,
         flagVars, resVars, irqVars, fwVars
<1>18. CASE FwReady
  BY <1>18
     DEF FwReady, TypeOK, Signals, Messages, AnyCommand, Lengths, CallStates,
         IrqStates, FwStates, AtIsr, AtDriver, AtCall, AtIset, AtFirmware,
         Reporting, Channel, OneToken, IrqInv, ResultInv, CommandInv, FullInv,
         OwnInv, Command, Result, Least, vars, callVars, flagVars, resVars,
         irqVars, fwVars
<1>19. ASSUME NEW n \in 1 .. MAX_RESULT_LEN + 1, FwResult(n)
      PROVE  OwnInv'
  BY <1>19
     DEF FwResult, TypeOK, Signals, Messages, AnyCommand, Lengths, CallStates,
         IrqStates, FwStates, AtIsr, AtDriver, AtCall, AtIset, AtFirmware,
         Reporting, Channel, OneToken, IrqInv, ResultInv, CommandInv, FullInv,
         OwnInv, Command, Result, Least, vars, callVars, flagVars, resVars,
         irqVars, fwVars
<1>20. CASE UNCHANGED vars
  BY <1>20
     DEF TypeOK, Signals, Messages, AnyCommand, Lengths, CallStates,
         IrqStates, FwStates, AtIsr, AtDriver, AtCall, AtIset, AtFirmware,
         Reporting, Channel, OneToken, IrqInv, ResultInv, CommandInv, FullInv,
         OwnInv, Command, Result, Least, vars, callVars, flagVars, resVars,
         irqVars, fwVars
<1> QED
  BY <1>1, <1>2, <1>3, <1>4, <1>5, <1>6, <1>7, <1>8, <1>9, <1>10, <1>11,
     <1>12, <1>13, <1>14, <1>15, <1>16, <1>17, <1>18, <1>19, <1>20
     DEF Next, Caller, Irq, Firmware

\* A call that waited for a result and succeeds returns the result of its own
\* command, whatever timed out or was interrupted before it.
THEOREM OwnAnswer == Spec => []AnswerOfOwnCommand
<1>1. Init => OwnInv /\ AnswerOfOwnCommand
  BY
     DEF Init, NoAnswer, OwnInv, AnswerOfOwnCommand, AtIsr, AtDriver, AtCall,
         AtIset, AtFirmware, Reporting
<1>2. TypeOK /\ OwnInv /\ AnswerOfOwnCommand /\ [Next]_vars => AnswerOfOwnCommand'
  <2> SUFFICES ASSUME TypeOK, OwnInv, AnswerOfOwnCommand, [Next]_vars
               PROVE  AnswerOfOwnCommand'
    OBVIOUS
  <2>1. CASE Copy
    BY <2>1
       DEF Copy, OwnInv, AnswerOfOwnCommand, TypeOK, Signals, Messages,
           AnyCommand, Lengths, CallStates, IrqStates, FwStates
  <2>2. CASE ReadyTimeout \/ ResultTimeout
    BY <2>2
       DEF ReadyTimeout, ResultTimeout, Failed, NoAnswer, AnswerOfOwnCommand
  <2>3. CASE UNCHANGED answer
    BY <2>3 DEF AnswerOfOwnCommand
  <2>4. Copy \/ ReadyTimeout \/ ResultTimeout \/ UNCHANGED answer
    BY DEF Next, Caller, Irq, Firmware, RawCmd, Ready, Write, Raise,
           ResultAvail, IrqEnter, IrqRead, IrqAvail, IrqAckCmd, IrqReady,
           IrqAckReady, FwBoot, FwTake, FwNoResult, FwReady, FwResult, vars,
           callVars
  <2> QED
    BY <2>1, <2>2, <2>3, <2>4
<1> QED
  BY <1>1, <1>2, OwnStep, ChannelInvariant, PTL DEF Spec

-----------------------------------------------------------------------------
(* The channel does not wedge. *)

\* The token is with someone, unless it was lost.
LEMMA TokenStep == TypeOK /\ Channel /\ TokenInv /\ [Next]_vars => TokenInv'
<1> SUFFICES ASSUME TypeOK, Channel, TokenInv, [Next]_vars PROVE TokenInv'
  OBVIOUS
<1> USE CommandsAssumption
<1>1. ASSUME NEW c \in Commands, NEW max \in Lengths, RawCmd(c, max)
      PROVE  TokenInv'
  BY <1>1
     DEF RawCmd, TypeOK, Signals, Messages, AnyCommand, Lengths, CallStates,
         IrqStates, FwStates, AtIsr, AtDriver, AtCall, AtIset, AtFirmware,
         Reporting, Channel, OneToken, IrqInv, ResultInv, CommandInv, FullInv,
         TokenInv, vars, callVars, flagVars, resVars, irqVars, fwVars
<1>2. CASE ReadyTimeout
  BY <1>2
     DEF ReadyTimeout, TypeOK, Signals, Messages, AnyCommand, Lengths,
         CallStates, IrqStates, FwStates, AtIsr, AtDriver, AtCall, AtIset,
         AtFirmware, Reporting, Channel, OneToken, IrqInv, ResultInv,
         CommandInv, FullInv, TokenInv, vars, callVars, flagVars, resVars,
         irqVars, fwVars
<1>3. CASE Ready
  BY <1>3
     DEF Ready, TypeOK, Signals, Messages, AnyCommand, Lengths, CallStates,
         IrqStates, FwStates, AtIsr, AtDriver, AtCall, AtIset, AtFirmware,
         Reporting, Channel, OneToken, IrqInv, ResultInv, CommandInv, FullInv,
         TokenInv, vars, callVars, flagVars, resVars, irqVars, fwVars
<1>4. CASE Write
  BY <1>4
     DEF Write, TypeOK, Signals, Messages, AnyCommand, Lengths, CallStates,
         IrqStates, FwStates, AtIsr, AtDriver, AtCall, AtIset, AtFirmware,
         Reporting, Channel, OneToken, IrqInv, ResultInv, CommandInv, FullInv,
         TokenInv, vars, callVars, flagVars, resVars, irqVars, fwVars
<1>5. CASE Raise
  BY <1>5
     DEF Raise, TypeOK, Signals, Messages, AnyCommand, Lengths, CallStates,
         IrqStates, FwStates, AtIsr, AtDriver, AtCall, AtIset, AtFirmware,
         Reporting, Channel, OneToken, IrqInv, ResultInv, CommandInv, FullInv,
         TokenInv, vars, callVars, flagVars, resVars, irqVars, fwVars
<1>6. CASE ResultTimeout
  BY <1>6
     DEF ResultTimeout, TypeOK, Signals, Messages, AnyCommand, Lengths,
         CallStates, IrqStates, FwStates, AtIsr, AtDriver, AtCall, AtIset,
         AtFirmware, Reporting, Channel, OneToken, IrqInv, ResultInv,
         CommandInv, FullInv, TokenInv, vars, callVars, flagVars, resVars,
         irqVars, fwVars
<1>7. CASE ResultAvail
  BY <1>7
     DEF ResultAvail, TypeOK, Signals, Messages, AnyCommand, Lengths,
         CallStates, IrqStates, FwStates, AtIsr, AtDriver, AtCall, AtIset,
         AtFirmware, Reporting, Channel, OneToken, IrqInv, ResultInv,
         CommandInv, FullInv, TokenInv, vars, callVars, flagVars, resVars,
         irqVars, fwVars
<1>8. CASE Copy
  BY <1>8
     DEF Copy, TypeOK, Signals, Messages, AnyCommand, Lengths, CallStates,
         IrqStates, FwStates, AtIsr, AtDriver, AtCall, AtIset, AtFirmware,
         Reporting, Channel, OneToken, IrqInv, ResultInv, CommandInv, FullInv,
         TokenInv, vars, callVars, flagVars, resVars, irqVars, fwVars
<1>9. CASE IrqEnter
  BY <1>9
     DEF IrqEnter, TypeOK, Signals, Messages, AnyCommand, Lengths, CallStates,
         IrqStates, FwStates, AtIsr, AtDriver, AtCall, AtIset, AtFirmware,
         Reporting, Channel, OneToken, IrqInv, ResultInv, CommandInv, FullInv,
         TokenInv, vars, callVars, flagVars, resVars, irqVars, fwVars
<1>10. CASE IrqRead
  BY <1>10
     DEF IrqRead, TypeOK, Signals, Messages, AnyCommand, Lengths, CallStates,
         IrqStates, FwStates, AtIsr, AtDriver, AtCall, AtIset, AtFirmware,
         Reporting, Channel, OneToken, IrqInv, ResultInv, CommandInv, FullInv,
         TokenInv, vars, callVars, flagVars, resVars, irqVars, fwVars
<1>11. CASE IrqAvail
  BY <1>11
     DEF IrqAvail, TypeOK, Signals, Messages, AnyCommand, Lengths, CallStates,
         IrqStates, FwStates, AtIsr, AtDriver, AtCall, AtIset, AtFirmware,
         Reporting, Channel, OneToken, IrqInv, ResultInv, CommandInv, FullInv,
         TokenInv, vars, callVars, flagVars, resVars, irqVars, fwVars
<1>12. CASE IrqAckCmd
  BY <1>12
     DEF IrqAckCmd, TypeOK, Signals, Messages, AnyCommand, Lengths,
         CallStates, IrqStates, FwStates, AtIsr, AtDriver, AtCall, AtIset,
         AtFirmware, Reporting, Channel, OneToken, IrqInv, ResultInv,
         CommandInv, FullInv, TokenInv, vars, callVars, flagVars, resVars,
         irqVars, fwVars
<1>13. CASE IrqReady
  BY <1>13
     DEF IrqReady, TypeOK, Signals, Messages, AnyCommand, Lengths, CallStates,
         IrqStates, FwStates, AtIsr, AtDriver, AtCall, AtIset, AtFirmware,
         Reporting, Channel, OneToken, IrqInv, ResultInv, CommandInv, FullInv,
         TokenInv, vars, callVars, flagVars, resVars, irqVars, fwVars
<1>14. CASE IrqAckReady
  BY <1>14
     DEF IrqAckReady, TypeOK, Signals, Messages, AnyCommand, Lengths,
         CallStates, IrqStates, FwStates, AtIsr, AtDriver, AtCall, AtIset,
         AtFirmware, Reporting, Channel, OneToken, IrqInv, ResultInv,
         CommandInv, FullInv, TokenInv, vars, callVars, flagVars, resVars,
         irqVars, fwVars
<1>15. CASE FwBoot
  BY <1>15
     DEF FwBoot, TypeOK, Signals, Messages, AnyCommand, Lengths, CallStates,
         IrqStates, FwStates, AtIsr, AtDriver, AtCall, AtIset, AtFirmware,
         Reporting, Channel, OneToken, IrqInv, ResultInv, CommandInv, FullInv,
         TokenInv, vars, callVars, flagVars, resVars, irqVars, fwVars
<1>16. CASE FwTake
  BY <1>16
     DEF FwTake, TypeOK, Signals, Messages, AnyCommand, Lengths, CallStates,
         IrqStates, FwStates, AtIsr, AtDriver, AtCall, AtIset, AtFirmware,
         Reporting, Channel, OneToken, IrqInv, ResultInv, CommandInv, FullInv,
         TokenInv, vars, callVars, flagVars, resVars, irqVars, fwVars
<1>17. CASE FwNoResult
  BY <1>17
     DEF FwNoResult, TypeOK, Signals, Messages, AnyCommand, Lengths,
         CallStates, IrqStates, FwStates, AtIsr, AtDriver, AtCall, AtIset,
         AtFirmware, Reporting, Channel, OneToken, IrqInv, ResultInv,
         CommandInv, FullInv, TokenInv, vars, callVars, flagVars, resVars,
         irqVars, fwVars
<1>18. CASE FwReady
  BY <1>18
     DEF FwReady, TypeOK, Signals, Messages, AnyCommand, Lengths, CallStates,
         IrqStates, FwStates, AtIsr, AtDriver, AtCall, AtIset, AtFirmware,
         Reporting, Channel, OneToken, IrqInv, ResultInv, CommandInv, FullInv,
         TokenInv, vars, callVars, flagVars, resVars, irqVars, fwVars
<1>19. ASSUME NEW n \in 1 .. MAX_RESULT_LEN + 1, FwResult(n)
      PROVE  TokenInv'
  BY <1>19
     DEF FwResult, TypeOK, Signals, Messages, AnyCommand, Lengths, CallStates,
         IrqStates, FwStates, AtIsr, AtDriver, AtCall, AtIset, AtFirmware,
         Reporting, Channel, OneToken, IrqInv, ResultInv, CommandInv, FullInv,
         TokenInv, vars, callVars, flagVars, resVars, irqVars, fwVars
<1>20. CASE UNCHANGED vars
  BY <1>20
     DEF TypeOK, Signals, Messages, AnyCommand, Lengths, CallStates,
         IrqStates, FwStates, AtIsr, AtDriver, AtCall, AtIset, AtFirmware,
         Reporting, Channel, OneToken, IrqInv, ResultInv, CommandInv, FullInv,
         TokenInv, vars, callVars, flagVars, resVars, irqVars, fwVars
<1> QED
  BY <1>1, <1>2, <1>3, <1>4, <1>5, <1>6, <1>7, <1>8, <1>9, <1>10, <1>11,
     <1>12, <1>13, <1>14, <1>15, <1>16, <1>17, <1>18, <1>19, <1>20
     DEF Next, Caller, Irq, Firmware

\* While the firmware waits for a command the driver can send one or is about
\* to learn that it can, unless an acknowledgement took a READY with it.
THEOREM NoWedge == Spec => []ReadyNotLost
<1>1. Init => TokenInv
  BY DEF Init, TokenInv
<1>2. TokenInv => ReadyNotLost
  BY
     DEF TokenInv, ReadyNotLost, AtIsr, AtDriver, AtCall, AtIset, AtFirmware,
         Reporting
<1> QED
  BY <1>1, <1>2, TokenStep, ChannelInvariant, PTL DEF Spec

=============================================================================
