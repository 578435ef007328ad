----------------------------- MODULE StiCommand -----------------------------
(***************************************************************************)
(* The command channel between the driver of the full-featured card and   *)
(* the firmware of its STi7109: one mailbox for commands and results, an   *)
(* interrupt in each direction, the flags cmd_ready and result_avail.      *)
(*                                                                         *)
(* Callers hold cmd_lock for the whole call, so there is one call at a     *)
(* time. The interrupt handler runs on another CPU beside it. The firmware *)
(* takes a command, may answer, and reports READY when it is done with it. *)
(***************************************************************************)
EXTENDS Integers

CONSTANTS MAX_RESULT_LEN,  \* size of result_data (256 in saa716x_ff.h)
          Commands,        \* bound: identities of commands, reused in turn
          NoCommand        \* the identity of no command

ASSUME MaxResultLenAssumption == MAX_RESULT_LEN \in Nat \ {0}
ASSUME CommandsAssumption == Commands # {} /\ NoCommand \notin Commands

VARIABLES
  call,            \* where the call that holds cmd_lock stands
  cmd,             \* the command of the call
  cmd_ready, result_avail,       \* sti7109_dev's flags
  result_max_len, result_len,    \* sti7109_dev's lengths
  result_data,     \* the command whose result is in result_data
  answer,          \* history: what the last call to end gave its caller
  irq,             \* where saa716x_ff_pci_irq() stands
  phiISR,          \* local of saa716x_ff_pci_irq()
  length,          \* local of saa716x_ff_pci_irq()
  mailbox,         \* what is at ADDR_CMD_DATA
  iset,            \* FPGA_ADDR_PHI_ISET: the command signalled to the firmware
  emi_isr,         \* FPGA_ADDR_EMI_ISR: what is signalled to the driver
  fw,              \* what the firmware does
  fw_cmd,          \* the command the firmware works on
  lost             \* history: a READY was acknowledged before it was seen

callVars == <<call, cmd, result_max_len, answer>>
flagVars == <<cmd_ready, result_avail>>
resVars  == <<result_len, result_data>>
irqVars  == <<irq, phiISR, length>>
fwVars   == <<fw, fw_cmd>>
vars == <<call, cmd, cmd_ready, result_avail, result_max_len, result_len,
          result_data, answer, irq, phiISR, length, mailbox, iset, emi_isr, fw,
          fw_cmd, lost>>

Lengths     == 0 .. MAX_RESULT_LEN
AnyCommand  == Commands \cup {NoCommand}
Signals     == {"CMD", "READY"}
Messages    == [kind : {"none", "command", "result"}, of : AnyCommand,
                len : Nat]
CallStates  == {"idle", "ready", "write", "raise", "result", "copy"}
IrqStates   == {"idle", "read", "avail", "ackCmd", "ready", "ackReady"}
FwStates    == {"boot", "idle", "work", "done"}

Command(c)   == [kind |-> "command", of |-> c, len |-> 0]
Result(c, n) == [kind |-> "result", of |-> c, len |-> n]
NoAnswer     == [ret |-> "failed", cmd |-> NoCommand, of |-> NoCommand,
                 len |-> 0, max |-> 0]

\* A mutant of Least: a length is never cut.
LeastUncut(m, n) == m

Least(m, n) == IF m <= n THEN m ELSE n

Init ==
  /\ call = "idle"
  /\ cmd = NoCommand
  /\ cmd_ready = 0
  /\ result_avail = 0
  /\ result_max_len = 0
  /\ result_len = 0
  /\ result_data = NoCommand
  /\ answer = NoAnswer
  /\ irq = "idle"
  /\ phiISR = {}
  /\ length = 0
  /\ mailbox = [kind |-> "none", of |-> NoCommand, len |-> 0]
  /\ iset = NoCommand
  /\ emi_isr = {}
  /\ fw = "boot"
  /\ fw_cmd = NoCommand
  /\ lost = FALSE

-----------------------------------------------------------------------------
(* The call.                                                               *)

\* The call ends without an answer: -EIO after a second, or a signal.
Failed == [ret |-> "failed", cmd |-> cmd, of |-> NoCommand,
           len |-> 0, max |-> result_max_len]

\* sti7109_raw_cmd() with the caller's result_len, and the two commands of the
\* driver's own, which ask for MAX_RESULT_LEN. A caller's command is a new one.
RawCmd(c, max) ==
  /\ call = "idle"
  /\ c # cmd
  /\ call' = "ready"
  /\ cmd' = c
  /\ result_max_len' = max
  /\ UNCHANGED <<flagVars, resVars, answer, irqVars, mailbox, iset, emi_isr,
                 fwVars, lost>>

\* Time-out or signal while waiting for cmd_ready.
ReadyTimeout ==
  /\ call = "ready" /\ cmd_ready = 0
  /\ call' = "idle"
  /\ answer' = Failed
  /\ UNCHANGED <<cmd, result_max_len, flagVars, resVars, irqVars, mailbox, iset,
                 emi_isr, fwVars, lost>>

\* A mutant of Ready: a result that came too late stays available.
ReadyKeepsResult ==
  /\ call = "ready" /\ cmd_ready = 1
  /\ cmd_ready' = 0
  /\ call' = "write"
  /\ UNCHANGED <<cmd, result_max_len, result_avail, answer, resVars, irqVars,
                 mailbox, iset, emi_isr, fwVars, lost>>

Ready ==
  /\ call = "ready" /\ cmd_ready = 1
  /\ cmd_ready' = 0
  /\ result_avail' = 0
  /\ call' = "write"
  /\ UNCHANGED <<cmd, result_max_len, answer, resVars, irqVars, mailbox, iset,
                 emi_isr, fwVars, lost>>

\* saa716x_phi_write() of the command ...
Write ==
  /\ call = "write"
  /\ mailbox' = Command(cmd)
  /\ call' = "raise"
  /\ UNCHANGED <<cmd, result_max_len, answer, flagVars, resVars, irqVars, iset,
                 emi_isr, fwVars, lost>>

\* ... and the interrupt to the firmware. No result is waited for if the caller
\* has no room for one.
Raise ==
  /\ call = "raise"
  /\ iset' = cmd
  /\ call' = IF result_max_len > 0 THEN "result" ELSE "copy"
  /\ UNCHANGED <<cmd, result_max_len, answer, flagVars, resVars, irqVars,
                 mailbox, emi_isr, fwVars, lost>>

\* A mutant of ResultTimeout: the driver gives itself the mailbox back.
ResultTimeoutRearms ==
  /\ call = "result" /\ result_avail = 0
  /\ result_len' = 0
  /\ cmd_ready' = 1
  /\ call' = "idle"
  /\ answer' = Failed
  /\ UNCHANGED <<cmd, result_max_len, result_avail, result_data, irqVars,
                 mailbox, iset, emi_isr, fwVars, lost>>

\* Time-out or signal while waiting for the result.
ResultTimeout ==
  /\ call = "result" /\ result_avail = 0
  /\ result_len' = 0
  /\ call' = "idle"
  /\ answer' = Failed
  /\ UNCHANGED <<cmd, result_max_len, flagVars, result_data, irqVars, mailbox,
                 iset, emi_isr, fwVars, lost>>

\* "not enough space in result buffer".
ResultAvail ==
  /\ call = "result" /\ result_avail = 1
  /\ result_len' = Least(result_len, result_max_len)
  /\ call' = "copy"
  /\ UNCHANGED <<cmd, result_max_len, answer, flagVars, result_data, irqVars,
                 mailbox, iset, emi_isr, fwVars, lost>>

\* The caller gets result_len and that much of result_data.
Copy ==
  /\ call = "copy"
  /\ answer' = [ret |-> "ok", cmd |-> cmd, of |-> result_data,
                len |-> result_len, max |-> result_max_len]
  /\ call' = "idle"
  /\ UNCHANGED <<cmd, result_max_len, flagVars, resVars, irqVars, mailbox, iset,
                 emi_isr, fwVars, lost>>

-----------------------------------------------------------------------------
(* The interrupt handler, EXTINT_0 part, for the bits of this channel.     *)

IrqEnter ==
  /\ irq = "idle" /\ emi_isr # {}
  /\ phiISR' = emi_isr
  /\ irq' = IF "CMD" \in emi_isr THEN "read" ELSE "ready"
  /\ UNCHANGED <<callVars, flagVars, resVars, length, mailbox, iset, emi_isr,
                 fwVars, lost>>

\* The result is copied out of the mailbox ...
IrqRead ==
  /\ irq = "read"
  /\ length' = Least(mailbox.len, MAX_RESULT_LEN)
  /\ result_data' = mailbox.of
  /\ irq' = "avail"
  /\ UNCHANGED <<callVars, flagVars, result_len, phiISR, mailbox, iset, emi_isr,
                 fwVars, lost>>

\* ... its length is published, and the waiting call is woken ...
IrqAvail ==
  /\ irq = "avail"
  /\ result_len' = length
  /\ result_avail' = 1
  /\ irq' = "ackCmd"
  /\ UNCHANGED <<callVars, cmd_ready, result_data, phiISR, length, mailbox,
                 iset, emi_isr, fwVars, lost>>

\* A mutant of IrqAckCmd: every signal is acknowledged.
IrqAckCmdAll ==
  /\ irq = "ackCmd"
  /\ emi_isr' = {}
  /\ irq' = "ready"
  /\ UNCHANGED <<callVars, flagVars, resVars, phiISR, length, mailbox, iset,
                 fwVars, lost>>

\* ... before the interrupt is acknowledged.
IrqAckCmd ==
  /\ irq = "ackCmd"
  /\ emi_isr' = emi_isr \ {"CMD"}
  /\ irq' = "ready"
  /\ UNCHANGED <<callVars, flagVars, resVars, phiISR, length, mailbox, iset,
                 fwVars, lost>>

IrqReady ==
  /\ irq = "ready"
  /\ IF "READY" \in phiISR
     THEN cmd_ready' = 1 /\ irq' = "ackReady"
     ELSE irq' = "idle" /\ cmd_ready' = cmd_ready
  /\ UNCHANGED <<callVars, result_avail, resVars, phiISR, length, mailbox, iset,
                 emi_isr, fwVars, lost>>

IrqAckReady ==
  /\ irq = "ackReady"
  /\ emi_isr' = emi_isr \ {"READY"}
  /\ irq' = "idle"
  /\ UNCHANGED <<callVars, flagVars, resVars, phiISR, length, mailbox, iset,
                 fwVars, lost>>

-----------------------------------------------------------------------------
(* The firmware (external), as the driver relies on it.                    *)

FwBoot ==
  /\ fw = "boot"
  /\ emi_isr' = emi_isr \cup {"READY"}
  /\ fw' = "idle"
  /\ UNCHANGED <<callVars, flagVars, resVars, irqVars, mailbox, iset, fw_cmd,
                 lost>>

FwTake ==
  /\ fw = "idle" /\ iset # NoCommand
  /\ iset' = NoCommand
  /\ fw_cmd' = mailbox.of
  /\ fw' = "work"
  /\ UNCHANGED <<callVars, flagVars, resVars, irqVars, mailbox, emi_isr, lost>>

\* The result overwrites the command.
FwResult(n) ==
  /\ fw = "work"
  /\ mailbox' = Result(fw_cmd, n)
  /\ emi_isr' = emi_isr \cup {"CMD"}
  /\ fw' = "done"
  /\ UNCHANGED <<callVars, flagVars, resVars, irqVars, iset, fw_cmd, lost>>

\* A command without a result, or one the firmware does not answer.
FwNoResult ==
  /\ fw = "work"
  /\ fw' = "done"
  /\ UNCHANGED <<callVars, flagVars, resVars, irqVars, mailbox, iset, emi_isr,
                 fw_cmd, lost>>

\* READY follows the result. If the handler has yet to acknowledge the READY
\* before, that acknowledgement takes this one with it.
FwReady ==
  /\ fw = "done"
  /\ emi_isr' = emi_isr \cup {"READY"}
  /\ lost' = (lost \/ irq = "ackReady")
  /\ fw' = "idle"
  /\ UNCHANGED <<callVars, flagVars, resVars, irqVars, mailbox, iset, fw_cmd>>

-----------------------------------------------------------------------------
Caller ==
  \/ \E c \in Commands, max \in Lengths : RawCmd(c, max)
  \/ ReadyTimeout \/ Ready \/ Write \/ Raise \/ ResultTimeout \/ ResultAvail
  \/ Copy

Irq == IrqEnter \/ IrqRead \/ IrqAvail \/ IrqAckCmd \/ IrqReady \/ IrqAckReady

Firmware ==
  \/ FwBoot \/ FwTake \/ FwNoResult \/ FwReady
  \/ \E n \in 1 .. MAX_RESULT_LEN + 1 : FwResult(n)

Next == Caller \/ Irq \/ Firmware

Spec == Init /\ [][Next]_vars

-----------------------------------------------------------------------------
(* Properties.                                                             *)

TypeOK ==
  /\ call \in CallStates
  /\ cmd \in AnyCommand
  /\ cmd_ready \in {0, 1}
  /\ result_avail \in {0, 1}
  /\ result_max_len \in Lengths
  /\ result_len \in Lengths
  /\ result_data \in AnyCommand
  /\ answer \in [ret : {"ok", "failed"}, cmd : AnyCommand, of : AnyCommand,
                 len : Lengths, max : Lengths]
  /\ irq \in IrqStates
  /\ phiISR \in SUBSET Signals
  /\ length \in Lengths
  /\ mailbox \in Messages
  /\ iset \in AnyCommand
  /\ emi_isr \in SUBSET Signals
  /\ fw \in FwStates
  /\ fw_cmd \in AnyCommand
  /\ lost \in BOOLEAN

\* A call that waited for a result and succeeds gives its caller the result of
\* its own command, cut to the room the caller has: never the late result of a
\* command that timed out or was interrupted by a signal before it.
AnswerOfOwnCommand ==
  answer.ret = "ok" /\ answer.max > 0 =>
    answer.of = answer.cmd /\ answer.len \in 1 .. answer.max

\* Neither side overwrites what the other has yet to read in the mailbox: the
\* firmware finds the command signalled to it, the interrupt handler the result.
MailboxIntact ==
  /\ iset # NoCommand => mailbox = Command(iset)
  /\ irq = "read" => mailbox.kind = "result"
  /\ "CMD" \in emi_isr /\ irq = "idle" => mailbox.kind = "result"

\* While the firmware waits for a command the driver knows it can send one, or
\* is about to learn it: the channel does not wedge after time-outs and signals.
ReadyNotLost ==
  ~lost /\ fw = "idle" /\ iset = NoCommand =>
    cmd_ready = 1 \/ "READY" \in emi_isr \/ call \in {"write", "raise"}

-----------------------------------------------------------------------------
(* What the source says.                                                   *)

\* saa716x_ff_cmd.c:92, a result longer than the caller has room for is cut,
\* with the message "not enough space in result buffer".
ResultFits == answer.ret = "ok" => answer.len <= answer.max

=============================================================================
