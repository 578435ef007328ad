----------------------------- MODULE I2cTransfer -----------------------------
(***************************************************************************)
(* The I2C adapter and a register access on it. A transfer is tried three  *)
(* times; between the tries the controller is reset, which flushes its     *)
(* FIFOs. The capture card polls the controller after each byte; the       *)
(* full-featured card fills its transmit FIFO by blocks and waits 10 ms    *)
(* for an interrupt, that sets i2c_op to 0.                                *)
(*                                                                         *)
(* Above it, the HDMI receiver's registers lie in pages: the driver writes *)
(* the page register when the page it remembers is another one, and then   *)
(* reads or writes, all under page_lock.                                   *)
(*                                                                         *)
(* External is what the wire and the device do: words are taken in order,  *)
(* a word without a START before it is lost, and any word can be lost, or  *)
(* be taken while the driver is told that it failed.                       *)
(***************************************************************************)
EXTENDS Integers, Sequences

CONSTANTS I2cPages,      \* pages of the receiver's registers
          BlockSize,     \* block_size of the buffered mode
          MaxLen,        \* bytes in the longest message
          MaxI2cCalls,   \* bound on the register accesses
          MaxFaults      \* bound on the errors

ASSUME I2cPagesAssumption == I2cPages # {} /\ "0xff" \notin I2cPages
ASSUME BlockSizeAssumption == BlockSize \in Nat /\ BlockSize >= 2
ASSUME I2cBoundsAssumption ==
         MaxLen \in Nat \ {0} /\ MaxI2cCalls \in Nat /\ MaxFaults \in Nat

VARIABLES
  i2c,       \* the adapter: mode, i2c_op, the interrupt under way
  xf,        \* the transfer that holds i2c_lock
  bus,       \* the controller's FIFOs: words to send (tx), answers (rx)
  device,    \* the device: its page, the last word taken, the last write done
  statePage, \* state->page of the receiver's driver
  io,        \* the calls of io_read() and io_write()
  pageLock,  \* who holds page_lock
  pageLost,  \* a page write reported as failed was done, or the reverse
  last,      \* the last access that returned
  i2cCalls, faults

i2cVars == <<i2c, xf, bus, device, statePage, io, pageLock, pageLost, last, i2cCalls,
             faults>>

Threads == {"isr", "user"}
Nobody == "nobody"
Unset == "0xff"   \* the page remembered at probe is none of the device's
None == [ser |-> 0, msg |-> 0, n |-> 0]
SmallerOf(a, b) == IF a < b THEN a ELSE b

\* The messages of a transfer: the page register and a register write take two
\* bytes, a read writes the register number first. Only the devices of the
\* full-featured card are read and written by more bytes.
Messages(rd, len) ==
  IF rd THEN <<[rd |-> FALSE, len |-> 1], [rd |-> TRUE, len |-> len]>>
        ELSE <<[rd |-> FALSE, len |-> len]>>

NoXfer == [who |-> Nobody, step |-> "idle", ser |-> 0, try |-> 0, msgs |-> <<>>,
           msg |-> 1, n |-> 0, left |-> 0, size |-> 0, todo |-> 0, got |-> {},
           doubt |-> {}]

Polling == i2c.mode = "polling"
BlockBytes == IF Polling THEN 1 ELSE BlockSize
Msg == xf.msgs[xf.msg]
Call == io[xf.who]
Fault == faults < MaxFaults /\ faults' = faults + 1

-----------------------------------------------------------------------------
(* Wire and device (external) *)

\* The word the driver sends next, and what the device does on taking it.
Word ==
  LET final == ~Msg.rd /\ xf.n = Msg.len /\ xf.msg = Len(xf.msgs) IN
  [at |-> [ser |-> xf.ser, msg |-> xf.msg, n |-> xf.n],
   does |-> CASE xf.n = 0 -> "start"
              [] xf.n > 0 /\ Msg.rd -> "answer"
              [] final /\ Call.step = "page" -> "page"
              [] final /\ Call.step = "access" -> "write"
              [] OTHER -> "none",
   page |-> Call.page]

\* A word counts when it is a START or follows the word taken before.
Follows(w) == w.at.n = 0 \/ w.at = [device.seen EXCEPT !.n = @ + 1]

Take(w) ==
  device' = IF ~Follows(w) THEN [device EXCEPT !.seen = None]
            ELSE [seen |-> w.at,
                  page |-> IF w.does = "page" THEN w.page ELSE device.page,
                  done |-> IF w.does = "write" THEN <<w.at.ser, device.page>>
                           ELSE device.done]

Answer(w) ==
  IF Follows(w) /\ w.does = "answer" THEN <<<<w.at.ser, device.page>>>> ELSE <<>>

\* The buffered controller sends a word; when it has none left it interrupts. An
\* interrupt that comes before the driver waits for it is not the wait's own.
BusSends ==
  /\ bus.tx # <<>>
  /\ LET w == Head(bus.tx) IN
     /\ Take(w)
     /\ bus' = [tx |-> Tail(bus.tx), rx |-> bus.rx \o Answer(w)]
  /\ i2c' = IF Len(bus.tx) > 1 \/ i2c.irq # "none" THEN i2c
            ELSE [i2c EXCEPT !.irq = IF xf.step = "wait" THEN "own" ELSE "stale"]
  /\ UNCHANGED <<xf, statePage, io, pageLock, pageLost, last, i2cCalls, faults>>

-----------------------------------------------------------------------------
(* Controller *)

\* Writing 0xcc and the reset empty the FIFOs and end what is on the wire.
Flush == bus' = [tx |-> <<>>, rx |-> <<>>] /\ device' = [device EXCEPT !.seen = None]

\* saa716x_i2c_hwinit(): it succeeds, it fails before the flush (the lines are
\* held low), or it fails after (the reset, the interrupt enable, the state).
Hwinit(result) ==
  /\ result = "early" => UNCHANGED <<bus, device>>
  /\ result # "early" => Flush

\* saa716x_i2c_irqevent() does not take part: the card's handler ends the wait.
HandleI2cIrq ==
  /\ i2c.irq # "none"
  /\ i2c' = [i2c EXCEPT !.op = 0, !.irq = "none"]
  /\ xf' = IF i2c.irq = "stale" /\ i2c.op = 1
           THEN [xf EXCEPT !.doubt = @ \cup {"woken"}] ELSE xf
  /\ UNCHANGED <<bus, device, statePage, io, pageLock, pageLost, last, i2cCalls,
                 faults>>

-----------------------------------------------------------------------------
(* saa716x_i2c_write_msg() and saa716x_i2c_read_msg() *)

\* saa716x_i2c_irq_start(): i2c_op is set ...
I2cIrqStart ==
  /\ xf.step = "start"
  /\ xf' = [xf EXCEPT !.step = IF Polling THEN "send" ELSE "clear"]
  /\ i2c' = IF Polling THEN i2c
            ELSE [i2c EXCEPT !.op = 1, !.irq = IF @ = "none" THEN @ ELSE "stale"]
  /\ UNCHANGED <<bus, device, statePage, io, pageLock, pageLost, last, i2cCalls,
                 faults>>

\* ... and then the status is cleared, unless the interrupt is already on its way.
I2cIrqClear ==
  /\ xf.step = "clear"
  /\ xf' = [xf EXCEPT !.step = "send"]
  /\ \E irq \in {i2c.irq, "none"} : i2c' = [i2c EXCEPT !.irq = irq]
  /\ UNCHANGED <<bus, device, statePage, io, pageLock, pageLost, last, i2cCalls,
                 faults>>

\* After the START the first block begins, one byte shorter.
Sent == [xf EXCEPT !.n = @ + 1,
                   !.todo = IF xf.n = 0 THEN SmallerOf(BlockBytes - 1, xf.left) ELSE @ - 1,
                   !.size = IF xf.n = 0 THEN SmallerOf(BlockBytes - 1, xf.left) ELSE @]

Failed == xf' = [xf EXCEPT !.step = "retry"]
MoreToSend == xf.step = "send" /\ (xf.n = 0 \/ xf.todo > 0)

\* saa716x_i2c_send() in the buffered mode only fills the FIFO.
SendBuffered ==
  /\ MoreToSend /\ ~Polling
  /\ bus' = [bus EXCEPT !.tx = Append(@, Word)] /\ xf' = Sent
  /\ UNCHANGED <<i2c, device, statePage, io, pageLock, pageLost, last, i2cCalls,
                 faults>>

\* Polled, the word is sent before the next one; or it is lost, or it is taken but
\* the FIFO is not seen empty, and the transfer fails.
SendPolled ==
  /\ MoreToSend /\ Polling
  /\ \/ /\ Take(Word) /\ bus' = [bus EXCEPT !.rx = @ \o Answer(Word)]
        /\ \/ xf' = Sent /\ UNCHANGED faults
           \/ Failed /\ Fault
     \/ Failed /\ Fault /\ UNCHANGED <<bus, device>>
  /\ UNCHANGED <<i2c, statePage, io, pageLock, pageLost, last, i2cCalls>>

\* A FIFO that is busy before the word has the controller reset in mid message,
\* and the rest of the message is sent all the same: but for a START, into nothing.
SendReset ==
  /\ MoreToSend /\ Polling /\ Fault
  /\ \E result \in {"ok", "early", "late"} :
       /\ Hwinit(result)
       /\ IF result # "ok" THEN Failed
          ELSE IF xf.n = 0 THEN xf' = xf
          ELSE xf' = [Sent EXCEPT !.doubt = @ \cup {"cut"}]
  /\ UNCHANGED <<i2c, statePage, io, pageLock, pageLost, last, i2cCalls>>

SendDone ==
  /\ xf.step = "send" /\ xf.n > 0 /\ xf.todo = 0
  /\ xf' = [xf EXCEPT !.step = "wait"]
  /\ UNCHANGED <<i2c, bus, device, statePage, io, pageLock, pageLost, last, i2cCalls,
                 faults>>

\* saa716x_i2c_irq_wait(), which a polled controller passes.
WaitOk ==
  /\ xf.step = "wait" /\ (Polling \/ i2c.op = 0)
  /\ xf' = [xf EXCEPT !.step = "recv", !.todo = IF Msg.rd THEN xf.size ELSE 0]
  /\ UNCHANGED <<i2c, bus, device, statePage, io, pageLock, pageLost, last, i2cCalls,
                 faults>>

\* 10 ms have passed, or a signal came.
WaitTimeout ==
  /\ xf.step = "wait" /\ ~Polling /\ i2c.op = 1 /\ Fault
  /\ \E irq \in {i2c.irq, "none"} : i2c' = [i2c EXCEPT !.irq = irq]
  /\ Failed
  /\ UNCHANGED <<bus, device, statePage, io, pageLock, pageLost, last, i2cCalls>>

\* saa716x_i2c_recv(): it polls for a byte, and fails when none comes.
Recv ==
  /\ xf.step = "recv" /\ xf.todo > 0
  /\ \/ /\ bus.rx # <<>>
        /\ xf' = [xf EXCEPT !.todo = @ - 1, !.got = @ \cup {Head(bus.rx)}]
        /\ bus' = [bus EXCEPT !.rx = Tail(@)]
        /\ UNCHANGED faults
     \/ bus.rx = <<>> /\ Failed /\ Fault /\ UNCHANGED bus
  /\ UNCHANGED <<i2c, device, statePage, io, pageLock, pageLost, last, i2cCalls>>

\* The next block of the message, or the next message.
NextBlock ==
  /\ xf.step = "recv" /\ xf.todo = 0
  /\ xf.left > xf.size \/ xf.msg < Len(xf.msgs)
  /\ LET left == xf.left - xf.size
         size == SmallerOf(BlockBytes, left) IN
     xf' = IF left > 0
           THEN [xf EXCEPT !.step = "start", !.left = left, !.size = size,
                           !.todo = size]
           ELSE [xf EXCEPT !.step = "start", !.msg = @ + 1, !.n = 0, !.size = 0,
                           !.todo = 0, !.left = xf.msgs[xf.msg + 1].len]
  /\ UNCHANGED <<i2c, bus, device, statePage, io, pageLock, pageLost, last, i2cCalls,
                 faults>>

-----------------------------------------------------------------------------
(* saa716x_i2c_xfer() *)

\* What an earlier transfer left in the FIFOs is not flushed at the start.
XferBegin(p) ==
  /\ xf.who = Nobody /\ io[p].step \in {"page", "access"}
  /\ LET msgs == IF io[p].step = "page" THEN Messages(FALSE, 2)
                 ELSE Messages(io[p].rd, io[p].len) IN
     xf' = [NoXfer EXCEPT !.who = p, !.step = "start", !.ser = last.ser + 1,
                          !.msgs = msgs, !.left = msgs[1].len,
                          !.doubt = IF bus = [tx |-> <<>>, rx |-> <<>>] THEN {}
                                    ELSE {"left"}]
  /\ last' = [last EXCEPT !.ser = @ + 1]
  /\ UNCHANGED <<i2c, bus, device, statePage, io, pageLock, pageLost, i2cCalls, faults>>

\* A mutant of PageWritten: the page is remembered before it is written.
PageWrittenFirst(ok) == statePage' = Call.page

\* tda19978_setpage() remembers the page that was written.
PageWritten(ok) == statePage' = IF ok THEN Call.page ELSE statePage

\* The transfer is over; a page write is followed by the access, unless it failed.
Return(ok) ==
  /\ xf' = NoXfer
  /\ IF Call.step = "page"
     THEN /\ PageWritten(ok)
          /\ pageLost' = IF ok THEN xf.doubt # {}
                         ELSE pageLost \/ device.page = Call.page
          /\ io' = [io EXCEPT ![xf.who].step = IF ok THEN "access" ELSE "idle"]
          /\ pageLock' = IF ok THEN pageLock ELSE Nobody
          /\ UNCHANGED last
     ELSE /\ last' = [last EXCEPT !.ok = ok, !.rd = Call.rd,
                        !.doubt = xf.doubt \cup (IF pageLost THEN {"page"} ELSE {}),
                        !.asked = {<<xf.ser, Call.page>>},
                        !.got = IF Call.rd THEN xf.got ELSE {device.done}]
          /\ io' = [io EXCEPT ![xf.who].step = "idle"]
          /\ pageLock' = Nobody
          /\ UNCHANGED <<statePage, pageLost>>

XferDone ==
  /\ xf.step = "recv" /\ xf.todo = 0 /\ xf.left = xf.size /\ xf.msg = Len(xf.msgs)
  /\ Return(TRUE)
  /\ UNCHANGED <<i2c, bus, device, i2cCalls, faults>>

\* retry: the controller is reset; a reset that fails, or the third failed try, ends
\* the transfer.
XferRetry ==
  /\ xf.step = "retry"
  /\ \E result \in {"ok", "early", "late"} :
       /\ Hwinit(result)
       /\ IF result = "ok" /\ xf.try < 2
          THEN /\ xf' = [xf EXCEPT !.step = "start", !.try = @ + 1, !.ser = @ + 1,
                                   !.msg = 1, !.n = 0, !.size = 0, !.todo = 0,
                                   !.left = xf.msgs[1].len, !.got = {},
                                   !.doubt = {}]
               /\ last' = [last EXCEPT !.ser = @ + 1]
               /\ UNCHANGED <<io, statePage, pageLock, pageLost, faults>>
          ELSE /\ IF result = "ok" THEN UNCHANGED faults ELSE Fault
               /\ Return(FALSE)
  /\ UNCHANGED <<i2c, i2cCalls>>

-----------------------------------------------------------------------------
(* io_read() and io_write() *)

\* Under page_lock: the page register first, when the page is another one. (The
\* devices of the full-featured card have one page.)
IoBegin(p) ==
  /\ io[p].step = "idle" /\ pageLock = Nobody /\ i2cCalls < MaxI2cCalls
  /\ \E page \in IF Polling THEN I2cPages ELSE {statePage}, rd \in BOOLEAN :
       \E len \in IF Polling THEN {IF rd THEN 1 ELSE 2} ELSE 1 .. MaxLen :
         io' = [io EXCEPT ![p] =
                  [step |-> IF page = statePage THEN "access" ELSE "page",
                   page |-> page, rd |-> rd, len |-> len]]
  /\ pageLock' = p /\ i2cCalls' = i2cCalls + 1
  /\ UNCHANGED <<i2c, xf, bus, device, statePage, pageLost, last, faults>>

I2cInit ==
  /\ LET page == CHOOSE p \in I2cPages : TRUE IN
       /\ device = [page |-> page, seen |-> None, done |-> <<0, page>>]
       /\ \E mode \in {"polling", "buffered"} :
            /\ i2c = [mode |-> mode, op |-> 0, irq |-> "none"]
            /\ statePage = IF mode = "polling" THEN Unset ELSE page
       /\ io = [p \in Threads |-> [step |-> "idle", page |-> page, rd |-> FALSE,
                                   len |-> 1]]
  /\ xf = NoXfer /\ bus = [tx |-> <<>>, rx |-> <<>>]
  /\ pageLock = Nobody /\ pageLost = FALSE
  /\ last = [ok |-> FALSE, rd |-> FALSE, ser |-> 0, asked |-> {}, got |-> {},
             doubt |-> {}]
  /\ i2cCalls = 0 /\ faults = 0

I2cNext ==
  \/ \E p \in Threads : IoBegin(p) \/ XferBegin(p)
  \/ I2cIrqStart \/ I2cIrqClear \/ SendBuffered \/ SendPolled \/ SendReset \/ SendDone
  \/ WaitOk \/ WaitTimeout \/ Recv \/ NextBlock \/ XferDone \/ XferRetry
  \/ BusSends \/ HandleI2cIrq

I2cSpec == I2cInit /\ [][I2cNext]_i2cVars

-----------------------------------------------------------------------------
(* Properties *)

I2cTypeOK ==
  /\ i2c \in [mode : {"polling", "buffered"}, op : {0, 1},
              irq : {"none", "own", "stale"}]
  /\ xf.who \in Threads \cup {Nobody} /\ xf.try \in 0 .. 2
  /\ xf.step \in {"idle", "start", "clear", "send", "wait", "recv", "retry"}
  /\ xf.todo \in 0 .. SmallerOf(xf.left, BlockBytes)
  /\ xf.doubt \subseteq {"left", "woken", "cut"}
  /\ device.page \in I2cPages /\ statePage \in I2cPages \cup {Unset} /\ pageLost \in BOOLEAN
  /\ pageLock \in Threads \cup {Nobody}
  /\ \A p \in Threads : io[p].step \in {"idle", "page", "access"}
                        /\ (io[p].step # "idle" => pageLock = p)
  /\ i2cCalls \in 0 .. MaxI2cCalls /\ faults \in 0 .. MaxFaults

\* An access reported as done was done, by its own last try and on the page that
\* was asked for: a read returns what the device answered to it, a write was taken.
\* (Excepted is what the code cannot know: a page write reported as failed though
\* the device took it, until the next page write that succeeds; words or answers
\* left behind by a transfer whose reset failed; a message cut by a reset in its
\* middle; and for a write in the buffered mode, whose end only the interrupt
\* tells, a wait ended by an interrupt that came before the wait.)
AccessIsOwn ==
  last.ok /\ last.doubt \subseteq (IF last.rd THEN {"woken"} ELSE {})
  => last.got = last.asked

=============================================================================
