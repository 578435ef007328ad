------------------------------ MODULE TsOutput ------------------------------
(***************************************************************************)
(* Playback of a transport stream from memory on the full-featured card:   *)
(* the application writes packets to the ring buffer tsout, a work item    *)
(* moves them to FIFO 1 of the FPGA, and the FIFO's interrupt "empty" asks *)
(* for more. The state tsout_stat says whether the ring is being filled    *)
(* (FILL), emptied (RUN) or nothing is to be played (RESET).               *)
(*                                                                         *)
(* Four actors share the FIFO's control register, each by a read and a     *)
(* write: the writer, the work item (under tsout.lock), the interrupt      *)
(* handler and the ioctls. Lengths are in packets of TS_SIZE bytes; writes *)
(* keep to whole packets.                                                  *)
(***************************************************************************)
EXTENDS Integers, Sequences

CONSTANTS TsoutLen,     \* packets the ring has room for, and one more
          FifoLen,      \* packets the FIFO has room for
          MaxWrite,     \* packets in one write
          MaxPackets,   \* bound on the packets written
          MaxClears     \* bound on the ioctls

ASSUME TsoutLenAssumption == TsoutLen \in Nat /\ TsoutLen >= 2
ASSUME FifoLenAssumption == FifoLen \in Nat \ {0}
ASSUME MaxWriteAssumption == MaxWrite \in Nat \ {0}
ASSUME TsBoundsAssumption == MaxPackets \in Nat /\ MaxClears \in Nat

VARIABLES
  tsout,       \* the ring: packet numbers, pread, pwrite
  tsout_stat,  \* "RESET", "FILL" or "RUN"
  tsLock,      \* tsout.lock is held
  fifo,        \* the packets in the FIFO
  ctrl,        \* the bits of FIFO_CTRL: "reset", "on", "irq"
  fifo_work,   \* the work item is queued
  act,         \* each actor's step, with what it has left and has read
  written,     \* packets written so far
  moved,       \* the last packet moved to the FIFO, or written before a flush
  flushed,     \* packets written before the last flush
  source,      \* the source selected, "memory" or "demux"
  early,       \* packets were written while the last ioctl had not set FILL yet
  tsRaced,     \* something was changed on the strength of an old value
  clears       \* ioctls so far

tsVars == <<tsout, tsout_stat, tsLock, fifo, ctrl, fifo_work, act, written, moved,
            flushed, source, early, tsRaced, clears>>

Actors == {"writer", "worker", "irq", "ioctl"}
ActSteps == {"idle", "write", "test", "read", "kick", "copy", "lock", "run",
             "mask", "stat", "cancel", "start", "flush", "fill"}
Bits == {"reset", "on", "irq"}

Resting == [step |-> "idle", left |-> 0, read |-> {}]
Step(a) == act[a].step
Goto(a, step) == act' = [act EXCEPT ![a].step = step]

\* dvb_ringbuffer_avail() and dvb_ringbuffer_free(), which keeps one byte back.
Avail == (tsout.pwrite - tsout.pread + TsoutLen) % TsoutLen
Free  == TsoutLen - 1 - Avail

-----------------------------------------------------------------------------
(* Writer *)

\* dvb_video_write(): with tsout_stat RESET the data are dropped.
WriteBegin ==
  /\ Step("writer") = "idle" /\ tsout_stat # "RESET"
  /\ \E n \in 1 .. MaxWrite :
       /\ written + n <= MaxPackets
       /\ act' = [act EXCEPT !["writer"] = [Resting EXCEPT !.step = "write",
                                                           !.left = n]]
  /\ UNCHANGED <<tsout, tsout_stat, tsLock, fifo, ctrl, fifo_work, written, moved,
                 flushed, source, early, tsRaced, clears>>

\* ringbuffer_write_user() of one packet, once there is room.
WritePacket ==
  /\ Step("writer") = "write" /\ act["writer"].left > 0 /\ Free > 0
  /\ tsout' = [tsout EXCEPT !.data[tsout.pwrite] = written + 1,
                            !.pwrite = (@ + 1) % TsoutLen]
  /\ written' = written + 1
  /\ act' = [act EXCEPT !["writer"].left = @ - 1]
  /\ UNCHANGED <<tsout_stat, tsLock, fifo, ctrl, fifo_work, moved, flushed, source,
                 early, tsRaced, clears>>

\* All is written, or there is no room and the wait is interrupted or not wanted.
WriteEnough ==
  /\ Step("writer") = "write" /\ (act["writer"].left = 0 \/ Free = 0)
  /\ Goto("writer", "test")
  /\ UNCHANGED <<tsout, tsout_stat, tsLock, fifo, ctrl, fifo_work, written, moved,
                 flushed, source, early, tsRaced, clears>>

\* A mutant of WriteTest: a running FIFO is left to itself.
WriteTestFill ==
  /\ Step("writer") = "test"
  /\ Goto("writer", IF Avail > TsoutLen \div 3 THEN "read" ELSE "idle")
  /\ UNCHANGED <<tsout, tsout_stat, tsLock, fifo, ctrl, fifo_work, written, moved,
                 flushed, source, early, tsRaced, clears>>

\* The FIFO's interrupt is wanted when it runs or the ring is a third full.
WriteTest ==
  /\ Step("writer") = "test"
  /\ Goto("writer", IF tsout_stat = "RUN" \/ Avail > TsoutLen \div 3
                    THEN "read" ELSE "idle")
  /\ UNCHANGED <<tsout, tsout_stat, tsLock, fifo, ctrl, fifo_work, written, moved,
                 flushed, source, early, tsRaced, clears>>

-----------------------------------------------------------------------------
(* The control register: read, and written back with the bit changed *)

ReadCtrl(a) ==
  /\ Step(a) = "read"
  /\ act' = [act EXCEPT ![a].read = ctrl,
                        ![a].step = IF a = "irq" THEN "mask" ELSE "kick"]
  /\ UNCHANGED <<tsout, tsout_stat, tsLock, fifo, ctrl, fifo_work, written, moved,
                 flushed, source, early, tsRaced, clears>>

\* An ioctl's write since the register was read is undone. (Raced too is a handler
\* that masks the interrupt of a FIFO filled since: its work item may find no room
\* and leaves the interrupt masked.)
WriteBack(a, bits) ==
  /\ ctrl' = bits
  /\ tsRaced' = (tsRaced \/ ctrl \ {"irq"} # act[a].read \ {"irq"}
                        \/ (a = "irq" /\ fifo # <<>>))
  /\ act' = [act EXCEPT ![a] = Resting]
  /\ UNCHANGED <<tsout, tsout_stat, fifo, written, moved, flushed, source, early,
                 clears>>

\* The writer or the work item wants the interrupt "empty".
Kick(a) ==
  /\ Step(a) = "kick"
  /\ WriteBack(a, act[a].read \cup {"irq"})
  /\ tsLock' = (tsLock /\ a # "worker")
  /\ UNCHANGED fifo_work

\* FIFO 1 is empty: saa716x_ff_pci_irq() masks the interrupt and queues the work.
FifoEmptyIrq ==
  /\ Step("irq") = "idle" /\ "irq" \in ctrl /\ fifo = <<>>
  /\ Goto("irq", "read")
  /\ UNCHANGED <<tsout, tsout_stat, tsLock, fifo, ctrl, fifo_work, written, moved,
                 flushed, source, early, tsRaced, clears>>

FifoEmptyMask ==
  /\ Step("irq") = "mask"
  /\ WriteBack("irq", act["irq"].read \ {"irq"})
  /\ fifo_work' = TRUE /\ UNCHANGED tsLock

-----------------------------------------------------------------------------
(* Work item *)

\* fifo_worker(): what fits is moved, and nothing is done if nothing fits.
WorkBegin ==
  /\ fifo_work /\ Step("worker") = "idle" /\ fifo_work' = FALSE
  /\ LET room == FifoLen - Len(fifo)
         len == IF Avail > room THEN room ELSE Avail IN
     act' = IF tsout_stat = "RESET" \/ len <= 0 THEN act
            ELSE [act EXCEPT !["worker"] = [Resting EXCEPT !.step = "copy",
                                                           !.left = len]]
  /\ UNCHANGED <<tsout, tsout_stat, tsLock, fifo, ctrl, written, moved, flushed,
                 source, early, tsRaced, clears>>

\* ringbuffer_read_io32() of one packet. A FIFO held in reset takes nothing.
WorkCopy ==
  /\ Step("worker") = "copy"
  /\ LET p == tsout.data[tsout.pread] IN
     /\ fifo' = IF "reset" \in ctrl THEN fifo ELSE Append(fifo, p)
     /\ moved' = p
  /\ tsout' = [tsout EXCEPT !.pread = (@ + 1) % TsoutLen]
  /\ act' = [act EXCEPT !["worker"].left = @ - 1,
                        !["worker"].step = IF act["worker"].left = 1
                                           THEN "lock" ELSE "copy"]
  /\ UNCHANGED <<tsout_stat, tsLock, ctrl, fifo_work, written, flushed, source,
                 early, tsRaced, clears>>

\* Under tsout.lock, tsout_stat is tested ...
WorkLock ==
  /\ Step("worker") = "lock" /\ ~tsLock
  /\ IF tsout_stat = "RESET"
     THEN act' = [act EXCEPT !["worker"] = Resting] /\ tsLock' = FALSE
     ELSE Goto("worker", "run") /\ tsLock' = TRUE
  /\ UNCHANGED <<tsout, tsout_stat, fifo, ctrl, fifo_work, written, moved, flushed,
                 source, early, tsRaced, clears>>

\* ... and set to RUN; the interrupt is wanted (ReadCtrl, Kick).
WorkRun ==
  /\ Step("worker") = "run"
  /\ tsRaced' = (tsRaced \/ tsout_stat = "RESET")
  /\ tsout_stat' = "RUN"
  /\ Goto("worker", "read")
  /\ UNCHANGED <<tsout, tsLock, fifo, ctrl, fifo_work, written, moved, flushed,
                 source, early, clears>>

-----------------------------------------------------------------------------
(* ioctls *)

\* VIDEO_SELECT_SOURCE and VIDEO_CLEAR_BUFFER stop and reset the FIFO. The demux
\* source does so without the lock, and leaves it at that.
ResetFifo ==
  /\ Step("ioctl") = "idle" /\ clears < MaxClears
  /\ \E s \in {"memory", "demux"} :
       /\ source' = s
       /\ s = "memory" => ~tsLock
       /\ tsLock' = (tsLock \/ s = "memory")
  /\ ctrl' = {"reset"} /\ fifo' = <<>> /\ clears' = clears + 1
  /\ Goto("ioctl", "stat")
  /\ UNCHANGED <<tsout, tsout_stat, fifo_work, written, moved, flushed, tsRaced,
                 early>>

ResetStat ==
  /\ Step("ioctl") = "stat" /\ tsout_stat' = "RESET"
  /\ tsLock' = (tsLock /\ source = "demux")
  /\ Goto("ioctl", IF source = "demux" THEN "idle" ELSE "cancel")
  /\ UNCHANGED <<tsout, fifo, ctrl, fifo_work, written, moved, flushed, source,
                 early, tsRaced, clears>>

\* A mutant of CancelWork: a running work item is not waited for.
CancelQueued ==
  /\ Step("ioctl") = "cancel" /\ fifo_work' = FALSE
  /\ Goto("ioctl", "start")
  /\ UNCHANGED <<tsout, tsout_stat, tsLock, fifo, ctrl, written, moved, flushed,
                 source, early, tsRaced, clears>>

\* cancel_work_sync() waits for a running work item.
CancelWork ==
  /\ Step("ioctl") = "cancel" /\ Step("worker") = "idle" /\ fifo_work' = FALSE
  /\ Goto("ioctl", "start")
  /\ UNCHANGED <<tsout, tsout_stat, tsLock, fifo, ctrl, written, moved, flushed,
                 source, early, tsRaced, clears>>

StartFifo ==
  /\ Step("ioctl") = "start" /\ ctrl' = {"on"}
  /\ Goto("ioctl", "flush")
  /\ UNCHANGED <<tsout, tsout_stat, tsLock, fifo, fifo_work, written, moved,
                 flushed, source, early, tsRaced, clears>>

\* dvb_ringbuffer_flush().
FlushRing ==
  /\ Step("ioctl") = "flush"
  /\ tsout' = [tsout EXCEPT !.pread = tsout.pwrite]
  /\ moved' = written /\ flushed' = written
  /\ Goto("ioctl", "fill")
  /\ UNCHANGED <<tsout_stat, tsLock, fifo, ctrl, fifo_work, written, source, early,
                 tsRaced, clears>>

FillRing ==
  /\ Step("ioctl") = "fill" /\ tsout_stat' = "FILL"
  /\ Goto("ioctl", "idle") /\ early' = (Avail > 0)
  /\ UNCHANGED <<tsout, tsLock, fifo, ctrl, fifo_work, written, moved, flushed,
                 source, tsRaced, clears>>

-----------------------------------------------------------------------------
\* The FIFO plays a packet.
FifoPlays ==
  /\ fifo # <<>> /\ "on" \in ctrl
  /\ fifo' = Tail(fifo)
  /\ UNCHANGED <<tsout, tsout_stat, tsLock, ctrl, fifo_work, act, written, moved,
                 flushed, source, early, tsRaced, clears>>

TsInit ==
  /\ tsout = [data |-> [i \in 0 .. TsoutLen - 1 |-> 0], pread |-> 0, pwrite |-> 0]
  /\ tsout_stat = "RESET" /\ tsLock = FALSE /\ fifo = <<>> /\ ctrl = {"reset"}
  /\ fifo_work = FALSE /\ act = [a \in Actors |-> Resting]
  /\ written = 0 /\ moved = 0 /\ flushed = 0 /\ source = "demux"
  /\ tsRaced = FALSE /\ early = FALSE /\ clears = 0

TsNext ==
  \/ WriteBegin \/ WritePacket \/ WriteEnough \/ WriteTest
  \/ \E a \in {"writer", "worker"} : ReadCtrl(a) \/ Kick(a)
  \/ FifoEmptyIrq \/ ReadCtrl("irq") \/ FifoEmptyMask
  \/ WorkBegin \/ WorkCopy \/ WorkLock \/ WorkRun
  \/ ResetFifo \/ ResetStat \/ CancelWork \/ StartFifo \/ FlushRing \/ FillRing
  \/ FifoPlays

TsSpec == TsInit /\ [][TsNext]_tsVars

-----------------------------------------------------------------------------
(* Properties *)

TsTypeOK ==
  /\ tsout \in [data : [0 .. TsoutLen - 1 -> 0 .. MaxPackets],
                pread : 0 .. TsoutLen - 1, pwrite : 0 .. TsoutLen - 1]
  /\ tsout_stat \in {"RESET", "FILL", "RUN"} /\ source \in {"memory", "demux"}
  /\ fifo \in Seq(1 .. MaxPackets) /\ ctrl \subseteq Bits
  /\ act \in [Actors -> [step : ActSteps, left : 0 .. TsoutLen + MaxWrite,
                         read : SUBSET Bits]]
  /\ {tsLock, fifo_work, early, tsRaced} \subseteq BOOLEAN
  /\ {written, moved, flushed} \subseteq 0 .. MaxPackets
  /\ clears \in 0 .. MaxClears

\* The stream reaches the FIFO whole, in order and without a packet from before
\* the last flush: the ring holds what was written after the last packet moved,
\* the FIFO what was written after the flush; and a FIFO given to the demux stays
\* stopped. (Excepted are the states after a register or tsout_stat was written
\* back from a value read before another actor changed it.)
StreamIntact ==
  ~tsRaced =>
    /\ Avail = written - moved
    /\ \A k \in 0 .. Avail - 1 :
         tsout.data[(tsout.pread + k) % TsoutLen] = moved + 1 + k
    /\ \A i \in 1 .. Len(fifo) : fifo[i] > flushed
    /\ \A i \in 2 .. Len(fifo) : fifo[i] = fifo[i - 1] + 1
    /\ source = "demux" /\ Step("ioctl") = "idle" => tsout_stat = "RESET"

\* Data in the ring of a running FIFO, or a third of the ring, never wait unseen:
\* when neither the work item nor the handler nor an ioctl is at work and the
\* writer rests, or waits for room for a write that fits the ring, the interrupt
\* "empty" is on. (A writer turns it on only at its end: one that waits for room
\* while the ring is still in FILL waits for ever, and so does one whose write is
\* larger than the ring and began when the FIFO had found the ring empty. Those
\* states are excepted, and so are packets written before an ioctl has set FILL,
\* which wait for the next write, and the races above.)
NoLostKick ==
  /\ ~tsRaced /\ Avail > 0 /\ ~fifo_work
  /\ \A a \in {"worker", "irq", "ioctl"} : Step(a) = "idle"
  /\ \/ Step("writer") = "idle" /\ tsout_stat # "RESET"
        /\ (tsout_stat = "RUN" \/ (Avail > TsoutLen \div 3 /\ ~early))
     \/ Step("writer") = "write" /\ act["writer"].left > 0 /\ Free = 0
        /\ tsout_stat = "RUN" /\ MaxWrite < TsoutLen
  => "irq" \in ctrl

=============================================================================
