-------------------------- MODULE VipCaptureProofs --------------------------
(***************************************************************************)
(* Theorems about the video capture pipeline, for every number of ring     *)
(* slots and every set of buffers.                                         *)
(***************************************************************************)
EXTENDS VipCapture, SequenceTheorems, TLAPS

-----------------------------------------------------------------------------
(* The ring arithmetic.                                                    *)

\* The ring has at least one slot and one page table, and the successors and the
\* page tables of the slots stay inside it.
LEMMA RingType ==
  /\ 0 \in Index /\ 0 \in Tables
  /\ NumTables \in Nat \ {0}
  /\ \A t \in Tables : t \in Index
  /\ \A i \in Index : Inc(i) \in Index
  /\ \A t \in Tables : NextTable(t) \in Tables
  /\ \A i \in Index : QueueTable(i) \in Tables
<1>1. CASE PairedFields
  <2>1. VIP_BUFFERS % 2 = 0
    BY <1>1, PairedFieldsAssumption
  <2>2. VIP_BUFFERS = 2 * (VIP_BUFFERS \div 2)
    BY <2>1, VipBuffersAssumption
  <2>3. VIP_BUFFERS \div 2 \in Nat \ {0}
    BY <2>2, VipBuffersAssumption
  <2>4. \A i \in Index : i \div 2 \in 0 .. (VIP_BUFFERS \div 2) - 1
    BY <2>2, <2>3, VipBuffersAssumption DEF Index
  <2> QED
    BY <1>1, <2>2, <2>3, <2>4, VipBuffersAssumption
       DEF Index, Tables, NumTables, Inc, NextTable, QueueTable
<1>2. CASE ~PairedFields
  BY <1>2, VipBuffersAssumption
     DEF Index, Tables, NumTables, Inc, NextTable, QueueTable
<1> QED
  BY <1>1, <1>2

\* A number is its quotient and its remainder.
LEMMA DivMod ==
  ASSUME NEW i \in Nat, NEW n \in Nat \ {0}
  PROVE  i = n * (i \div n) + (i % n) /\ i \div n \in Nat /\ i % n \in 0 .. n - 1
BY SMT

\* A slot further on is the same page table, after the first field of two, or the
\* next one.
LEMMA SlotTable ==
  ASSUME NEW i \in Index
  PROVE  QueueTable(Inc(i)) = IF PairedFields /\ i % 2 = 0 THEN QueueTable(i)
                             ELSE NextTable(QueueTable(i))
<1>1. CASE PairedFields
  <2>1. VIP_BUFFERS = 2 * (VIP_BUFFERS \div 2) /\ VIP_BUFFERS \div 2 \in Nat \ {0}
    BY <1>1, PairedFieldsAssumption, VipBuffersAssumption
  <2>a. i \in Nat /\ i < VIP_BUFFERS /\ VIP_BUFFERS \in Nat
    BY VipBuffersAssumption DEF Index
  <2>b. i = 2 * (i \div 2) + (i % 2) /\ i % 2 \in {0, 1} /\ i \div 2 \in Nat
    <3>0. 2 \in Nat \ {0}
      OBVIOUS
    <3>1. i = 2 * (i \div 2) + (i % 2) /\ i % 2 \in 0 .. 2 - 1
      BY <2>a, <3>0, DivMod
    <3>2. i \div 2 \in Nat
      BY <2>a, <3>0, DivMod
    <3> QED
      BY <3>1, <3>2
  <2>2. /\ i \in Nat /\ i = 2 * (i \div 2) + (i % 2) /\ i % 2 \in {0, 1} /\ i \div 2 \in Nat
        /\ i < VIP_BUFFERS /\ VIP_BUFFERS \in Nat
    BY <2>a, <2>b
  <2>3. CASE i % 2 = 0
    <3>1. Inc(i) = i + 1 /\ (i + 1) \div 2 = i \div 2
      BY <2>1, <2>2, <2>3 DEF Inc
    <3> QED
      BY <1>1, <2>3, <3>1 DEF QueueTable
  <2>4. CASE i % 2 = 1
    <3>1. CASE i = VIP_BUFFERS - 1
      <4>1. Inc(i) = 0 /\ i \div 2 = VIP_BUFFERS \div 2 - 1 /\ 0 \div 2 = 0
        BY <2>1, <2>2, <2>4, <3>1 DEF Inc
      <4> QED
        BY <1>1, <2>4, <4>1 DEF QueueTable, NextTable, NumTables
    <3>2. CASE i # VIP_BUFFERS - 1
      <4>1. /\ Inc(i) = i + 1 /\ (i + 1) \div 2 = i \div 2 + 1
            /\ i \div 2 # VIP_BUFFERS \div 2 - 1
        BY <2>1, <2>2, <2>4, <3>2 DEF Inc
      <4> QED
        BY <1>1, <2>4, <4>1 DEF QueueTable, NextTable, NumTables
    <3> QED
      BY <3>1, <3>2
  <2> QED
    BY <2>2, <2>3, <2>4
<1>2. CASE ~PairedFields
  BY <1>2 DEF QueueTable, Inc, NextTable, NumTables
<1> QED
  BY <1>1, <1>2

\* The frame counter stays below its bound.
LEMMA SequenceType ==
  ASSUME NEW n \in 0 .. SeqWrap - 1
  PROVE  (n + 1) % SeqWrap \in 0 .. SeqWrap - 1
BY SeqWrapAssumption

-----------------------------------------------------------------------------
(* Types.                                                                  *)

\* videobuf2 only hands over a buffer it has: with that, TypeOK is inductive.
HandInv == ioctl = "hand" => queued_list # <<>>
DataInv == DataOK /\ HandInv
TypeInv == DataInv /\ FlagsOK

\* No action gives a flag anything but TRUE or FALSE.
LEMMA FlagsStep == FlagsOK /\ [Next]_vars => FlagsOK'
<1> SUFFICES ASSUME FlagsOK, [Next]_vars PROVE FlagsOK'
  OBVIOUS
<1> USE DEF FlagsOK, vb2Vars, listVars, taskletVars, engineVars, msiVars
<1>1. CASE User
  <2>1. ASSUME NEW b \in Buffers, QBufIdle(b) \/ QBufRunning(b) \/ DQBuf(b)
        PROVE  FlagsOK'
    BY <2>1, ZenonT(60) DEF QBufIdle, QBufRunning, DQBuf
  <2>2. CASE StreamOn \/ StreamOff
    BY <2>2, Zenon DEF StreamOn, StreamOff
  <2> QED
    BY <1>1, <2>1, <2>2, Zenon DEF User
<1>2. CASE IoctlStep
  <2>1. CASE Hand \/ FillTable \/ StartReset \/ StartFail \/ StartCapture
    BY <2>1, ZenonT(60) DEF Hand, FillTable, StartReset, StartFail, StartCapture
  <2>2. CASE StartUnmask \/ StopMask \/ StopCapture \/ StopIndex \/ StopReturn \/ Cancel
    BY <2>2, ZenonT(60)
       DEF StartUnmask, StopMask, StopCapture, StopIndex, StopReturn, Cancel
  <2> QED
    BY <1>2, <2>1, <2>2, Zenon DEF IoctlStep
<1>3. CASE IrqHandler \/ TaskletStart \/ EngineFrame
  BY <1>3, Zenon DEF IrqHandler, TaskletStart, EngineFrame
<1>4. CASE Worker
  <2>1. CASE WorkerTake
    <3>1. bumped' \in BOOLEAN
      <4>1. bumped' = (Mapped > NumTables)
        BY <2>1, Zenon DEF WorkerTake
      <4> HIDE DEF FlagsOK
      <4> QED
        BY <4>1
    <3> QED
      BY <2>1, <3>1, Zenon DEF WorkerTake
  <2>2. CASE WorkerTest \/ WorkerSkip \/ WorkerEmpty \/ WorkerDone \/ WorkerLoad
             \/ WorkerStore
    BY <2>2, ZenonT(60) DEF WorkerTest, WorkerSkip, WorkerEmpty, WorkerDone, WorkerLoad,
                            WorkerStore
  <2> QED
    BY <1>4, <2>1, <2>2, Zenon DEF Worker
<1>5. CASE UNCHANGED vars
  BY <1>5, Zenon DEF vars
<1> QED
  BY <1>1, <1>2, <1>3, <1>4, <1>5, Zenon DEF Next

\* The types hold at the start.
LEMMA TypeInit == Init => TypeInv
<1> SUFFICES ASSUME Init PROVE TypeInv
  OBVIOUS
<1>1. DataInv
  BY RingType, SeqWrapAssumption
     DEF Init, DataInv, HandInv, DataOK, VbStates, IoctlStates, TaskletStates, Contents
<1>2. FlagsOK
  BY Zenon DEF Init, FlagsOK
<1> QED
  BY <1>1, <1>2 DEF TypeInv

\* The ioctls keep the types.
LEMMA DataIoctl == DataInv /\ (User \/ IoctlStep) => DataInv'
<1> SUFFICES ASSUME DataInv, User \/ IoctlStep PROVE DataInv'
  OBVIOUS
<1> USE DEF DataInv, HandInv, DataOK, vb2Vars, listVars, taskletVars, engineVars, msiVars,
                     VbStates, IoctlStates, TaskletStates, Contents
<1>1. ASSUME NEW b \in Buffers, QBufIdle(b) PROVE DataInv'
  BY <1>1, AppendProperties DEF QBufIdle
<1>2. ASSUME NEW b \in Buffers, QBufRunning(b) PROVE DataInv'
  BY <1>2, AppendProperties DEF QBufRunning
<1>3. ASSUME NEW b \in Buffers, DQBuf(b) PROVE DataInv'
  BY <1>3 DEF DQBuf
<1>4. CASE StreamOn
  BY <1>4, VipBuffersAssumption DEF StreamOn
<1>5. CASE StreamOff
  BY <1>5 DEF StreamOff
<1>6. CASE Hand
  BY <1>6 DEF Hand
<1>7. CASE FillTable
  BY <1>7, RingType DEF FillTable
<1>8. CASE StartReset
  BY <1>8, RingType, SeqWrapAssumption DEF StartReset
<1>9. CASE StartFail
  BY <1>9 DEF StartFail, Returned
<1>10. CASE StartCapture
  BY <1>10 DEF StartCapture
<1>11. CASE StartUnmask
  BY <1>11 DEF StartUnmask
<1>12. CASE StopMask
  BY <1>12 DEF StopMask
<1>13. CASE StopCapture
  BY <1>13 DEF StopCapture
<1>14. CASE StopIndex
  BY <1>14, RingType DEF StopIndex
<1>15. CASE StopReturn
  BY <1>15 DEF StopReturn, Returned
<1>16. CASE Cancel
  BY <1>16 DEF Cancel
<1> QED
  BY <1>1, <1>2, <1>3, <1>4, <1>5, <1>6, <1>7, <1>8, <1>9, <1>10, <1>11, <1>12,
     <1>13, <1>14, <1>15, <1>16 DEF User, IoctlStep

\* The interrupt handler, the tasklet and the engine keep the types.
LEMMA DataOther ==
  DataInv /\ (IrqHandler \/ TaskletStart \/ Worker \/ EngineFrame) => DataInv'
<1> SUFFICES ASSUME DataInv, IrqHandler \/ TaskletStart \/ Worker \/ EngineFrame
             PROVE  DataInv'
  OBVIOUS
<1> USE DEF DataInv, HandInv, DataOK, vb2Vars, listVars, taskletVars, engineVars, msiVars,
                     VbStates, IoctlStates, TaskletStates, Contents
<1>1. CASE IrqHandler
  BY <1>1 DEF IrqHandler
<1>2. CASE TaskletStart
  BY <1>2 DEF TaskletStart, RingReset
<1>3. CASE WorkerTest
  BY <1>3 DEF WorkerTest
<1>4. CASE WorkerSkip
  BY <1>4 DEF WorkerSkip
<1>5. CASE WorkerEmpty
  BY <1>5 DEF WorkerEmpty
<1>6. CASE WorkerTake
  BY <1>6 DEF WorkerTake
<1>7. CASE WorkerDone
  BY <1>7, SequenceType DEF WorkerDone
<1>8. CASE WorkerLoad
  BY <1>8, RingType DEF WorkerLoad
<1>9. CASE WorkerStore
  BY <1>9, RingType DEF WorkerStore
<1>10. CASE EngineFrame
  BY <1>10, RingType DEF EngineFrame, Written
<1> QED
  BY <1>1, <1>2, <1>3, <1>4, <1>5, <1>6, <1>7, <1>8, <1>9, <1>10 DEF Worker

\* Each step keeps them.
LEMMA TypeStep == TypeInv /\ [Next]_vars => TypeInv'
<1> SUFFICES ASSUME TypeInv, [Next]_vars PROVE TypeInv'
  OBVIOUS
<1>1. DataInv'
  <2>1. CASE Next
    BY <2>1, DataIoctl, DataOther DEF Next, TypeInv
  <2>2. CASE UNCHANGED vars
    BY <2>2 DEF vars, TypeInv, DataInv, HandInv, DataOK
  <2> QED
    BY <2>1, <2>2
<1>2. FlagsOK'
  BY FlagsStep DEF TypeInv
<1> QED
  BY <1>1, <1>2 DEF TypeInv

\* Every variable keeps its type; in particular the three ring indices never
\* leave the ring.
THEOREM TypeCorrect == Spec => []TypeOK
<1>1. TypeInv => TypeOK
  BY DEF TypeInv, DataInv, TypeOK
<1> QED
  BY <1>1, TypeInit, TypeStep, PTL DEF Spec

-----------------------------------------------------------------------------
(* The inductive invariant.                                                *)

\* The ioctl's position tells whether the engine is started and what is left
\* of each list.
CtlInv ==
  /\ ioctl \in {"enable", "unmask", "stopMask", "stopCapture", "stopIndex",
                "stopReturn"} => start_called
  /\ ioctl \in {"hand", "start"} => ~start_called
  /\ start_called \/ ioctl = "start" => queued_list = <<>>
  /\ ~start_called /\ ioctl \notin {"hand", "fill", "start"} => buf_list = <<>>
  /\ ioctl = "cancel" => buf_list = <<>>
  /\ capturing => start_called /\ ioctl \notin {"enable", "stopIndex",
                                               "stopReturn", "cancel"}

\* Unless it straddles a reset, the tasklet finds nothing to do while the ring
\* is reset, up to the moment the engine is switched on.
CalmInv ==
  /\ ~stray /\ (RingReset \/ ioctl = "enable") =>
       /\ read_index = 0
       /\ tasklet = "idle" \/ (tasklet = "test" /\ write_index = 0)
  /\ ioctl = "enable" => bam_index = 0

\* The lists hold each buffer once and agree with videobuf2's states.
Distinct(s) == \A i, j \in 1 .. Len(s) : s[i] = s[j] => i = j
In(s, b)    == \E k \in 1 .. Len(s) : s[k] = b

Owners ==
  /\ Distinct(queued_list) /\ Distinct(buf_list)
  /\ tasklet = "took" => cb \in Buffers /\ ~In(buf_list, cb)
  /\ \A b \in Buffers :
       /\ vb_state[b] = "queued" <=> In(queued_list, b)
       /\ vb_state[b] = "active" <=> In(buf_list, b) \/ (tasklet = "took" /\ cb = b)

OwnerInv == TypeInv /\ CtlInv /\ CalmInv /\ (~stray => Owners)

\* What keeps list and ring in step: a whole ring of buffers is handed over
\* before the engine starts, the buffer whose table is being filled is the
\* last one of the list, and the worker stores the successor of read_index.
Handover ==
  /\ ~start_called /\ ioctl \in {"hand", "fill", "start"} =>
       Len(buf_list) + Len(queued_list) >= VIP_BUFFERS
  /\ ioctl = "enable" => Len(buf_list) >= VIP_BUFFERS
  /\ ioctl = "stopReturn" => mmu_q_index = 0
  /\ ioctl = "fill" => /\ vb \in Buffers
                       /\ buf_list = <<>> \/ buf_list[Len(buf_list)] = vb
  /\ tasklet = "store" => next_index = Inc(read_index)

AlignInv == OwnerInv /\ SlotAlignment /\ (~stray => Handover)

-----------------------------------------------------------------------------
(* Sequences without repetition.                                           *)

\* A list stays without repetition when something new is appended.
LEMMA AppendDistinct ==
  ASSUME NEW s \in Seq(Buffers), NEW x \in Buffers, Distinct(s), ~In(s, x)
  PROVE  /\ Distinct(Append(s, x))
         /\ \A b \in Buffers : In(Append(s, x), b) <=> In(s, b) \/ b = x
<1> DEFINE t == Append(s, x)
<1>1. /\ t \in Seq(Buffers) /\ Len(t) = Len(s) + 1 /\ Len(s) \in Nat
      /\ \A i \in 1 .. Len(s) : t[i] = s[i]
      /\ t[Len(s) + 1] = x
  BY AppendProperties
<1> HIDE DEF t
<1>2. Distinct(t)
  BY <1>1 DEF Distinct, In
<1>3. \A b \in Buffers : In(t, b) <=> In(s, b) \/ b = x
  BY <1>1 DEF In
<1> QED
  BY <1>2, <1>3 DEF t

\* It stays so without its head, which is then no longer in it.
LEMMA TailDistinct ==
  ASSUME NEW s \in Seq(Buffers), s # <<>>, Distinct(s)
  PROVE  /\ Head(s) \in Buffers /\ In(s, Head(s))
         /\ Tail(s) \in Seq(Buffers) /\ Len(Tail(s)) = Len(s) - 1
         /\ Distinct(Tail(s))
         /\ \A b \in Buffers : In(Tail(s), b) <=> In(s, b) /\ b # Head(s)
<1> DEFINE t == Tail(s)
<1>1. /\ Head(s) = s[1] /\ Head(s) \in Buffers /\ Len(s) \in Nat \ {0}
      /\ t \in Seq(Buffers) /\ Len(t) = Len(s) - 1
      /\ \A i \in 1 .. Len(s) - 1 : t[i] = s[i + 1]
  BY HeadTailProperties, EmptySeq
<1> HIDE DEF t
<1>2. In(s, Head(s))
  BY <1>1 DEF In
<1>3. Distinct(t)
  BY <1>1 DEF Distinct
<1>4. ASSUME NEW b \in Buffers PROVE In(t, b) <=> In(s, b) /\ b # Head(s)
  <2>1. In(t, b) => In(s, b) /\ b # Head(s)
    BY <1>1 DEF In, Distinct
  <2>2. In(s, b) /\ b # Head(s) => In(t, b)
    <3> SUFFICES ASSUME NEW k \in 1 .. Len(s), s[k] = b, b # Head(s) PROVE In(t, b)
      BY DEF In
    <3>1. k - 1 \in 1 .. Len(t) /\ t[k - 1] = b
      BY <1>1
    <3> QED
      BY <3>1 DEF In
  <2> QED
    BY <2>1, <2>2
<1> QED
  BY <1>1, <1>2, <1>3, <1>4 DEF t

\* The empty list repeats nothing.
LEMMA EmptyDistinct == Distinct(<<>>) /\ \A b : ~In(<<>>, b)
BY DEF Distinct, In

-----------------------------------------------------------------------------
(* The position of the ioctl and the calm tasklet.                         *)

\* The ioctl's position keeps telling what is started and what is left of the lists.
LEMMA CtlStep == TypeInv /\ CtlInv /\ [Next]_vars => CtlInv'
<1> SUFFICES ASSUME TypeInv, CtlInv, [Next]_vars PROVE CtlInv'
  OBVIOUS
<1> USE DEF CtlInv, vb2Vars, listVars, taskletVars, engineVars, msiVars
<1>1. ASSUME NEW b \in Buffers, QBufIdle(b) \/ QBufRunning(b) \/ DQBuf(b)
      PROVE  CtlInv'
  BY <1>1 DEF QBufIdle, QBufRunning, DQBuf
<1>2. CASE StreamOn \/ StreamOff
  <2>1. /\ UNCHANGED <<start_called, queued_list, buf_list, capturing>>
        /\ ioctl = "none" /\ ioctl' \in {"none", "hand", "stopMask", "cancel"}
        /\ ioctl' = "stopMask" => start_called
        /\ ioctl' \in {"hand", "cancel"} => ~start_called \/ StreamOn
    BY <1>2, Zenon DEF StreamOn, StreamOff
  <2>2. StreamOn /\ start_called => ioctl' = "none"
    BY <2>1, VipBuffersAssumption, EmptySeq DEF StreamOn
  <2>3. ioctl' # "cancel" \/ ~StreamOn
    BY Zenon DEF StreamOn
  <2> QED
    BY <2>1, <2>2, <2>3
<1>3. CASE Hand \/ FillTable
  BY <1>3 DEF Hand, FillTable
<1>4. CASE StartReset \/ StartFail \/ StartCapture \/ StartUnmask
  BY <1>4 DEF StartReset, StartFail, StartCapture, StartUnmask
<1>5. CASE StopMask \/ StopCapture \/ StopIndex \/ StopReturn \/ Cancel
  BY <1>5 DEF StopMask, StopCapture, StopIndex, StopReturn, Cancel
<1>6. CASE IrqHandler \/ TaskletStart \/ EngineFrame
  <2>1. CASE IrqHandler \/ TaskletStart
    BY <2>1 DEF IrqHandler, TaskletStart
  <2>2. CASE EngineFrame
    <3>1. UNCHANGED <<start_called, ioctl, queued_list, buf_list, capturing>>
      BY <2>2, Zenon DEF EngineFrame
    <3> QED
      BY <3>1
  <2> QED
    BY <1>6, <2>1, <2>2
<1>7. CASE WorkerTest \/ WorkerSkip \/ WorkerEmpty \/ WorkerDone \/ WorkerLoad
           \/ WorkerStore
  BY <1>7 DEF WorkerTest, WorkerSkip, WorkerEmpty, WorkerDone, WorkerLoad,
              WorkerStore
<1>8. CASE WorkerTake
  BY <1>8 DEF WorkerTake
<1>9. CASE UNCHANGED vars
  BY <1>9 DEF vars
<1> QED
  BY <1>1, <1>2, <1>3, <1>4, <1>5, <1>6, <1>7, <1>8, <1>9
     DEF Next, User, IoctlStep, Worker

\* While the ring is reset the tasklet finds nothing to do.
LEMMA CalmStep == TypeInv /\ CtlInv /\ CalmInv /\ [Next]_vars => CalmInv'
<1> SUFFICES ASSUME TypeInv, CtlInv, CalmInv, [Next]_vars PROVE CalmInv'
  OBVIOUS
<1> USE DEF CalmInv, RingReset, vb2Vars, listVars, taskletVars, engineVars, msiVars
<1>1. ASSUME NEW b \in Buffers, QBufIdle(b) \/ QBufRunning(b) \/ DQBuf(b)
      PROVE  CalmInv'
  BY <1>1 DEF QBufIdle, QBufRunning, DQBuf
<1>2. CASE StreamOn \/ StreamOff
  <2>1. /\ UNCHANGED <<start_called, read_index, tasklet, write_index, stray>>
        /\ ioctl = "none" /\ ioctl' # "enable" /\ ioctl' # "stopReturn"
        /\ ioctl' = "cancel" => ~start_called
    BY <1>2, Zenon DEF StreamOn, StreamOff
  <2> QED
    BY <2>1
<1>3. CASE Hand \/ FillTable
  BY <1>3 DEF Hand, FillTable
<1>4. CASE StartReset \/ StartFail \/ StartCapture \/ StartUnmask
  BY <1>4 DEF CtlInv, StartReset, StartFail, StartCapture, StartUnmask
<1>5. CASE StopMask \/ StopCapture \/ StopIndex \/ StopReturn \/ Cancel
  BY <1>5 DEF StopMask, StopCapture, StopIndex, StopReturn, Cancel
<1>6. CASE IrqHandler \/ TaskletStart \/ EngineFrame
  <2>1. CASE IrqHandler
    BY <2>1 DEF IrqHandler
  <2>2. CASE TaskletStart
    BY <2>2 DEF CtlInv, TaskletStart
  <2>3. CASE EngineFrame
    <3>1. /\ UNCHANGED <<start_called, ioctl, read_index, tasklet, write_index, stray>>
          /\ ioctl # "enable"
      BY <2>3, Zenon DEF CtlInv, EngineFrame
    <3> QED
      BY <3>1
  <2> QED
    BY <1>6, <2>1, <2>2, <2>3
<1>7. CASE WorkerTest \/ WorkerSkip \/ WorkerEmpty \/ WorkerDone \/ WorkerLoad
           \/ WorkerStore
  BY <1>7 DEF WorkerTest, WorkerSkip, WorkerEmpty, WorkerDone, WorkerLoad,
              WorkerStore
<1>8. CASE WorkerTake
  BY <1>8 DEF WorkerTake
<1>9. CASE UNCHANGED vars
  BY <1>9 DEF vars
<1> QED
  BY <1>1, <1>2, <1>3, <1>4, <1>5, <1>6, <1>7, <1>8, <1>9
     DEF Next, User, IoctlStep, Worker

-----------------------------------------------------------------------------
(* Who owns a buffer.                                                      *)

\* Once stray, always stray.
LEMMA StrayStep == [Next]_vars /\ ~stray' => ~stray
<1> SUFFICES ASSUME [Next]_vars, ~stray' PROVE ~stray
  OBVIOUS
<1>1. CASE StopIndex \/ TaskletStart
  BY <1>1, Zenon DEF StopIndex, TaskletStart
<1>2. CASE User
  BY <1>2, Zenon DEF User, QBufIdle, QBufRunning, DQBuf, StreamOn, StreamOff
<1>3. CASE Hand \/ FillTable \/ StartReset \/ StartFail \/ StartCapture \/ StartUnmask
  BY <1>3, Zenon DEF Hand, FillTable, StartReset, StartFail, StartCapture, StartUnmask
<1>4. CASE StopMask \/ StopCapture \/ StopReturn \/ Cancel \/ IrqHandler \/ EngineFrame
  BY <1>4, Zenon DEF StopMask, StopCapture, StopReturn, Cancel, IrqHandler, EngineFrame
<1>5. CASE Worker
  BY <1>5, Zenon DEF Worker, WorkerTest, WorkerSkip, WorkerEmpty, WorkerTake,
                     WorkerDone, WorkerLoad, WorkerStore
<1>6. CASE UNCHANGED vars
  BY <1>6, Zenon DEF vars
<1> QED
  BY <1>1, <1>2, <1>3, <1>4, <1>5, <1>6, Zenon DEF Next, IoctlStep

\* The ioctls keep each buffer with one owner.
LEMMA OwnersIoctl ==
  ASSUME TypeInv, CtlInv, CalmInv, Owners, ~stray, User \/ IoctlStep, ~stray'
  PROVE  Owners'
<1> USE DEF TypeInv, DataInv, DataOK
<1>1. ASSUME NEW b \in Buffers, QBufIdle(b) PROVE Owners'
  <2>1. Distinct(queued_list) /\ ~In(queued_list, b)
    BY <1>1 DEF QBufIdle, Owners
  <2>2. /\ Distinct(queued_list')
        /\ \A c \in Buffers : In(queued_list', c) <=> In(queued_list, c) \/ c = b
    BY <1>1, <2>1, AppendDistinct DEF QBufIdle
  <2>3. UNCHANGED <<buf_list, tasklet, cb>>
    BY <1>1 DEF QBufIdle, listVars, taskletVars
  <2>4. vb_state' = [vb_state EXCEPT ![b] = "queued"] /\ vb_state[b] = "user"
    BY <1>1 DEF QBufIdle
  <2> QED
    BY <2>2, <2>3, <2>4 DEF Owners
<1>2. ASSUME NEW b \in Buffers, QBufRunning(b) PROVE Owners'
  <2>1. Distinct(buf_list) /\ ~In(buf_list, b) /\ (tasklet = "took" => cb # b)
    BY <1>2 DEF QBufRunning, Owners
  <2>2. /\ Distinct(buf_list')
        /\ \A c \in Buffers : In(buf_list', c) <=> In(buf_list, c) \/ c = b
    BY <1>2, <2>1, AppendDistinct DEF QBufRunning
  <2>3. UNCHANGED <<queued_list, tasklet, cb>>
    BY <1>2 DEF QBufRunning, taskletVars
  <2>4. vb_state' = [vb_state EXCEPT ![b] = "active"] /\ vb_state[b] = "user"
    BY <1>2 DEF QBufRunning
  <2> QED
    BY <2>1, <2>2, <2>3, <2>4 DEF Owners
<1>3. ASSUME NEW b \in Buffers, DQBuf(b) PROVE Owners'
  BY <1>3 DEF DQBuf, Owners, listVars, taskletVars
<1>4. CASE Hand
  <2> DEFINE b == Head(queued_list)
  <2>1. /\ b \in Buffers /\ In(queued_list, b)
        /\ Distinct(queued_list')
        /\ \A c \in Buffers : In(queued_list', c) <=> In(queued_list, c) /\ c # b
    BY <1>4, TailDistinct DEF Hand, Owners, HandInv
  <2>2. vb_state[b] = "queued" /\ ~In(buf_list, b) /\ (tasklet = "took" => cb # b)
    BY <2>1 DEF Owners
  <2>3. /\ Distinct(buf_list')
        /\ \A c \in Buffers : In(buf_list', c) <=> In(buf_list, c) \/ c = b
    BY <1>4, <2>1, <2>2, AppendDistinct DEF Hand, Owners
  <2>4. UNCHANGED <<tasklet, cb>> /\ vb_state' = [vb_state EXCEPT ![b] = "active"]
    BY <1>4 DEF Hand, taskletVars
  <2> HIDE DEF b
  <2> QED
    BY <2>1, <2>2, <2>3, <2>4 DEF Owners
<1>5. CASE StartFail
  <2>1. queued_list = <<>> /\ start_called /\ tasklet # "took"
    BY <1>5 DEF StartFail, CtlInv, CalmInv
  <2>2. queued_list' = buf_list /\ buf_list' = <<>> /\ UNCHANGED <<tasklet, cb>>
    BY <1>5, <2>1, ConcatEmptySeq DEF StartFail, taskletVars
  <2>3. vb_state' = [c \in Buffers |-> IF In(buf_list, c) /\ vb_state[c] = "active"
                                      THEN "queued" ELSE vb_state[c]]
    BY <1>5 DEF StartFail, Returned, Listed, In
  <2>4. \A c \in Buffers : ~In(queued_list, c)
    BY <2>1, EmptyDistinct
  <2> QED
    BY <2>1, <2>2, <2>3, <2>4, EmptyDistinct DEF Owners
<1>6. CASE StopReturn
  <2>1. start_called /\ tasklet # "took"
    BY <1>6 DEF StopReturn, CtlInv, CalmInv, RingReset
  <2>2. buf_list' = <<>> /\ UNCHANGED <<queued_list, tasklet, cb>>
    BY <1>6 DEF StopReturn, taskletVars
  <2>3. vb_state' = [c \in Buffers |-> IF In(buf_list, c) /\ vb_state[c] = "active"
                                      THEN "error" ELSE vb_state[c]]
    BY <1>6 DEF StopReturn, Returned, Listed, In
  <2> QED
    BY <2>1, <2>2, <2>3, EmptyDistinct DEF Owners
<1>7. CASE Cancel
  <2>1. buf_list = <<>> /\ tasklet # "took"
    BY <1>7 DEF Cancel, CtlInv, CalmInv, RingReset
  <2>2. /\ queued_list' = <<>> /\ UNCHANGED <<buf_list, tasklet, cb>>
        /\ vb_state' = [c \in Buffers |-> "user"]
    BY <1>7 DEF Cancel, listVars, taskletVars
  <2> QED
    BY <2>1, <2>2, EmptyDistinct DEF Owners
<1>8. CASE StreamOn \/ StreamOff \/ FillTable \/ StartReset \/ StartCapture
           \/ StartUnmask \/ StopMask \/ StopCapture \/ StopIndex
  <2>1. UNCHANGED <<vb_state, queued_list, buf_list, tasklet, cb>>
    BY <1>8 DEF StreamOn, StreamOff, FillTable, StartReset, StartCapture, StartUnmask,
                StopMask, StopCapture, StopIndex, vb2Vars, listVars, taskletVars
  <2> QED
    BY <2>1 DEF Owners
<1> QED
  BY <1>1, <1>2, <1>3, <1>4, <1>5, <1>6, <1>7, <1>8 DEF User, IoctlStep

\* So do the engine and the tasklet.
LEMMA OwnersOther ==
  ASSUME TypeInv, Owners, IrqHandler \/ TaskletStart \/ Worker \/ EngineFrame
  PROVE  Owners'
<1> USE DEF TypeInv, DataInv, DataOK
<1>1. CASE WorkerTake
  <2>1. /\ cb' = Head(buf_list) /\ cb' \in Buffers /\ In(buf_list, cb')
        /\ Distinct(buf_list')
        /\ \A c \in Buffers : In(buf_list', c) <=> In(buf_list, c) /\ c # cb'
    BY <1>1, TailDistinct DEF WorkerTake, Owners
  <2>2. tasklet = "body" /\ tasklet' = "took" /\ UNCHANGED <<queued_list, vb_state>>
    BY <1>1 DEF WorkerTake, vb2Vars
  <2> QED
    BY <2>1, <2>2 DEF Owners
<1>2. CASE WorkerDone
  <2>1. cb \in Buffers /\ ~In(buf_list, cb) /\ vb_state[cb] = "active"
    BY <1>2 DEF WorkerDone, Owners
  <2>2. /\ vb_state' = [vb_state EXCEPT ![cb] = "done"]
        /\ tasklet = "took" /\ tasklet' = "advance" /\ UNCHANGED <<queued_list, buf_list>>
    BY <1>2, <2>1 DEF WorkerDone, listVars
  <2> QED
    BY <2>1, <2>2 DEF Owners
<1>3. CASE IrqHandler \/ TaskletStart \/ WorkerTest \/ WorkerSkip \/ WorkerEmpty
           \/ WorkerLoad \/ WorkerStore \/ EngineFrame
  <2>1. /\ UNCHANGED <<vb_state, queued_list, buf_list, cb>>
        /\ tasklet' = "took" <=> tasklet = "took"
    BY <1>3 DEF IrqHandler, TaskletStart, WorkerTest, WorkerSkip, WorkerEmpty,
                WorkerLoad, WorkerStore, EngineFrame, vb2Vars, listVars, taskletVars
  <2> QED
    BY <2>1 DEF Owners
<1> QED
  BY <1>1, <1>2, <1>3 DEF Worker

\* Each step keeps each buffer with one owner.
LEMMA OwnerStep == OwnerInv /\ [Next]_vars => OwnerInv'
<1> SUFFICES ASSUME OwnerInv, [Next]_vars PROVE OwnerInv'
  OBVIOUS
<1>1. TypeInv' /\ CtlInv' /\ CalmInv'
  BY TypeStep, CtlStep, CalmStep DEF OwnerInv
<1>2. ASSUME ~stray' PROVE Owners'
  <2>1. ~stray /\ Owners
    BY <1>2, StrayStep DEF OwnerInv
  <2>2. CASE Next
    BY <1>2, <2>1, <2>2, OwnersIoctl, OwnersOther DEF Next, OwnerInv
  <2>3. CASE UNCHANGED vars
    BY <2>1, <2>3 DEF vars, Owners
  <2> QED
    BY <2>2, <2>3
<1> QED
  BY <1>1, <1>2 DEF OwnerInv

\* At the start nobody has a buffer.
LEMMA OwnerInit == Init => OwnerInv
<1> SUFFICES ASSUME Init PROVE OwnerInv
  OBVIOUS
<1>1. CtlInv /\ CalmInv
  BY DEF Init, CtlInv, CalmInv
<1>2. Owners
  BY EmptyDistinct DEF Init, Owners
<1> QED
  BY <1>1, <1>2, TypeInit DEF OwnerInv

\* As long as the tasklet has not straddled a reset of the ring, each ACTIVE
\* buffer is in exactly one place: on buf_list once, or in the worker's hands.
THEOREM OneOwner == Spec => []SingleOwner
<1>1. OwnerInv => SingleOwner
  BY DEF OwnerInv, Owners, Distinct, In, SingleOwner, Listed
<1> QED
  BY <1>1, OwnerInit, OwnerStep, PTL DEF Spec

\* stop_streaming() keeps videobuf2's contract: nothing is ACTIVE afterwards.
THEOREM StopComplete == Spec => []StopReturnsAll
<1>1. OwnerInv => StopReturnsAll
  <2> SUFFICES ASSUME OwnerInv, ~stray, ioctl = "cancel", NEW b \in Buffers
               PROVE  vb_state[b] # "active"
    BY DEF StopReturnsAll
  <2>1. buf_list = <<>> /\ tasklet # "took"
    BY DEF OwnerInv, CtlInv, CalmInv, RingReset
  <2> QED
    BY <2>1, EmptyDistinct DEF OwnerInv, Owners
<1> QED
  BY <1>1, OwnerInit, OwnerStep, PTL DEF Spec

-----------------------------------------------------------------------------
(* The list and the ring.                                                  *)

\* Walking the page tables: a step is a distance of one, and the next table's
\* walk is one step ahead.
LEMMA TurnStep ==
  ASSUME NEW h \in Tables, NEW n \in Int
  PROVE  /\ Turn(h, n) \in Tables
         /\ Turn(h, 0) = h
         /\ Turn(h, n + 1) = NextTable(Turn(h, n))
         /\ Turn(NextTable(h), n - 1) = Turn(h, n)
<1> DEFINE N == NumTables
           q == (h + n) \div N
           r == (h + n) % N
<1>1. N \in Nat \ {0} /\ h \in 0 .. N - 1
  BY RingType DEF Tables
<1>2. h + n = N * q + r /\ q \in Int /\ r \in 0 .. N - 1
  BY <1>1, SMT
<1>3. \A a \in Int, b \in 0 .. N - 1 : (N * a + b) % N = b
  BY <1>1, SMT
<1> HIDE DEF N, q, r
<1>4. h % N = h
  BY <1>1, SMT
<1>5. (h + n + 1) % N = IF r = N - 1 THEN 0 ELSE r + 1
  <2>1. CASE r = N - 1
    <3>1. h + n + 1 = N * (q + 1) + 0 /\ q + 1 \in Int /\ 0 \in 0 .. N - 1
      BY <1>1, <1>2, <2>1, SMT
    <3>2. (N * (q + 1) + 0) % N = 0
      BY <1>3, <3>1
    <3> QED
      BY <2>1, <3>1, <3>2
  <2>2. CASE r # N - 1
    <3>1. h + n + 1 = N * q + (r + 1) /\ r + 1 \in 0 .. N - 1
      BY <1>1, <1>2, <2>2, SMT
    <3>2. (N * q + (r + 1)) % N = r + 1
      BY <1>2, <1>3, <3>1
    <3> QED
      BY <2>2, <3>1, <3>2
  <2> QED
    BY <2>1, <2>2
<1>6. (NextTable(h) + (n - 1)) % N = r
  <2>1. CASE h = N - 1
    <3>1. NextTable(h) + (n - 1) = N * (q - 1) + r /\ q - 1 \in Int
      BY <1>1, <1>2, <2>1, SMT DEF NextTable, N
    <3> QED
      BY <1>2, <1>3, <3>1
  <2>2. CASE h # N - 1
    <3>1. NextTable(h) + (n - 1) = N * q + r
      BY <1>1, <1>2, <2>2 DEF NextTable, N
    <3> QED
      BY <1>2, <1>3, <3>1
  <2> QED
    BY <2>1, <2>2
<1>7. Turn(h, n) = r
  BY DEF Turn, N, r
<1>8. Turn(h, 0) = h
  BY <1>1, <1>4 DEF Turn, N
<1>9. Turn(h, n + 1) = (h + n + 1) % N
  <2>1. h + (n + 1) = h + n + 1
    BY <1>1
  <2> QED
    BY <2>1 DEF Turn, N
<1>10. Turn(h, n + 1) = NextTable(Turn(h, n))
  BY <1>5, <1>7, <1>9 DEF NextTable, N
<1>11. Turn(NextTable(h), n - 1) = r
  BY <1>6 DEF Turn, N
<1> QED
  BY <1>2, <1>7, <1>8, <1>10, <1>11 DEF Tables, N

\* Two places less than a turn apart are different tables.
LEMMA TurnApart ==
  ASSUME NEW h \in Tables, NEW m \in Int, NEW n \in Int, m < n, n < m + NumTables
  PROVE  Turn(h, m) # Turn(h, n)
<1> DEFINE N == NumTables
           q == (h + m) \div N
           r == (h + m) % N
           p == (h + n) \div N
           t == (h + n) % N
<1>1. N \in Nat \ {0} /\ h \in 0 .. N - 1
  BY RingType DEF Tables
<1>2. h + m = N * q + r /\ q \in Int /\ r \in 0 .. N - 1
  BY <1>1, SMT
<1>3. h + n = N * p + t /\ p \in Int /\ t \in 0 .. N - 1
  BY <1>1, SMT
<1>4. Turn(h, m) = r /\ Turn(h, n) = t
  BY DEF Turn, N, r, t
<1>5. m < n /\ n < m + N
  OBVIOUS
<1> HIDE DEF N, q, r, p, t
<1>6. SUFFICES ASSUME r = t PROVE FALSE
  BY <1>4
<1>7. N * p > N * q /\ N * p < N * q + N
  BY <1>1, <1>2, <1>3, <1>5, <1>6, SMT
<1>8. N * p < N * (q + 1) /\ N * q < N * p
  BY <1>1, <1>2, <1>3, <1>7, SMT
<1>9. p < q + 1
  <2>1. p >= q + 1 => N * p >= N * (q + 1)
    BY <1>1, <1>2, <1>3, SMT
  <2> QED
    BY <1>1, <1>2, <1>3, <1>8, <2>1, SMT
<1>10. p > q
  <2>1. p <= q => N * p <= N * q
    BY <1>1, <1>2, <1>3, SMT
  <2> QED
    BY <1>1, <1>2, <1>3, <1>8, <2>1, SMT
<1> QED
  BY <1>2, <1>3, <1>9, <1>10

\* A whole turn passes every table.
LEMMA TurnReach ==
  ASSUME NEW h \in Tables, NEW j \in Tables, NEW n \in Nat, n >= NumTables
  PROVE  \E k \in 1 .. n : k + NumTables > n /\ Turn(h, k - 1) = j
<1> DEFINE N == NumTables
           q == (h + n - 1 - j) \div N
           r == (h + n - 1 - j) % N
<1>1. N \in Nat \ {0} /\ h \in 0 .. N - 1 /\ j \in 0 .. N - 1 /\ n >= N
  BY RingType DEF Tables
<1>2. h + n - 1 - j = N * q + r /\ q \in Int /\ r \in 0 .. N - 1
  BY <1>1, SMT
<1>3. \A a \in Int, b \in 0 .. N - 1 : (N * a + b) % N = b
  BY <1>1, SMT
<1> HIDE DEF N, q, r
<1>4. n - r \in 1 .. n /\ n - r + N > n
  BY <1>1, <1>2
<1>5. h + (n - r - 1) = N * q + j
  BY <1>1, <1>2, SMT
<1>6. Turn(h, n - r - 1) = j
  BY <1>1, <1>2, <1>3, <1>5 DEF Turn, N
<1> QED
  BY <1>4, <1>6 DEF N

\* A step that leaves list, tables and indices alone keeps them in step.
LEMMA AlignedFrame ==
  ASSUME Aligned, UNCHANGED <<buf_list, dma_buf, mmu_q_index>>, HeadTable' = HeadTable,
         ioctl' = "fill" <=> ioctl = "fill"
  PROVE  Aligned'
BY DEF Aligned, Turn, Mapped

\* buffer_queue() appends a buffer before it points a page table at it.
LEMMA AlignedAppend ==
  ASSUME Aligned,
         Len(buf_list) \in Nat, Len(buf_list') = Len(buf_list) + 1,
         \A k \in 1 .. Len(buf_list) : buf_list'[k] = buf_list[k],
         ioctl # "fill", ioctl' = "fill", HeadTable' = HeadTable,
         UNCHANGED <<dma_buf, mmu_q_index>>
  PROVE  Aligned'
<1>1. Mapped' = Mapped /\ Mapped = Len(buf_list)
  BY DEF Mapped
<1> QED
  BY <1>1 DEF Aligned, Turn

\* List and ring stay in step where one is handed over to the other.
LEMMA HandoverStep ==
  ASSUME OwnerInv, ~stray, Handover, [Next]_vars, ~stray'
  PROVE  Handover'
<1> USE DEF OwnerInv, TypeInv, DataInv, DataOK, Handover, vb2Vars, listVars,
            taskletVars, engineVars, msiVars
<1>0. Len(buf_list) \in Nat /\ Len(queued_list) \in Nat
  BY LenProperties
<1>1. ASSUME NEW b \in Buffers, QBufIdle(b) PROVE Handover'
  <2>1. Len(queued_list') = Len(queued_list) + 1
    BY <1>1, AppendProperties DEF QBufIdle
  <2>2. /\ ioctl' \in {"none", "hand"}
        /\ ioctl' = "hand" => Len(queued_list) + 1 >= VIP_BUFFERS
    BY <1>1, Zenon DEF QBufIdle
  <2>3. UNCHANGED <<start_called, buf_list, tasklet, next_index, read_index>>
    BY <1>1, Zenon DEF QBufIdle
  <2> QED
    BY <1>0, <2>1, <2>2, <2>3, VipBuffersAssumption
<1>2. ASSUME NEW b \in Buffers, QBufRunning(b) PROVE Handover'
  <2>1. buf_list'[Len(buf_list')] = b
    BY <1>2, AppendProperties DEF QBufRunning
  <2> QED
    BY <1>2, <2>1 DEF QBufRunning
<1>3. CASE Hand
  <2>1. Head(queued_list) \in Buffers /\ Len(queued_list') = Len(queued_list) - 1
    BY <1>3, HeadTailProperties DEF Hand, HandInv
  <2>2. /\ Len(buf_list') = Len(buf_list) + 1
        /\ buf_list'[Len(buf_list')] = Head(queued_list)
    BY <1>3, <2>1, AppendProperties DEF Hand
  <2>3. /\ ioctl = "hand" /\ ioctl' = "fill" /\ vb' = Head(queued_list)
        /\ UNCHANGED <<start_called, tasklet, next_index, read_index>>
    BY <1>3 DEF Hand
  <2>4. ~start_called
    BY <2>3 DEF CtlInv
  <2> QED
    BY <1>0, <2>1, <2>2, <2>3, <2>4, VipBuffersAssumption
<1>4. CASE FillTable
  BY <1>4 DEF FillTable
<1>5. CASE StartReset
  <2>1. queued_list = <<>> /\ ~start_called
    BY <1>5 DEF StartReset, CtlInv
  <2> QED
    BY <1>0, <1>5, <2>1, EmptySeq DEF StartReset
<1>6. CASE StartFail \/ StartCapture \/ StartUnmask
  BY <1>6 DEF StartFail, StartCapture, StartUnmask
<1>7. CASE StopMask \/ StopCapture \/ StopIndex \/ StopReturn \/ Cancel
  BY <1>7 DEF StopMask, StopCapture, StopIndex, StopReturn, Cancel
<1>8. CASE StreamOn
  <2>1. /\ ioctl' \in {"none", "hand"}
        /\ ioctl' = "hand" => Len(queued_list) >= VIP_BUFFERS
        /\ UNCHANGED <<start_called, buf_list, queued_list, tasklet, next_index, read_index>>
    BY <1>8, Zenon DEF StreamOn
  <2> QED
    BY <1>0, <2>1, VipBuffersAssumption
<1>9. ASSUME NEW b \in Buffers, DQBuf(b) PROVE Handover'
  BY <1>9 DEF DQBuf
<1>10. CASE StreamOff \/ IrqHandler \/ TaskletStart \/ EngineFrame
  BY <1>10 DEF StreamOff, IrqHandler, TaskletStart, EngineFrame
<1>11. CASE WorkerTest \/ WorkerSkip \/ WorkerEmpty \/ WorkerDone \/ WorkerLoad
            \/ WorkerStore
  BY <1>11 DEF WorkerTest, WorkerSkip, WorkerEmpty, WorkerDone, WorkerLoad, WorkerStore
<1>12. CASE WorkerTake
  <2>1. start_called /\ ioctl \notin {"enable", "stopReturn"}
    BY <1>12 DEF WorkerTake, CalmInv, RingReset
  <2>2. \/ buf_list' = <<>>
        \/ buf_list'[Len(buf_list')] = buf_list[Len(buf_list)] /\ buf_list # <<>>
    BY <1>12, HeadTailProperties, LenProperties, EmptySeq DEF WorkerTake
  <2> QED
    BY <1>12, <2>1, <2>2 DEF WorkerTake
<1>13. CASE UNCHANGED vars
  BY <1>13 DEF vars
<1> QED
  BY <1>1, <1>2, <1>3, <1>4, <1>5, <1>6, <1>7, <1>8, <1>9, <1>10, <1>11, <1>12, <1>13
     DEF Next, User, IoctlStep, Worker

\* Only a start that fails, or the reset of the indices, changes the skew.
LEMMA SkewStep ==
  ASSUME [Next]_vars, ~StartFail, ~StopIndex
  PROVE  skewed' = skewed
BY Zenon
   DEF Next, User, IoctlStep, Worker, QBufIdle, QBufRunning, DQBuf, StreamOn, StreamOff,
       Hand, FillTable, StartReset, StartCapture, StartUnmask, StopMask, StopCapture,
       StopReturn, Cancel, IrqHandler, TaskletStart, EngineFrame, WorkerTest, WorkerSkip,
       WorkerEmpty, WorkerTake, WorkerDone, WorkerLoad, WorkerStore, vars, listVars

\* With no buffer listed, list and ring are in step when their indices are.
LEMMA AlignedEmpty ==
  ASSUME buf_list = <<>>, ioctl # "fill", HeadTable \in Tables, mmu_q_index = HeadTable
  PROVE  Aligned
<1>1. Mapped = 0
  BY EmptySeq DEF Mapped
<1>2. Turn(HeadTable, 0) = HeadTable
  BY TurnStep
<1> QED
  BY <1>1, <1>2 DEF Aligned

\* The worker's buffer leaves the list, and the head moves to the next table.
LEMMA AlignedTake ==
  ASSUME Aligned, Len(buf_list) \in Nat \ {0}, Len(buf_list') = Len(buf_list) - 1,
         \A k \in 1 .. Len(buf_list') : buf_list'[k] = buf_list[k + 1],
         HeadTable \in Tables, HeadTable' = NextTable(HeadTable),
         UNCHANGED <<ioctl, dma_buf, mmu_q_index>>
  PROVE  Aligned'
<1>1. Mapped \in Int /\ Mapped' = Mapped - 1 /\ Mapped' <= Len(buf_list') /\ NumTables \in Nat
  BY RingType DEF Mapped
<1>2. \A n \in Int : Turn(HeadTable', n - 1) = Turn(HeadTable, n)
  BY TurnStep
<1>3. mmu_q_index' = Turn(HeadTable', Mapped')
  BY <1>1, <1>2 DEF Aligned
<1>4. ASSUME NEW k \in 1 .. Mapped', k + NumTables > Mapped'
      PROVE  dma_buf'[Turn(HeadTable', k - 1)] = buf_list'[k]
  <2>1. k + 1 \in 1 .. Mapped /\ (k + 1) + NumTables > Mapped /\ k \in 1 .. Len(buf_list')
    BY <1>1, <1>4
  <2>2. dma_buf[Turn(HeadTable, (k + 1) - 1)] = buf_list[k + 1]
    BY <2>1 DEF Aligned
  <2>3. Turn(HeadTable', k - 1) = Turn(HeadTable, (k + 1) - 1)
    <3>1. (k + 1) - 1 = k
      OBVIOUS
    <3> QED
      BY <1>2, <3>1
  <2> QED
    BY <2>1, <2>2, <2>3
<1>5. \A k \in 1 .. Mapped' :
        k + NumTables > Mapped' => dma_buf'[Turn(HeadTable', k - 1)] = buf_list'[k]
  BY <1>4
<1> QED
  BY <1>3, <1>5 DEF Aligned, Turn

\* The next table is pointed at the last buffer of the list, and the others of the
\* last turn have kept theirs.
LEMMA AlignedFill ==
  ASSUME Aligned, FillTable, Len(buf_list) \in Nat, mmu_q_index \in Tables,
         dma_buf \in [Index -> Buffers \cup {NoBuf}],
         buf_list = <<>> \/ buf_list[Len(buf_list)] = vb,
         HeadTable \in Tables, HeadTable' = HeadTable
  PROVE  Aligned'
<1>1. /\ ioctl = "fill" /\ buf_list' = buf_list /\ mmu_q_index' = NextTable(mmu_q_index)
      /\ dma_buf' = [dma_buf EXCEPT ![mmu_q_index] = vb] /\ ioctl' # "fill"
  BY Zenon DEF FillTable
<1> DEFINE m == Len(buf_list)
<1>2. Mapped = m - 1 /\ Mapped' = m /\ m \in Nat /\ NumTables \in Nat \ {0}
  BY <1>1, RingType DEF Mapped
<1>3. mmu_q_index = Turn(HeadTable, m - 1)
  BY <1>2 DEF Aligned
<1>4. mmu_q_index' = Turn(HeadTable, m)
  <2>1. m - 1 \in Int /\ (m - 1) + 1 = m
    BY <1>2
  <2> HIDE DEF m
  <2>2. Turn(HeadTable, (m - 1) + 1) = NextTable(Turn(HeadTable, m - 1))
    BY <2>1, TurnStep
  <2> QED
    BY <1>1, <1>3, <2>1, <2>2
<1>5. ASSUME NEW k \in 1 .. m, k + NumTables > m
      PROVE  dma_buf'[Turn(HeadTable, k - 1)] = buf_list'[k]
  <2>1. Turn(HeadTable, k - 1) \in Tables /\ Turn(HeadTable, k - 1) \in Index
    <3>1. k - 1 \in Int
      OBVIOUS
    <3> QED
      BY <3>1, TurnStep, RingType
  <2>2. CASE k = m
    <3>1. buf_list[k] = vb
      BY <1>2, <2>2, EmptySeq
    <3> QED
      BY <1>1, <1>3, <2>1, <2>2, <3>1
  <2>3. CASE k # m
    <3>1. k - 1 \in Int /\ m - 1 \in Int /\ k - 1 < m - 1 /\ m - 1 < (k - 1) + NumTables
      BY <1>2, <1>5, <2>3
    <3>2. Turn(HeadTable, k - 1) # Turn(HeadTable, m - 1)
      <4> HIDE DEF m
      <4> QED
        BY <3>1, TurnApart
    <3>3. k \in 1 .. Mapped /\ k + NumTables > Mapped
      BY <1>2, <1>5, <2>3
    <3>4. dma_buf[Turn(HeadTable, k - 1)] = buf_list[k]
      BY <3>3 DEF Aligned
    <3> QED
      BY <1>1, <1>3, <2>1, <3>2, <3>4
  <2> QED
    BY <2>2, <2>3
<1> QED
  BY <1>1, <1>2, <1>4, <1>5 DEF Aligned, Turn

\* Each action keeps list and ring in step.
LEMMA AlignedStep ==
  ASSUME OwnerInv, OwnerInv', ~stray, ~stray', ~skewed', Handover, SlotAlignment,
         [Next]_vars, ioctl' # "stopReturn"
  PROVE  Aligned'
<1> USE DEF OwnerInv, TypeInv, DataInv, DataOK
<1>0. /\ Len(buf_list) \in Nat /\ Len(buf_list') \in Nat
      /\ HeadTable \in Tables /\ HeadTable' \in Tables
  <2>1. HeadSlot \in Index /\ HeadSlot' \in Index
    BY RingType DEF HeadSlot
  <2> QED
    BY <2>1, RingType, LenProperties DEF HeadTable, QueueTable
<1>1. CASE StopReturn
  <2>1. /\ buf_list' = <<>> /\ mmu_q_index' = 0 /\ read_index' = 0 /\ tasklet' = tasklet
        /\ ioctl' = "cancel"
    BY <1>1 DEF StopReturn, Handover, CalmInv, RingReset, taskletVars
  <2>2. HeadTable' = 0
    <3>1. HeadSlot' = 0
      BY <1>1, <2>1 DEF HeadSlot, CalmInv, RingReset, StopReturn
    <3> QED
      BY <3>1 DEF HeadTable, QueueTable
  <2>3. Mapped' = 0
    BY <2>1, EmptySeq DEF Mapped
  <2>4. Turn(HeadTable, 0)' = HeadTable'
    <3>1. 0 % NumTables = 0
      BY RingType
    <3> QED
      BY <2>2, <3>1 DEF Turn
  <2> QED
    BY <2>1, <2>2, <2>3, <2>4 DEF Aligned
<1>2. CASE StopIndex
  BY <1>2 DEF StopIndex
<1>3. CASE ~StopReturn /\ ~StopIndex
  <2>1. ioctl # "stopReturn"
    BY <1>3
       DEF Next, User, IoctlStep, Worker, QBufIdle, QBufRunning, DQBuf, StreamOn,
           StreamOff, Hand, FillTable, StartReset, StartFail, StartCapture, StartUnmask,
           StopMask, StopCapture, StopIndex, Cancel, IrqHandler, TaskletStart,
           EngineFrame, WorkerTest, WorkerSkip, WorkerEmpty, WorkerTake, WorkerDone,
           WorkerLoad, WorkerStore, vars
  <2>2. CASE StartFail
    <3>1. /\ mmu_q_index' = 0 /\ buf_list' = <<>> /\ ioctl' = "none" /\ read_index' = 0
          /\ tasklet' = tasklet /\ tasklet \in {"idle", "test"}
      <4>1. /\ skewed' = (mmu_q_index # 0) /\ mmu_q_index' = mmu_q_index
            /\ buf_list' = <<>> /\ ioctl' = "none" /\ ioctl = "enable"
            /\ UNCHANGED <<read_index, tasklet>>
        BY <2>2, Zenon DEF StartFail, taskletVars
      <4> QED
        BY <4>1 DEF CalmInv
    <3>2. HeadTable' = 0
      <4>1. HeadSlot' = 0
        BY <3>1 DEF HeadSlot
      <4> QED
        BY <4>1 DEF HeadTable, QueueTable
    <3>3. Mapped' = 0
      BY <3>1, EmptySeq DEF Mapped
    <3>4. Turn(HeadTable, 0)' = HeadTable'
      <4>1. 0 % NumTables = 0
        BY RingType
      <4> QED
        BY <3>2, <4>1 DEF Turn
    <3> QED
      BY <3>1, <3>2, <3>3, <3>4 DEF Aligned
  <2>3. CASE ~StartFail
    <3>0. Aligned
      BY <1>3, <2>1, <2>3, SkewStep DEF SlotAlignment, InStep
    <3>1. ASSUME NEW b \in Buffers, QBufRunning(b) PROVE Aligned'
      <4>1. /\ Len(buf_list') = Len(buf_list) + 1
            /\ \A k \in 1 .. Len(buf_list) : buf_list'[k] = buf_list[k]
        BY <3>1, AppendProperties DEF QBufRunning
      <4>2. /\ ioctl = "none" /\ ioctl' = "fill" /\ HeadTable' = HeadTable
            /\ UNCHANGED <<dma_buf, mmu_q_index>>
        BY <3>1 DEF QBufRunning, HeadTable, HeadSlot, taskletVars, QueueTable
      <4> QED
        BY <1>0, <3>0, <4>1, <4>2, AlignedAppend
    <3>2. CASE Hand
      <4>1. /\ Len(buf_list') = Len(buf_list) + 1
            /\ \A k \in 1 .. Len(buf_list) : buf_list'[k] = buf_list[k]
        <5>1. Head(queued_list) \in Buffers
          BY <3>2, HeadTailProperties DEF Hand, HandInv
        <5> QED
          BY <3>2, <5>1, AppendProperties DEF Hand
      <4>2. /\ ioctl = "hand" /\ ioctl' = "fill" /\ HeadTable' = HeadTable
            /\ UNCHANGED <<dma_buf, mmu_q_index>>
        BY <3>2 DEF Hand, HeadTable, HeadSlot, taskletVars, QueueTable
      <4> QED
        BY <1>0, <3>0, <4>1, <4>2, AlignedAppend
    <3>3. CASE FillTable
      <4>1. HeadTable' = HeadTable
        BY <3>3 DEF FillTable, HeadTable, HeadSlot, taskletVars, QueueTable
      <4>2. buf_list = <<>> \/ buf_list[Len(buf_list)] = vb
        BY <3>3 DEF FillTable, Handover
      <4> QED
        BY <1>0, <3>0, <3>3, <4>1, <4>2, AlignedFill
    <3>4. CASE WorkerTake
      <4>1. /\ Len(buf_list') = Len(buf_list) - 1 /\ Len(buf_list) # 0
            /\ \A k \in 1 .. Len(buf_list') : buf_list'[k] = buf_list[k + 1]
        BY <1>0, <3>4, HeadTailProperties, EmptySeq DEF WorkerTake
      <4>2. /\ tasklet = "body" /\ tasklet' = "took" /\ read_index' = read_index /\ ~SkipField
            /\ UNCHANGED <<ioctl, dma_buf, mmu_q_index>>
        BY <3>4 DEF WorkerTake
      <4>3. HeadTable = QueueTable(read_index) /\ HeadTable' = QueueTable(Inc(read_index))
        BY <4>2 DEF HeadTable, HeadSlot, QueueTable, Inc
      <4>4. HeadTable' = NextTable(HeadTable)
        BY <4>2, <4>3, SlotTable DEF SkipField
      <4> QED
        BY <1>0, <3>0, <4>1, <4>2, <4>4, AlignedTake
    <3>5. CASE WorkerSkip \/ WorkerStore
      <4>1. UNCHANGED <<buf_list, dma_buf, mmu_q_index, ioctl>>
        BY <3>5 DEF WorkerSkip, WorkerStore, listVars
      <4>2. HeadTable' = HeadTable
        <5>1. CASE WorkerSkip
          <6>1. /\ tasklet = "body" /\ tasklet' = "advance" /\ read_index' = read_index
                /\ SkipField
            BY <5>1 DEF WorkerSkip
          <6>2. HeadTable = QueueTable(read_index) /\ HeadTable' = QueueTable(Inc(read_index))
            BY <6>1 DEF HeadTable, HeadSlot, QueueTable, Inc
          <6> QED
            BY <6>1, <6>2, SlotTable DEF SkipField
        <5>2. CASE WorkerStore
          <6>1. HeadSlot' = HeadSlot
            BY <5>2 DEF WorkerStore, Handover, HeadSlot
          <6> QED
            BY <6>1 DEF HeadTable, QueueTable
        <5> QED
          BY <3>5, <5>1, <5>2
      <4> QED
        BY <3>0, <4>1, <4>2, AlignedFrame
    <3>6. CASE Cancel \/ \E b \in Buffers : QBufIdle(b) \/ DQBuf(b)
      <4>1. /\ UNCHANGED <<buf_list, dma_buf, mmu_q_index>> /\ HeadTable' = HeadTable
            /\ ioctl # "fill" /\ ioctl' # "fill"
        BY <3>6 DEF Cancel, QBufIdle, DQBuf, HeadTable, HeadSlot, QueueTable, listVars,
                    taskletVars
      <4> QED
        BY <3>0, <4>1, AlignedFrame
    <3>7. CASE StreamOn \/ StreamOff \/ StartReset \/ StartCapture \/ StartUnmask
               \/ StopMask \/ StopCapture \/ IrqHandler \/ EngineFrame
      <4>1. UNCHANGED <<buf_list, dma_buf, mmu_q_index, tasklet, read_index>>
        BY <3>7, Zenon
           DEF StreamOn, StreamOff, StartReset, StartCapture, StartUnmask, StopMask,
               StopCapture, IrqHandler, EngineFrame, listVars, taskletVars
      <4>2. ioctl' = "fill" <=> ioctl = "fill"
        BY <3>7 DEF StreamOn, StreamOff, StartReset, StartCapture, StartUnmask, StopMask,
                    StopCapture, IrqHandler, EngineFrame
      <4>3. HeadTable' = HeadTable
        BY <4>1 DEF HeadTable, HeadSlot, QueueTable
      <4> QED
        BY <3>0, <4>1, <4>2, <4>3, AlignedFrame
    <3>8. CASE TaskletStart \/ WorkerTest \/ WorkerEmpty \/ WorkerDone \/ WorkerLoad
               \/ UNCHANGED vars
      <4>1. /\ UNCHANGED <<buf_list, dma_buf, mmu_q_index, ioctl>> /\ HeadTable' = HeadTable
        BY <3>8 DEF TaskletStart, WorkerTest, WorkerEmpty, WorkerDone, WorkerLoad,
                    HeadTable, HeadSlot, QueueTable, listVars, vars
      <4> QED
        BY <3>0, <4>1, AlignedFrame
    <3> QED
      BY <1>3, <2>3, <3>1, <3>2, <3>3, <3>4, <3>5, <3>6, <3>7, <3>8
         DEF Next, User, IoctlStep, Worker
  <2> QED
    BY <2>2, <2>3
<1> QED
  BY <1>1, <1>2, <1>3

\* Each step keeps list and ring aligned.
LEMMA AlignStep == AlignInv /\ [Next]_vars => AlignInv'
<1> SUFFICES ASSUME AlignInv, [Next]_vars PROVE AlignInv'
  OBVIOUS
<1>1. OwnerInv'
  BY OwnerStep DEF AlignInv
<1>2. ~stray' => ~stray /\ Handover'
  BY StrayStep, HandoverStep DEF AlignInv
<1>3. SlotAlignment'
  BY <1>1, <1>2, AlignedStep DEF AlignInv, SlotAlignment, InStep
<1> QED
  BY <1>1, <1>2, <1>3 DEF AlignInv

\* They are aligned at the start.
LEMMA AlignInit == Init => AlignInv
<1> SUFFICES ASSUME Init PROVE AlignInv
  OBVIOUS
<1>1. Aligned
  <2>1. HeadTable = 0
    BY DEF Init, HeadTable, HeadSlot, QueueTable
  <2> QED
    BY <2>1, RingType, AlignedEmpty DEF Init
<1>2. Handover
  BY DEF Init, Handover
<1> QED
  BY <1>1, <1>2, OwnerInit DEF AlignInv, SlotAlignment

\* However many buffers there are, and in every field mode, the list of buffers
\* and the ring of page tables never get out of step (SlotAlignment): the last
\* NumTables buffers of the list are in the tables that follow the head's.
THEOREM RingInStep == Spec => []SlotAlignment
<1>1. AlignInv => SlotAlignment
  BY DEF AlignInv
<1> QED
  BY <1>1, AlignInit, AlignStep, PTL DEF Spec

-----------------------------------------------------------------------------
(* The engine's position and the list of buffers, with one slot to a buffer. *)

\* The number of slots from i on to j.
Dist(i, j) == IF i <= j THEN j - i ELSE j - i + VIP_BUFFERS

\* How many slots from the head of the list on the engine has filled.
Filled == Dist(HeadSlot, bam_index)

\* While the engine is started and has not been overrun: it is not past the end of
\* the list, the buffer it writes into is listed and empty, and the buffers it has
\* passed are filled, but for those that have lost their table to a later buffer;
\* the worker knows of no more filled slots than there are.
Supply ==
  /\ Filled < Len(buf_list)
  /\ \E k \in 1 .. Len(buf_list) : dma_buf[bam_index] = buf_list[k]
  /\ content[dma_buf[bam_index]] = "empty"
  /\ \A k \in 1 .. Len(buf_list) :
       k <= Filled /\ k + VIP_BUFFERS > Mapped => content[buf_list[k]] = "fresh"
  /\ ioctl = "fill" => content[buf_list[Len(buf_list)]] = "empty"
  /\ tasklet = "took" /\ ~bumped => content[cb] = "fresh"
  /\ tasklet # "idle" => Dist(HeadSlot, write_index) <= Filled

\* Until the engine captures, every buffer handed over is empty.
Unfilled ==
  /\ \A k \in 1 .. Len(buf_list) : content[buf_list[k]] = "empty"
  /\ \A k \in 1 .. Len(queued_list) : content[queued_list[k]] = "empty"

Uncaptured == ~start_called \/ ioctl = "enable"

\* The worker is in the body of its loop only for a slot it knows to be done.
BodyInv == tasklet = "body" => write_index # read_index

EngineInv ==
  /\ AlignInv
  /\ ~stray => BodyInv
  /\ ioctl = "enable" => ~overrun
  /\ ~stray /\ Uncaptured => Unfilled
  /\ InStep /\ Running /\ ~overrun => Supply
  /\ NoMissedWakeup

\* The distance from i to j leads from i to j, and changes by one when one of
\* the two moves by a slot.
LEMMA DistStep ==
  ASSUME ~PairedFields, NEW i \in Index, NEW j \in Index
  PROVE  /\ Dist(i, j) \in 0 .. VIP_BUFFERS - 1
         /\ Turn(i, Dist(i, j)) = j
         /\ Dist(i, j) = 0 <=> i = j
         /\ Inc(j) # i => Dist(i, Inc(j)) = Dist(i, j) + 1
         /\ i # j => Dist(Inc(i), j) = Dist(i, j) - 1
<1>1. Turn(i, Dist(i, j)) = j
  <2>1. i + Dist(i, j) \in {j, j + VIP_BUFFERS} /\ j \in 0 .. VIP_BUFFERS - 1
    BY VipBuffersAssumption DEF Index, Dist
  <2>2. j % VIP_BUFFERS = j /\ (j + VIP_BUFFERS) % VIP_BUFFERS = j
    BY <2>1, VipBuffersAssumption
  <2> QED
    BY <2>1, <2>2 DEF Turn, NumTables
<1> QED
  BY <1>1, VipBuffersAssumption DEF Index, Dist, Inc

\* What the proofs use of the types.
LEMMA EngineTypes ==
  ASSUME ~PairedFields, AlignInv
  PROVE  /\ VIP_BUFFERS \in Nat /\ VIP_BUFFERS >= 2
         /\ NumTables = VIP_BUFFERS /\ Tables = Index /\ HeadTable = HeadSlot
         /\ \A i \in Index : PageTable(i) = i
         /\ HeadSlot \in Index /\ bam_index \in Index /\ write_index \in Index
         /\ read_index \in Index /\ Inc(read_index) \in Index
         /\ Filled \in 0 .. VIP_BUFFERS - 1
         /\ Turn(HeadTable, Filled) = bam_index
         /\ Dist(HeadSlot, write_index) \in 0 .. VIP_BUFFERS - 1
         /\ Len(buf_list) \in Nat /\ buf_list \in Seq(Buffers)
         /\ \A k \in 1 .. Len(buf_list) : buf_list[k] \in Buffers
         /\ Mapped \in {Len(buf_list), Len(buf_list) - 1}
         /\ content \in [Buffers -> Contents]
<1>1. /\ bam_index \in Index /\ write_index \in Index /\ read_index \in Index
      /\ buf_list \in Seq(Buffers) /\ content \in [Buffers -> Contents]
  BY DEF AlignInv, OwnerInv, TypeInv, DataInv, DataOK
<1>2. HeadSlot \in Index /\ Inc(read_index) \in Index
  BY <1>1, RingType DEF HeadSlot
<1>3. /\ NumTables = VIP_BUFFERS /\ Tables = Index /\ HeadTable = HeadSlot
      /\ \A i \in Index : PageTable(i) = i
  BY SharedTablesAssumption DEF NumTables, Tables, Index, HeadTable, QueueTable, PageTable
<1>4. /\ Filled \in 0 .. VIP_BUFFERS - 1 /\ Turn(HeadTable, Filled) = bam_index
      /\ Dist(HeadSlot, write_index) \in 0 .. VIP_BUFFERS - 1
  BY <1>1, <1>2, <1>3, DistStep DEF Filled
<1>5. /\ Len(buf_list) \in Nat /\ \A k \in 1 .. Len(buf_list) : buf_list[k] \in Buffers
      /\ Mapped \in {Len(buf_list), Len(buf_list) - 1}
  BY <1>1, LenProperties, ElementOfSeq DEF Mapped
<1> QED
  BY <1>1, <1>2, <1>3, <1>4, <1>5, VipBuffersAssumption

\* In step, the table of each slot that has had its buffer points to it; with a whole
\* turn of buffers that is so of every table, and the buffer is of the last turn.
LEMMA TableOf ==
  ASSUME ~PairedFields, AlignInv, Aligned, NEW j \in Index
  PROVE  /\ Mapped >= VIP_BUFFERS =>
              \E k \in 1 .. Mapped : k + VIP_BUFFERS > Mapped /\ dma_buf[j] = buf_list[k]
         /\ \A k \in 1 .. Mapped :
              k + VIP_BUFFERS > Mapped /\ Turn(HeadTable, k - 1) = j => dma_buf[j] = buf_list[k]
<1>1. /\ NumTables = VIP_BUFFERS /\ Tables = Index /\ HeadTable \in Index /\ Mapped \in Int
      /\ VIP_BUFFERS \in Nat
  BY EngineTypes
<1>2. \A k \in 1 .. Mapped :
        k + VIP_BUFFERS > Mapped => dma_buf[Turn(HeadTable, k - 1)] = buf_list[k]
  BY <1>1 DEF Aligned
<1>3. ASSUME Mapped >= VIP_BUFFERS
      PROVE  \E k \in 1 .. Mapped : k + VIP_BUFFERS > Mapped /\ Turn(HeadTable, k - 1) = j
  <2>1. Mapped \in Nat /\ Mapped >= NumTables
    BY <1>1, <1>3
  <2> QED
    BY <1>1, <2>1, TurnReach
<1> QED
  BY <1>2, <1>3

\* A step that leaves alone the list, the engine, the contents and what the worker
\* holds.
LEMMA SupplyFrame ==
  ASSUME Supply, HeadSlot' = HeadSlot,
         UNCHANGED <<buf_list, dma_buf, bam_index, content, write_index>>,
         ioctl' = "fill" <=> ioctl = "fill",
         tasklet' = "took" => tasklet = "took" /\ cb' = cb /\ bumped' = bumped,
         tasklet' # "idle" => tasklet # "idle"
  PROVE  Supply'
<1>1. Filled' = Filled /\ Mapped' = Mapped
  BY DEF Filled, Dist, Mapped
<1>2. Dist(HeadSlot', write_index') = Dist(HeadSlot, write_index)
  BY DEF Dist
<1> QED
  BY <1>1, <1>2 DEF Supply

\* Whether the buffers are unfilled is a matter of the lists and the contents.
LEMMA UnfilledFrame ==
  ASSUME Unfilled, UNCHANGED <<buf_list, queued_list, content>>
  PROVE  Unfilled'
BY DEF Unfilled

\* Buffers are handed over empty.
LEMMA UnfilledStep ==
  ASSUME EngineInv, [Next]_vars, ~stray, ~stray', Uncaptured'
  PROVE  Unfilled'
<1> USE DEF EngineInv, Uncaptured
<1>t. /\ buf_list \in Seq(Buffers) /\ queued_list \in Seq(Buffers)
      /\ content \in [Buffers -> Contents]
  BY DEF AlignInv, OwnerInv, TypeInv, DataInv, DataOK
<1>1. ASSUME NEW b \in Buffers, QBufIdle(b) PROVE Unfilled'
  <2>1. /\ Unfilled /\ buf_list' = buf_list /\ queued_list' = Append(queued_list, b)
        /\ content' = [content EXCEPT ![b] = "empty"]
    BY <1>1 DEF QBufIdle, listVars
  <2>2. Unfilled'
    <3>1. /\ Len(queued_list) \in Nat /\ Len(queued_list') = Len(queued_list) + 1
          /\ queued_list'[Len(queued_list) + 1] = b
          /\ \A k \in 1 .. Len(queued_list) : queued_list'[k] = queued_list[k]
      BY <1>t, <2>1, AppendProperties
    <3>2. \A c \in Buffers : content[c] = "empty" => content'[c] = "empty"
      BY <1>t, <2>1
    <3> QED
      BY <1>t, <2>1, <3>1, <3>2, ElementOfSeq DEF Unfilled
  <2> QED
    BY <2>2
<1>2. CASE Hand
  <2>1. /\ Unfilled /\ queued_list # <<>> /\ content' = content
        /\ queued_list' = Tail(queued_list)
        /\ buf_list' = Append(buf_list, Head(queued_list))
    BY <1>2 DEF Hand, engineVars, AlignInv, OwnerInv, TypeInv, DataInv, HandInv
  <2>2. /\ Head(queued_list) = queued_list[1] /\ Head(queued_list) \in Buffers
        /\ Len(queued_list) \in Nat \ {0} /\ Len(queued_list') = Len(queued_list) - 1
        /\ \A k \in 1 .. Len(queued_list) - 1 : queued_list'[k] = queued_list[k + 1]
    BY <1>t, <2>1, HeadTailProperties, EmptySeq
  <2>3. /\ Len(buf_list) \in Nat /\ Len(buf_list') = Len(buf_list) + 1
        /\ \A k \in 1 .. Len(buf_list) : buf_list'[k] = buf_list[k]
        /\ buf_list'[Len(buf_list) + 1] = queued_list[1]
    BY <1>t, <2>1, <2>2, AppendProperties
  <2> QED
    BY <2>1, <2>2, <2>3 DEF Unfilled
<1>3. CASE StartFail
  <2>1. /\ ioctl = "enable" /\ start_called /\ queued_list = <<>>
        /\ queued_list' = buf_list /\ buf_list' = <<>> /\ content' = content
    BY <1>3, <1>t, ConcatEmptySeq DEF StartFail, engineVars, AlignInv, OwnerInv, CtlInv
  <2>4. Unfilled
    BY <2>1
  <2> QED
    BY <2>1, <2>4, EmptySeq DEF Unfilled
<1>4. CASE Cancel
  <2>1. buf_list' = <<>> /\ queued_list' = <<>>
    BY <1>4 DEF Cancel, listVars, AlignInv, OwnerInv, CtlInv
  <2> QED
    BY <2>1, EmptySeq DEF Unfilled
<1>5. ASSUME NEW b \in Buffers, DQBuf(b) PROVE Unfilled'
  BY <1>5, UnfilledFrame DEF DQBuf, listVars, engineVars
<1>6. CASE StreamOn \/ StreamOff \/ FillTable \/ StartReset \/ IrqHandler
           \/ TaskletStart \/ WorkerTest
           \/ WorkerSkip \/ WorkerEmpty \/ WorkerDone \/ WorkerLoad \/ WorkerStore
  <2>1. UNCHANGED <<buf_list, queued_list, content>>
    BY <1>6 DEF StreamOn, StreamOff, FillTable, StartReset, IrqHandler, TaskletStart,
                WorkerTest, WorkerSkip, WorkerEmpty, WorkerDone, WorkerLoad, WorkerStore,
                vb2Vars, listVars, engineVars
  <2>2. Uncaptured
    <3>1. CASE StartReset
      BY <3>1 DEF StartReset, AlignInv, OwnerInv, CtlInv
    <3>2. CASE StreamOn \/ StreamOff \/ FillTable
      BY <3>2 DEF StreamOn, StreamOff, FillTable, vb2Vars
    <3>3. CASE IrqHandler \/ TaskletStart \/ WorkerTest \/ WorkerSkip \/ WorkerEmpty
               \/ WorkerDone \/ WorkerLoad \/ WorkerStore
      BY <3>3 DEF IrqHandler, TaskletStart, WorkerTest, WorkerSkip, WorkerEmpty,
                  WorkerDone, WorkerLoad, WorkerStore, vb2Vars
    <3> QED
      BY <1>6, <3>1, <3>2, <3>3
  <2> QED
    BY <2>1, <2>2, UnfilledFrame
<1>7. \A b \in Buffers : ~QBufRunning(b)
  BY DEF QBufRunning
<1>8. ~WorkerTake /\ ~EngineFrame
  <2>1. Uncaptured => tasklet # "body" /\ ~capturing
    BY DEF AlignInv, OwnerInv, CalmInv, CtlInv, RingReset
  <2> QED
    BY <2>1 DEF WorkerTake, EngineFrame, vb2Vars
<1>9. ~(StartCapture \/ StartUnmask \/ StopMask \/ StopCapture \/ StopIndex \/ StopReturn)
  BY DEF StartCapture, StartUnmask, StopMask, StopCapture, StopIndex, StopReturn,
         vb2Vars, AlignInv, OwnerInv, CtlInv
<1>10. CASE UNCHANGED vars
  BY <1>10, UnfilledFrame DEF vars
<1> QED
  BY <1>1, <1>2, <1>3, <1>4, <1>5, <1>6, <1>7, <1>8, <1>9, <1>10
     DEF Next, User, IoctlStep, Worker

\* The engine is reset to the slot of a buffer handed over.
LEMMA SupplyStart ==
  ASSUME ~PairedFields, EngineInv, InStep, StartReset
  PROVE  Supply'
<1> USE DEF EngineInv, InStep
<1>1. /\ ioctl = "start" /\ ioctl' = "enable" /\ ~start_called /\ bam_index' = 0
      /\ UNCHANGED <<buf_list, dma_buf, content, read_index, tasklet, write_index, cb>>
  BY DEF StartReset, listVars, taskletVars, AlignInv, OwnerInv, CtlInv
<1>2. /\ read_index = 0 /\ tasklet \in {"idle", "test"}
      /\ tasklet # "idle" => write_index = 0
  BY <1>1 DEF AlignInv, OwnerInv, CalmInv, RingReset
<1>3. HeadSlot = 0 /\ HeadSlot' = 0
  BY <1>1, <1>2 DEF HeadSlot
<1>4. Filled' = 0 /\ (tasklet' # "idle" => Dist(HeadSlot', write_index') = 0)
  BY <1>1, <1>2, <1>3 DEF Filled, Dist
<1>5. /\ Len(buf_list) \in Nat /\ Len(buf_list) >= VIP_BUFFERS /\ VIP_BUFFERS \in Nat
      /\ VIP_BUFFERS >= 2 /\ Mapped = Len(buf_list)
  <2>1. queued_list = <<>> /\ Len(buf_list) + Len(queued_list) >= VIP_BUFFERS
    BY <1>1 DEF AlignInv, OwnerInv, CtlInv, Handover
  <2> QED
    BY <1>1, <2>1, EngineTypes, EmptySeq DEF Mapped
<1>6. PICK k \in 1 .. Len(buf_list) : dma_buf[0] = buf_list[k]
  <2>1. Aligned
    BY <1>1 DEF AlignInv, SlotAlignment
  <2> QED
    BY <1>5, <2>1, RingType, TableOf
<1>7. content[buf_list[k]] = "empty"
  BY <1>1 DEF Unfilled, Uncaptured
<1>8. /\ Filled' < Len(buf_list')
      /\ \A j \in 1 .. Len(buf_list') : ~(j <= Filled')
  BY <1>1, <1>4, <1>5
<1>9. dma_buf'[bam_index'] = buf_list'[k] /\ content'[dma_buf'[bam_index']] = "empty"
  BY <1>1, <1>6, <1>7
<1>10. tasklet' # "idle" => Dist(HeadSlot', write_index') <= Filled'
  BY <1>4
<1> QED
  BY <1>1, <1>2, <1>8, <1>9, <1>10 DEF Supply

\* A buffer queued on the running engine goes behind all the others, empty.
LEMMA SupplyQueue ==
  ASSUME ~PairedFields, EngineInv, ~stray, Supply, NEW b \in Buffers, QBufRunning(b)
  PROVE  Supply'
<1>1. /\ buf_list' = Append(buf_list, b) /\ vb_state[b] = "user"
      /\ content' = [content EXCEPT ![b] = "empty"]
      /\ ioctl = "none" /\ ioctl' = "fill"
      /\ UNCHANGED <<dma_buf, bam_index, read_index, tasklet, write_index, cb, bumped>>
  BY DEF QBufRunning, taskletVars
<1>2. /\ ~In(buf_list, b) /\ (tasklet = "took" => cb # b /\ cb \in Buffers)
  BY <1>1 DEF EngineInv, AlignInv, OwnerInv, Owners
<1>3. /\ Len(buf_list) \in Nat /\ buf_list \in Seq(Buffers)
      /\ Filled \in 0 .. VIP_BUFFERS - 1 /\ VIP_BUFFERS \in Nat
      /\ content \in [Buffers -> Contents]
  BY EngineTypes DEF EngineInv
<1>4. /\ Len(buf_list') = Len(buf_list) + 1 /\ buf_list'[Len(buf_list')] = b
      /\ \A k \in 1 .. Len(buf_list) : buf_list'[k] = buf_list[k]
                                      /\ buf_list[k] # b /\ buf_list[k] \in Buffers
  BY <1>1, <1>2, <1>3, AppendProperties, ElementOfSeq DEF In
<1>5. /\ HeadSlot' = HeadSlot /\ Filled' = Filled /\ Mapped' = Mapped
      /\ Dist(HeadSlot', write_index') = Dist(HeadSlot, write_index)
  BY <1>1, <1>3, <1>4 DEF HeadSlot, Filled, Dist, Inc, Mapped
<1>6. \A k \in 1 .. Len(buf_list) : content'[buf_list[k]] = content[buf_list[k]]
  BY <1>1, <1>3, <1>4
<1>7. /\ \E k \in 1 .. Len(buf_list') : dma_buf'[bam_index'] = buf_list'[k]
      /\ content'[dma_buf'[bam_index']] = "empty"
  BY <1>1, <1>3, <1>4, <1>6 DEF Supply
<1>8. ASSUME NEW k \in 1 .. Len(buf_list'), k <= Filled', k + VIP_BUFFERS > Mapped'
      PROVE  content'[buf_list'[k]] = "fresh"
  <2>1. k \in 1 .. Len(buf_list)
    BY <1>3, <1>4, <1>5, <1>8 DEF Supply
  <2> QED
    BY <1>4, <1>5, <1>6, <1>8, <2>1 DEF Supply
<1>9. /\ content'[buf_list'[Len(buf_list')]] = "empty"
      /\ tasklet' = "took" /\ ~bumped' => content'[cb'] = "fresh"
  BY <1>1, <1>2, <1>3, <1>4 DEF Supply
<1>10. Filled' < Len(buf_list') /\ (tasklet' # "idle" => Dist(HeadSlot', write_index') <= Filled')
  BY <1>1, <1>3, <1>4, <1>5 DEF Supply
<1> QED
  BY <1>7, <1>8, <1>9, <1>10 DEF Supply

\* The page table buffer_queue() fills may be the engine's own: it then gets an
\* empty buffer.
LEMMA SupplyFill ==
  ASSUME ~PairedFields, EngineInv, ~stray, Supply, FillTable
  PROVE  Supply'
<1>1. /\ ioctl = "fill" /\ ioctl' # "fill" /\ dma_buf' = [dma_buf EXCEPT ![mmu_q_index] = vb]
      /\ UNCHANGED <<buf_list, content, bam_index, read_index, tasklet, write_index, cb,
                     bumped>>
  BY Zenon DEF FillTable, engineVars, taskletVars
<1>2. /\ Len(buf_list) \in Nat /\ Filled \in 0 .. VIP_BUFFERS - 1 /\ VIP_BUFFERS \in Nat
      /\ bam_index \in Index
  BY EngineTypes DEF EngineInv
<1>3. Len(buf_list) \in 1 .. Len(buf_list) /\ buf_list[Len(buf_list)] = vb
  <2>1. Len(buf_list) # 0
    BY <1>2 DEF Supply
  <2> QED
    BY <1>1, <1>2, <2>1, EmptySeq DEF EngineInv, AlignInv, Handover
<1>4. dma_buf \in [Index -> Buffers \cup {NoBuf}]
  BY DEF EngineInv, AlignInv, OwnerInv, TypeInv, DataInv, DataOK
<1>5. dma_buf'[bam_index] \in {dma_buf[bam_index], vb}
  BY <1>1, <1>2, <1>4
<1>6. /\ \E k \in 1 .. Len(buf_list') : dma_buf'[bam_index'] = buf_list'[k]
      /\ content'[dma_buf'[bam_index']] = "empty"
  BY <1>1, <1>3, <1>5 DEF Supply
<1>7. /\ HeadSlot' = HeadSlot /\ Filled' = Filled /\ Mapped' = Mapped + 1 /\ Mapped \in Int
      /\ Dist(HeadSlot', write_index') = Dist(HeadSlot, write_index)
  BY <1>1, <1>2 DEF HeadSlot, Filled, Dist, Inc, Mapped
<1>8. ASSUME NEW k \in 1 .. Len(buf_list'), k <= Filled', k + VIP_BUFFERS > Mapped'
      PROVE  content'[buf_list'[k]] = "fresh"
  <2>1. k + VIP_BUFFERS > Mapped
    BY <1>2, <1>7, <1>8
  <2> QED
    BY <1>1, <1>7, <1>8, <2>1 DEF Supply
<1> QED
  BY <1>1, <1>6, <1>7, <1>8 DEF Supply

\* What the worker takes is filled, unless it had lost its table.
LEMMA SupplyTake ==
  ASSUME ~PairedFields, EngineInv, InStep, Running, Supply, WorkerTake
  PROVE  Supply'
<1>1. /\ tasklet = "body" /\ tasklet' = "took" /\ buf_list # <<>>
      /\ cb' = Head(buf_list) /\ buf_list' = Tail(buf_list) /\ bumped' = (Mapped > NumTables)
      /\ UNCHANGED <<dma_buf, bam_index, content, read_index, write_index, ioctl>>
  BY Zenon DEF WorkerTake, engineVars
<1>2. HeadSlot = read_index /\ HeadSlot' = Inc(read_index)
  BY <1>1 DEF HeadSlot, Inc
<1>3. /\ Len(buf_list) \in Nat \ {0} /\ cb' = buf_list[1]
      /\ Len(buf_list') = Len(buf_list) - 1
      /\ \A k \in 1 .. Len(buf_list') : buf_list'[k] = buf_list[k + 1]
  BY <1>1, EngineTypes, HeadTailProperties, EmptySeq DEF EngineInv
<1>4. write_index # read_index
  BY <1>1 DEF EngineInv, BodyInv, InStep
<1>5. /\ read_index \in Index /\ bam_index \in Index /\ write_index \in Index
      /\ Filled \in Nat /\ Dist(read_index, write_index) \in Nat
      /\ NumTables = VIP_BUFFERS /\ VIP_BUFFERS \in Nat /\ Mapped \in Int
      /\ Mapped <= Len(buf_list)
  BY <1>2, EngineTypes DEF EngineInv
<1>6. Dist(read_index, write_index) > 0 /\ Dist(read_index, write_index) <= Filled
  BY <1>1, <1>2, <1>4, <1>5, DistStep DEF Supply
<1>7. bam_index # read_index
  BY <1>2, <1>5, <1>6, DistStep DEF Filled
<1>8. /\ Filled' = Filled - 1
      /\ Dist(HeadSlot', write_index') = Dist(read_index, write_index) - 1
  <2>1. /\ Dist(Inc(read_index), bam_index) = Dist(read_index, bam_index) - 1
        /\ Dist(Inc(read_index), write_index) = Dist(read_index, write_index) - 1
    BY <1>4, <1>5, <1>7, DistStep
  <2>2. /\ Filled' = Dist(Inc(read_index), bam_index)
        /\ Dist(HeadSlot', write_index') = Dist(Inc(read_index), write_index)
    BY <1>1, <1>2 DEF Filled, Dist
  <2> QED
    BY <1>2, <2>1, <2>2 DEF Filled
<1>9. Mapped' = Mapped - 1
  BY <1>1, <1>3 DEF Mapped
<1>10. PICK p \in 1 .. Len(buf_list) : dma_buf[bam_index] = buf_list[p]
  BY DEF Supply
<1>11. content[buf_list[p]] = "empty"
  BY <1>10 DEF Supply
<1>12. Mapped <= VIP_BUFFERS => content[buf_list[1]] = "fresh"
  <2>1. 1 \in 1 .. Len(buf_list) /\ 1 <= Filled
    BY <1>3, <1>5, <1>6
  <2>2. Mapped <= VIP_BUFFERS => 1 + VIP_BUFFERS > Mapped
    BY <1>5
  <2> QED
    BY <2>1, <2>2 DEF Supply
<1>13. p # 1
  <2>1. CASE Mapped <= VIP_BUFFERS
    BY <1>11, <1>12, <2>1
  <2>2. CASE Mapped > VIP_BUFFERS
    <3>1. Aligned
      BY DEF EngineInv, AlignInv, SlotAlignment, Running, RingReset
    <3>2. PICK k \in 1 .. Mapped : k + VIP_BUFFERS > Mapped /\ dma_buf[bam_index] = buf_list[k]
      BY <1>5, <2>2, <3>1, TableOf DEF EngineInv
    <3>3. k # 1 /\ k \in 1 .. Len(buf_list)
      BY <1>3, <1>5, <2>2, <3>2
    <3>4. Distinct(buf_list)
      BY DEF EngineInv, AlignInv, OwnerInv, Owners, InStep
    <3> QED
      BY <1>10, <3>2, <3>3, <3>4 DEF Distinct
  <2> QED
    BY <1>5, <2>1, <2>2
<1>14. \E k \in 1 .. Len(buf_list') : dma_buf'[bam_index'] = buf_list'[k]
  <2>1. p - 1 \in 1 .. Len(buf_list') /\ (p - 1) + 1 = p
    BY <1>3, <1>13
  <2> QED
    BY <1>1, <1>3, <1>10, <2>1
<1>15. content'[dma_buf'[bam_index']] = "empty"
  BY <1>1, <1>10, <1>11
<1>16. ASSUME NEW k \in 1 .. Len(buf_list'), k <= Filled', k + VIP_BUFFERS > Mapped'
       PROVE  content'[buf_list'[k]] = "fresh"
  <2>1. k + 1 \in 1 .. Len(buf_list) /\ k + 1 <= Filled /\ (k + 1) + VIP_BUFFERS > Mapped
    BY <1>3, <1>5, <1>8, <1>9, <1>16
  <2> QED
    BY <1>1, <1>3, <2>1 DEF Supply
<1>17. ioctl' = "fill" => content'[buf_list'[Len(buf_list')]] = "empty"
  <2>1. Len(buf_list') \in 1 .. Len(buf_list') /\ Len(buf_list') + 1 = Len(buf_list)
    BY <1>3, <1>13
  <2> QED
    BY <1>1, <1>3, <2>1 DEF Supply
<1>18. ~bumped' => content'[cb'] = "fresh"
  <2>1. ~bumped' => ~(Mapped > NumTables)
    BY <1>1, Zenon
  <2> QED
    BY <1>1, <1>3, <1>5, <1>12, <2>1
<1>19. /\ Filled' < Len(buf_list')
       /\ Dist(HeadSlot', write_index') <= Filled'
  BY <1>3, <1>5, <1>6, <1>8 DEF Supply
<1> QED
  BY <1>14, <1>15, <1>16, <1>17, <1>18, <1>19 DEF Supply

\* The engine fills the buffer of its slot and moves to one that is listed and
\* empty, so it has not come to the end of the list.
LEMMA SupplyEngine ==
  ASSUME ~PairedFields, EngineInv, InStep, Running, Supply, EngineFrame, ~overrun'
  PROVE  Supply'
<1> DEFINE b == dma_buf[bam_index]
           e == dma_buf[Inc(bam_index)]
           L == Len(buf_list)
<1>t. /\ L \in Nat /\ VIP_BUFFERS \in Nat /\ VIP_BUFFERS >= 2
      /\ HeadSlot \in Index /\ bam_index \in Index /\ Filled \in 0 .. VIP_BUFFERS - 1
      /\ \A k \in 1 .. L : buf_list[k] \in Buffers
      /\ content \in [Buffers -> Contents]
      /\ Mapped \in {L, L - 1} /\ Inc(bam_index) \in Index
      /\ PageTable(bam_index) = bam_index /\ PageTable(Inc(bam_index)) = Inc(bam_index)
      /\ Turn(HeadTable, Filled) = bam_index
      /\ Distinct(buf_list)
      /\ tasklet = "took" => cb \in Buffers /\ ~In(buf_list, cb)
  <2>1. Distinct(buf_list) /\ (tasklet = "took" => cb \in Buffers /\ ~In(buf_list, cb))
    BY DEF EngineInv, AlignInv, OwnerInv, Owners, InStep
  <2>2. Inc(bam_index) \in Index
    BY EngineTypes, RingType DEF EngineInv
  <2> QED
    BY <2>1, <2>2, EngineTypes DEF EngineInv
<1>1. PICK p \in 1 .. L : b = buf_list[p]
  BY DEF Supply
<1>2. b \in Buffers /\ content[b] = "empty"
  BY <1>t, <1>1 DEF Supply
<1>3. content' = [content EXCEPT ![b] = "fresh"]
  <2>1. ~SharedTables
    BY SharedTablesAssumption
  <2> QED
    BY <1>t, <1>2, <2>1 DEF EngineFrame, Written
<1>4. /\ bam_index' = Inc(bam_index)
      /\ UNCHANGED <<buf_list, dma_buf, read_index, tasklet, write_index, cb, bumped, ioctl>>
  BY Zenon DEF EngineFrame, listVars, taskletVars
<1>5. Inc(bam_index) # HeadSlot /\ SlotReady(Inc(bam_index), content')
  BY Zenon DEF EngineFrame
<1>6. PICK m \in 1 .. L : e = buf_list[m] /\ content'[e] = "empty"
  <2>1. ~SharedTables
    BY SharedTablesAssumption
  <2> QED
    BY <1>t, <1>5, <2>1 DEF SlotReady, Listed
<1>7. e # b /\ e \in Buffers /\ content[e] = "empty"
  BY <1>t, <1>2, <1>3, <1>6
<1>8. /\ HeadSlot' = HeadSlot /\ Filled' = Filled + 1 /\ Mapped' = Mapped
      /\ Dist(HeadSlot', write_index') = Dist(HeadSlot, write_index)
  <2>1. /\ HeadSlot' = HeadSlot /\ Filled' = Dist(HeadSlot, Inc(bam_index))
        /\ Dist(HeadSlot', write_index') = Dist(HeadSlot, write_index) /\ Mapped' = Mapped
    BY <1>4 DEF HeadSlot, Filled, Dist, Inc, Mapped
  <2>2. Dist(HeadSlot, Inc(bam_index)) = Dist(HeadSlot, bam_index) + 1
    BY <1>t, <1>5, DistStep
  <2> QED
    BY <2>1, <2>2 DEF Filled
<1>9. Filled + 1 \in 0 .. VIP_BUFFERS - 1
  <2>1. Dist(HeadSlot, Inc(bam_index)) \in 0 .. VIP_BUFFERS - 1
    BY <1>t, DistStep
  <2>2. Filled' = Dist(HeadSlot, Inc(bam_index))
    BY <1>4 DEF Filled, HeadSlot, Dist, Inc
  <2> QED
    BY <1>8, <2>1, <2>2
<1>10. \A k \in 1 .. L :
         k <= Filled /\ k + VIP_BUFFERS > Mapped => content[buf_list[k]] = "fresh"
  BY DEF Supply
<1> DEFINE d == Filled
<1>d. d \in Nat /\ d < L /\ d + 1 < VIP_BUFFERS
  BY <1>t, <1>9 DEF Supply
<1> HIDE DEF b, e, L, d
<1>11. d + 1 < L
  <2> SUFFICES ASSUME L = d + 1 PROVE FALSE
    BY <1>t, <1>d
  <2>1. ASSUME NEW k \in 1 .. L, content[buf_list[k]] = "empty" PROVE k = d + 1
    <3>1. k + VIP_BUFFERS > Mapped
      BY <1>t, <1>d
    <3>2. ~(k <= d)
      BY <1>10, <2>1, <3>1 DEF d
    <3> QED
      BY <1>t, <1>d, <3>2
  <2>2. p = d + 1 /\ m = d + 1
    BY <1>1, <1>2, <1>6, <1>7, <2>1
  <2> QED
    BY <1>1, <1>6, <1>7, <2>2
<1>12. Aligned
  BY DEF EngineInv, AlignInv, SlotAlignment, Running, RingReset
<1>13. d + 1 \in 1 .. Mapped /\ (d + 1) + VIP_BUFFERS > Mapped => b = buf_list[d + 1]
  <2>1. (d + 1) - 1 = Filled
    BY <1>d DEF d
  <2>2. Turn(HeadTable, (d + 1) - 1) = bam_index
    BY <1>t, <2>1
  <2> QED
    BY <1>t, <1>12, <2>2, TableOf DEF EngineInv, b
<1>14. ASSUME NEW k \in 1 .. L, k <= d + 1, k + VIP_BUFFERS > Mapped
       PROVE  content'[buf_list[k]] = "fresh"
  <2>1. CASE k <= d
    <3>1. content[buf_list[k]] = "fresh"
      BY <1>10, <1>14, <2>1 DEF d
    <3> QED
      BY <1>t, <1>3, <3>1
  <2>2. CASE k = d + 1
    <3>1. d + 1 \in 1 .. Mapped
      BY <1>t, <1>d, <1>11
    <3> QED
      BY <1>2, <1>3, <1>t, <1>13, <1>14, <2>2, <3>1
  <2> QED
    BY <1>d, <1>14, <2>1, <2>2
<1>15. ioctl = "fill" => content'[buf_list[L]] = "empty"
  <2> SUFFICES ASSUME ioctl = "fill" PROVE content'[buf_list[L]] = "empty"
    OBVIOUS
  <2>1. content[buf_list[L]] = "empty" /\ Mapped = L - 1 /\ L \in 1 .. L
    BY <1>t, <1>d DEF Supply, Mapped, L
  <2>2. PICK k \in 1 .. L : k # L /\ b = buf_list[k]
    <3>1. CASE (d + 1) + VIP_BUFFERS > Mapped
      <4>1. d + 1 \in 1 .. Mapped /\ d + 1 \in 1 .. L /\ d + 1 # L
        BY <1>t, <1>d, <1>11, <2>1
      <4> QED
        BY <1>13, <3>1, <4>1
    <3>2. CASE ~((d + 1) + VIP_BUFFERS > Mapped)
      <4>1. Mapped >= VIP_BUFFERS
        BY <1>t, <1>d, <2>1, <3>2
      <4>2. PICK k \in 1 .. Mapped : b = buf_list[k]
        BY <1>t, <1>12, <4>1, TableOf DEF EngineInv, b
      <4>3. k \in 1 .. L /\ k # L
        BY <1>t, <2>1, <4>2
      <4> QED
        BY <4>2, <4>3
    <3> QED
      BY <3>1, <3>2
  <2>3. buf_list[L] # b
    BY <1>t, <2>1, <2>2 DEF Distinct, L
  <2> QED
    BY <1>t, <1>3, <2>1, <2>3
<1>16. tasklet = "took" /\ ~bumped => content'[cb] = "fresh"
  <2>1. tasklet = "took" => cb # b
    BY <1>t, <1>1 DEF In, L
  <2> QED
    BY <1>t, <1>3, <2>1 DEF Supply
<1>17. tasklet # "idle" => Dist(HeadSlot, write_index) <= d + 1
  <2>1. Dist(HeadSlot, write_index) \in 0 .. VIP_BUFFERS - 1
    BY EngineTypes DEF EngineInv
  <2>2. tasklet # "idle" => Dist(HeadSlot, write_index) <= d
    BY DEF Supply, d
  <2> QED
    BY <1>t, <1>d, <2>1, <2>2
<1>18. /\ \E k \in 1 .. Len(buf_list') : dma_buf'[bam_index'] = buf_list'[k]
       /\ content'[dma_buf'[bam_index']] = "empty"
  BY <1>4, <1>6 DEF e, L
<1>19. Filled' = d + 1 /\ Len(buf_list') = L
  BY <1>4, <1>8 DEF d, L
<1>20. /\ Filled' < Len(buf_list')
       /\ \A k \in 1 .. Len(buf_list') :
            k <= Filled' /\ k + VIP_BUFFERS > Mapped' => content'[buf_list'[k]] = "fresh"
  BY <1>4, <1>8, <1>11, <1>14, <1>19
<1>21. /\ ioctl' = "fill" => content'[buf_list'[Len(buf_list')]] = "empty"
       /\ tasklet' = "took" /\ ~bumped' => content'[cb'] = "fresh"
       /\ tasklet' # "idle" => Dist(HeadSlot', write_index') <= Filled'
  BY <1>4, <1>8, <1>15, <1>16, <1>17, <1>19
<1> QED
  BY <1>18, <1>20, <1>21 DEF Supply

-----------------------------------------------------------------------------
(* The invariant is inductive.                                             *)

\* The worker enters its body only for a slot that is done.
LEMMA BodyStep ==
  ASSUME BodyInv, [Next]_vars, ~stray'
  PROVE  BodyInv'
<1> USE DEF BodyInv
<1>1. CASE StopIndex
  BY <1>1 DEF StopIndex, taskletVars
<1>2. CASE TaskletStart
  BY <1>2 DEF TaskletStart
<1>3. CASE WorkerTest \/ WorkerSkip \/ WorkerEmpty \/ WorkerTake \/ WorkerDone
           \/ WorkerLoad \/ WorkerStore
  BY <1>3 DEF WorkerTest, WorkerSkip, WorkerEmpty, WorkerTake, WorkerDone, WorkerLoad,
              WorkerStore
<1>4. ASSUME User \/ Hand \/ FillTable \/ StartReset \/ StartFail \/ StartCapture
             \/ StartUnmask \/ StopMask \/ StopCapture \/ StopReturn \/ Cancel
             \/ IrqHandler \/ EngineFrame \/ UNCHANGED vars
      PROVE  UNCHANGED <<tasklet, write_index, read_index>>
  BY <1>4, Zenon
     DEF User, QBufIdle, QBufRunning, DQBuf, StreamOn, StreamOff, Hand, FillTable,
         StartReset, StartFail, StartCapture, StartUnmask, StopMask, StopCapture,
         StopReturn, Cancel, IrqHandler, EngineFrame, vars, taskletVars
<1> QED
  BY <1>1, <1>2, <1>3, <1>4 DEF Next, IoctlStep, Worker

\* Only the reset of the engine makes it run, or ends an overrun.
LEMMA RunningBefore ==
  ASSUME [Next]_vars, ~StartReset, InStep', Running', ~overrun'
  PROVE  InStep /\ Running /\ ~overrun
<1>1. start_called /\ ioctl \notin {"stopReturn", "cancel"}
  BY DEF Next, User, IoctlStep, Worker, QBufIdle, QBufRunning, DQBuf, StreamOn,
         StreamOff, Hand, FillTable, StartFail, StartCapture, StartUnmask, StopMask,
         StopCapture, StopIndex, StopReturn, Cancel, IrqHandler, TaskletStart,
         EngineFrame, WorkerTest, WorkerSkip, WorkerEmpty, WorkerTake, WorkerDone,
         WorkerLoad, WorkerStore, vars, vb2Vars, Running, RingReset
<1>2. ~overrun
  BY Zenon
     DEF Next, User, IoctlStep, Worker, QBufIdle, QBufRunning, DQBuf, StreamOn,
         StreamOff, Hand, FillTable, StartFail, StartCapture, StartUnmask, StopMask,
         StopCapture, StopIndex, StopReturn, Cancel, IrqHandler, TaskletStart,
         EngineFrame, WorkerTest, WorkerSkip, WorkerEmpty, WorkerTake, WorkerDone,
         WorkerLoad, WorkerStore, vars, engineVars
<1>3. InStep
  <2>1. ~StartFail /\ ~StopIndex
    BY Zenon DEF StartFail, StopIndex, Running, RingReset
  <2> QED
    BY <2>1, StrayStep, SkewStep DEF InStep
<1> QED
  BY <1>1, <1>2, <1>3 DEF Running, RingReset

\* Each action keeps the list supplied.
LEMMA SupplyStep ==
  ASSUME ~PairedFields, EngineInv, [Next]_vars, InStep', Running', ~overrun'
  PROVE  Supply'
<1>1. CASE StartReset
  <2>1. InStep
    BY <1>1, StrayStep, Zenon DEF InStep, StartReset, listVars
  <2> QED
    BY <1>1, <2>1, SupplyStart
<1>2. CASE ~StartReset
  <2>1. InStep /\ Running /\ ~overrun /\ ~stray
    BY <1>2, RunningBefore DEF InStep
  <2>2. Supply
    BY <2>1 DEF EngineInv
  <2>3. ASSUME NEW b \in Buffers, QBufRunning(b) PROVE Supply'
    BY <2>1, <2>2, <2>3, SupplyQueue
  <2>4. CASE FillTable
    BY <2>1, <2>2, <2>4, SupplyFill
  <2>5. CASE WorkerTake
    BY <2>1, <2>2, <2>5, SupplyTake
  <2>6. CASE EngineFrame
    BY <2>1, <2>2, <2>6, SupplyEngine
  <2>7. CASE TaskletStart
    <3>1. /\ write_index' = bam_index /\ tasklet = "idle" /\ tasklet' = "test"
          /\ UNCHANGED <<buf_list, dma_buf, bam_index, content, read_index, ioctl>>
      BY <2>7 DEF TaskletStart, listVars, engineVars
    <3>2. HeadSlot' = HeadSlot /\ Filled' = Filled /\ Mapped' = Mapped
      BY <3>1 DEF HeadSlot, Filled, Dist, Mapped
    <3>3. Dist(HeadSlot', write_index') <= Filled'
      <4>1. Dist(HeadSlot', write_index') = Filled
        BY <3>1, <3>2 DEF Filled
      <4> QED
        BY <3>2, <4>1, EngineTypes DEF EngineInv
    <3> QED
      BY <2>2, <3>1, <3>2, <3>3 DEF Supply
  <2>8. ASSUME NEW b \in Buffers, DQBuf(b) PROVE Supply'
    <3>1. /\ UNCHANGED <<buf_list, dma_buf, bam_index, content, write_index, tasklet, cb,
                         bumped>>
          /\ HeadSlot' = HeadSlot /\ (ioctl' = "fill" <=> ioctl = "fill")
      BY <2>8 DEF DQBuf, listVars, engineVars, taskletVars, HeadSlot
    <3> QED
      BY <2>2, <3>1, SupplyFrame
  <2>9. CASE StreamOn \/ StreamOff \/ StartCapture \/ StartUnmask \/ StopMask
             \/ StopCapture \/ IrqHandler
    <3>1. /\ UNCHANGED <<buf_list, dma_buf, bam_index, content, write_index, tasklet, cb,
                         bumped>>
          /\ HeadSlot' = HeadSlot /\ (ioctl' = "fill" <=> ioctl = "fill")
      BY <2>9 DEF StreamOn, StreamOff, StartCapture, StartUnmask, StopMask, StopCapture,
                  IrqHandler, listVars, engineVars, taskletVars, HeadSlot
    <3> QED
      BY <2>2, <3>1, SupplyFrame
  <2>10. CASE WorkerTest \/ WorkerEmpty \/ WorkerDone \/ WorkerLoad
    <3>1. /\ UNCHANGED <<buf_list, dma_buf, bam_index, content, write_index, ioctl>>
          /\ HeadSlot' = HeadSlot
          /\ tasklet # "idle" /\ tasklet' # "took"
      BY <2>10 DEF WorkerTest, WorkerEmpty, WorkerDone, WorkerLoad, listVars, engineVars,
                   HeadSlot
    <3> QED
      BY <2>2, <3>1, SupplyFrame
  <2>11. CASE WorkerStore
    <3>1. /\ UNCHANGED <<buf_list, dma_buf, bam_index, content, write_index, ioctl>>
          /\ HeadSlot' = HeadSlot
          /\ tasklet # "idle" /\ tasklet' # "took"
      BY <2>1, <2>11
         DEF WorkerStore, listVars, engineVars, HeadSlot, EngineInv, AlignInv, Handover
    <3> QED
      BY <2>2, <3>1, SupplyFrame
  <2>12. CASE UNCHANGED vars
    <3>1. /\ UNCHANGED <<buf_list, dma_buf, bam_index, content, write_index, tasklet, cb,
                         bumped>>
          /\ HeadSlot' = HeadSlot /\ (ioctl' = "fill" <=> ioctl = "fill")
      BY <2>12 DEF vars, HeadSlot
    <3> QED
      BY <2>2, <3>1, SupplyFrame
  <2>13. /\ ~WorkerSkip /\ ~StopIndex /\ ~StopReturn /\ ~Cancel /\ ~StartFail /\ ~Hand
         /\ \A b \in Buffers : ~QBufIdle(b)
    <3>1. ~WorkerSkip /\ ~StopIndex /\ ~StopReturn /\ ~Cancel /\ ~StartFail
      BY <2>1 DEF WorkerSkip, SkipField, StopIndex, StopReturn, Cancel, StartFail,
                  Running, RingReset
    <3>2. ~Hand /\ \A b \in Buffers : ~QBufIdle(b)
      BY <2>1 DEF Hand, QBufIdle, Running, EngineInv, AlignInv, OwnerInv, CtlInv
    <3> QED
      BY <3>1, <3>2
  <2> QED
    BY <1>2, <2>3, <2>4, <2>5, <2>6, <2>7, <2>8, <2>9, <2>10, <2>11, <2>12, <2>13
       DEF Next, User, IoctlStep, Worker
<1> QED
  BY <1>1, <1>2

\* Nothing but a started engine is overrun.
LEMMA OverrunStep ==
  ASSUME EngineInv, [Next]_vars, ioctl' = "enable"
  PROVE  ~overrun'
<1>1. CASE StartReset
  BY <1>1, Zenon DEF StartReset
<1>2. CASE ~StartReset
  <2>1. ioctl = "enable"
    BY <1>2
       DEF Next, User, IoctlStep, Worker, QBufIdle, QBufRunning, DQBuf, StreamOn,
           StreamOff, Hand, FillTable, StartFail, StartCapture, StartUnmask, StopMask,
           StopCapture, StopIndex, StopReturn, Cancel, IrqHandler, TaskletStart,
           EngineFrame, WorkerTest, WorkerSkip, WorkerEmpty, WorkerTake, WorkerDone,
           WorkerLoad, WorkerStore, vars
  <2>2. ~overrun /\ ~capturing
    BY <2>1 DEF EngineInv, AlignInv, OwnerInv, CtlInv
  <2>3. UNCHANGED overrun
    BY <1>2, <2>2, Zenon
       DEF Next, User, IoctlStep, Worker, QBufIdle, QBufRunning, DQBuf, StreamOn,
           StreamOff, Hand, FillTable, StartFail, StartCapture, StartUnmask, StopMask,
           StopCapture, StopIndex, StopReturn, Cancel, IrqHandler, TaskletStart,
           EngineFrame, WorkerTest, WorkerSkip, WorkerEmpty, WorkerTake, WorkerDone,
           WorkerLoad, WorkerStore, vars, engineVars
  <2> QED
    BY <2>2, <2>3
<1> QED
  BY <1>1, <1>2

\* Nor is an interrupt lost: the worker gives up early only when the list is empty,
\* which it is not as long as the engine is supplied.
LEMMA WakeupStep ==
  ASSUME ~PairedFields, EngineInv, [Next]_vars, InStep', Running', ~overrun', Supply'
  PROVE  NoMissedWakeup'
<1> DEFINE Seen == IF tasklet = "idle" THEN bam_index # read_index => msi_status \/ scheduled
                   ELSE bam_index # write_index => msi_status \/ scheduled
<1> SUFFICES Seen'
  BY DEF NoMissedWakeup
<1>1. CASE StartReset
  <2>1. /\ bam_index' = 0 /\ ioctl = "start" /\ ~start_called
        /\ UNCHANGED <<tasklet, read_index, write_index>>
    BY <1>1 DEF StartReset, taskletVars, EngineInv, AlignInv, OwnerInv, CtlInv
  <2>2. read_index = 0 /\ (tasklet = "idle" \/ write_index = 0)
    BY <2>1, StrayStep DEF InStep, EngineInv, AlignInv, OwnerInv, CalmInv, RingReset
  <2> QED
    BY <2>1, <2>2
<1>2. CASE ~StartReset
  <2>1. InStep /\ Running /\ ~overrun
    BY <1>2, RunningBefore
  <2>2. Seen
    BY <2>1 DEF EngineInv, NoMissedWakeup
  <2>3. CASE EngineFrame
    BY <2>3, Zenon DEF EngineFrame
  <2>4. CASE IrqHandler
    BY <2>4, Zenon DEF IrqHandler
  <2>5. CASE TaskletStart
    BY <2>5 DEF TaskletStart, engineVars
  <2>6. CASE WorkerTest
    BY <2>2, <2>6 DEF WorkerTest, engineVars, msiVars
  <2>7. CASE WorkerEmpty
    <3>1. buf_list' = <<>>
      BY <2>7 DEF WorkerEmpty, listVars
    <3>2. HeadSlot' = HeadSlot /\ Filled' = Filled
      BY <2>7 DEF WorkerEmpty, HeadSlot, Filled, engineVars, Dist
    <3>3. Filled \in 0 .. VIP_BUFFERS - 1
      BY EngineTypes DEF EngineInv
    <3> QED
      BY <3>1, <3>2, <3>3, EmptySeq, VipBuffersAssumption DEF Supply
  <2>8. CASE WorkerSkip \/ WorkerTake \/ WorkerDone \/ WorkerLoad \/ WorkerStore
    <3>1. /\ UNCHANGED <<bam_index, write_index, msi_status, scheduled>>
          /\ tasklet # "idle" /\ tasklet' # "idle"
      BY <2>8 DEF WorkerSkip, WorkerTake, WorkerDone, WorkerLoad, WorkerStore,
                  engineVars, msiVars
    <3> QED
      BY <2>2, <3>1
  <2>9. ASSUME User \/ Hand \/ FillTable \/ StartFail \/ StartCapture \/ StartUnmask
               \/ StopMask \/ StopCapture \/ StopReturn \/ Cancel \/ UNCHANGED vars
        PROVE  Seen'
    <3>1. UNCHANGED <<tasklet, bam_index, read_index, write_index, msi_status, scheduled>>
      BY <2>9, Zenon
         DEF User, QBufIdle, QBufRunning, DQBuf, StreamOn, StreamOff, Hand, FillTable,
             StartFail, StartCapture, StartUnmask, StopMask, StopCapture, StopReturn,
             Cancel, vars, taskletVars, engineVars, msiVars
    <3> QED
      BY <2>2, <3>1
  <2>10. ~StopIndex
    BY DEF StopIndex, Running, RingReset
  <2> HIDE DEF Seen
  <2> QED
    BY <1>2, <2>3, <2>4, <2>5, <2>6, <2>7, <2>8, <2>9, <2>10 DEF Next, IoctlStep, Worker
<1> QED
  BY <1>1, <1>2

\* It holds at the start.
LEMMA EngineInit == Init => EngineInv
<1> SUFFICES ASSUME Init PROVE EngineInv
  OBVIOUS
<1>1. AlignInv
  BY AlignInit
<1>2. Unfilled /\ BodyInv /\ ioctl # "enable" /\ ~Running
  BY EmptySeq DEF Init, Unfilled, BodyInv, Running
<1> QED
  BY <1>1, <1>2 DEF EngineInv, NoMissedWakeup

\* Each step keeps it.
LEMMA EngineStep ==
  ASSUME ~PairedFields
  PROVE  EngineInv /\ [Next]_vars => EngineInv'
<1> SUFFICES ASSUME EngineInv, [Next]_vars PROVE EngineInv'
  OBVIOUS
<1>1. AlignInv'
  BY AlignStep DEF EngineInv
<1>2. ~stray' => ~stray
  BY StrayStep
<1>3. ~stray' => BodyInv'
  BY <1>2, BodyStep DEF EngineInv
<1>4. ioctl' = "enable" => ~overrun'
  BY OverrunStep
<1>5. ~stray' /\ Uncaptured' => Unfilled'
  BY <1>2, UnfilledStep
<1>6. InStep' /\ Running' /\ ~overrun' => Supply'
  BY SupplyStep
<1>7. NoMissedWakeup'
  <2>1. InStep' /\ ~overrun' /\ Running' => NoMissedWakeup'
    BY <1>6, WakeupStep
  <2> QED
    BY <2>1 DEF NoMissedWakeup
<1> QED
  BY <1>1, <1>3, <1>4, <1>5, <1>6, <1>7 DEF EngineInv

\* However many buffers there are: with one slot to a buffer, what is handed to the
\* application as DONE holds one complete frame, written once since the buffer was
\* queued, unless the buffer had lost its table to a later one (FreshFrame).
THEOREM FramesComplete ==
  ASSUME ~PairedFields
  PROVE  Spec => []FreshFrame
<1>1. EngineInv => FreshFrame
  <2> SUFFICES ASSUME EngineInv, InStep, ~overrun, tasklet = "took", ~bumped
               PROVE  content[cb] = "fresh"
    BY DEF FreshFrame
  <2>1. Running
    BY DEF EngineInv, AlignInv, OwnerInv, CalmInv, Running, RingReset, InStep
  <2> QED
    BY <2>1 DEF EngineInv, Supply
<1> QED
  BY <1>1, EngineInit, EngineStep, PTL DEF Spec

\* However many buffers there are: with one slot to a buffer, the engine writes into
\* listed, empty buffers only (EngineOwnsSlot), never into one that the application
\* or the worker has.
THEOREM EngineKeepsToList ==
  ASSUME ~PairedFields
  PROVE  Spec => []EngineOwnsSlot
<1>1. EngineInv => EngineOwnsSlot
  <2> SUFFICES ASSUME EngineInv, InStep, ~overrun, capturing
               PROVE  LET b == dma_buf[PageTable(bam_index)]
                      IN  b \in Buffers /\ Listed(b) /\ content[b] = "empty"
    BY DEF EngineOwnsSlot
  <2>1. Running
    BY DEF EngineInv, AlignInv, OwnerInv, CtlInv, Running, RingReset
  <2>2. /\ PageTable(bam_index) = bam_index
        /\ \A k \in 1 .. Len(buf_list) : buf_list[k] \in Buffers
    BY EngineTypes DEF EngineInv
  <2>3. /\ \E k \in 1 .. Len(buf_list) : dma_buf[bam_index] = buf_list[k]
        /\ content[dma_buf[bam_index]] = "empty"
    BY <2>1 DEF EngineInv, Supply
  <2> QED
    BY <2>2, <2>3 DEF Listed
<1> QED
  BY <1>1, EngineInit, EngineStep, PTL DEF Spec

\* However many buffers there are: with one slot to a buffer, a frame that ends after
\* the worker has read the engine's index has its interrupt pending or the worker
\* scheduled again (NoMissedWakeup).
THEOREM NoFrameForgotten ==
  ASSUME ~PairedFields
  PROVE  Spec => []NoMissedWakeup
<1>1. EngineInv => NoMissedWakeup
  BY DEF EngineInv
<1> QED
  BY <1>1, EngineInit, EngineStep, PTL DEF Spec


-----------------------------------------------------------------------------
(* Frame numbers.                                                          *)

\* The counter's width is a whole number of turns of the ring (2^32 in the code).
WholeTurns == SeqWrap % NumTables = 0

\* Counting and walking the page tables agree.
LEMMA CountTurns ==
  ASSUME WholeTurns, NEW s \in 0 .. SeqWrap - 1
  PROVE  ((s + 1) % SeqWrap) % NumTables = NextTable(s % NumTables)
<1> DEFINE N == NumTables
           q == s \div N
           r == s % N
           w == SeqWrap \div N
<1>1. N \in Nat \ {0} /\ SeqWrap \in Nat \ {0}
  BY RingType, SeqWrapAssumption
<1>2. /\ s = N * q + r /\ q \in Nat /\ r \in 0 .. N - 1
      /\ SeqWrap = N * w /\ w \in Nat
  BY <1>1, SMT DEF WholeTurns
<1>3. \A a \in Nat, b \in 0 .. N - 1 : (N * a + b) % N = b
  BY <1>1, SMT
<1> HIDE DEF N, q, r, w
<1>4. CASE s + 1 = SeqWrap
  <2>1. (s + 1) % SeqWrap = 0 /\ 0 % N = 0
    BY <1>1, <1>3, <1>4
  <2>2. r = N - 1
    <3>1. N * w = N * q + r + 1 /\ r + 1 \in 1 .. N
      BY <1>1, <1>2, <1>4
    <3>2. w > q
      BY <1>1, <1>2, <3>1, SMT
    <3>3. N * w >= N * (q + 1)
      BY <1>1, <1>2, <3>2, SMT
    <3> QED
      BY <1>1, <1>2, <3>1, <3>3, SMT
  <2> QED
    BY <2>1, <2>2 DEF NextTable, N, r
<1>5. CASE s + 1 # SeqWrap
  <2>1. (s + 1) % SeqWrap = s + 1
    BY <1>1, <1>5
  <2>2. CASE r = N - 1
    <3>1. s + 1 = N * (q + 1) + 0
      BY <1>1, <1>2, <2>2, SMT
    <3>2. (s + 1) % N = 0
      BY <1>1, <1>2, <1>3, <3>1
    <3> QED
      BY <2>1, <2>2, <3>2 DEF NextTable, N, r
  <2>3. CASE r # N - 1
    <3>1. s + 1 = N * q + (r + 1) /\ r + 1 \in 0 .. N - 1
      BY <1>1, <1>2, <2>3, SMT
    <3>2. (s + 1) % N = r + 1
      BY <1>2, <1>3, <3>1
    <3> QED
      BY <2>1, <2>3, <3>2 DEF NextTable, N, r
  <2> QED
    BY <2>2, <2>3
<1> QED
  BY <1>4, <1>5

\* The worker counts once it has taken a buffer, which it does for the second field
\* of two; the rest of the worker's steps leave the counter's place in the ring.
CountInv ==
  /\ OwnerInv
  /\ SequenceTracksRing
  /\ ~stray => /\ tasklet = "store" => next_index = Inc(read_index)
               /\ tasklet = "took" => ~SkipField

\* The sequence number moves with the ring.
LEMMA CountStep ==
  ASSUME WholeTurns
  PROVE  CountInv /\ [Next]_vars => CountInv'
<1> SUFFICES ASSUME CountInv, [Next]_vars PROVE CountInv'
  OBVIOUS
<1> DEFINE Slot == IF tasklet \in {"advance", "store"} THEN Inc(read_index) ELSE read_index
<1> USE DEF CountInv
<1>0. OwnerInv'
  BY OwnerStep
<1>t. /\ read_index \in Index /\ sequence \in 0 .. SeqWrap - 1
  BY DEF OwnerInv, TypeInv, DataInv, DataOK
<1> SUFFICES ASSUME ~stray, ~stray'
             PROVE  /\ Running' => sequence' % NumTables = QueueTable(Slot')
                    /\ tasklet' = "store" => next_index' = Inc(read_index')
                    /\ tasklet' = "took" => ~SkipField'
  BY <1>0, StrayStep DEF SequenceTracksRing
<1>1. Running => sequence % NumTables = QueueTable(Slot)
  BY DEF SequenceTracksRing
<1> HIDE DEF Slot
<1>2. CASE StartReset
  <2>1. /\ sequence' = 0 /\ ioctl = "start" /\ ~start_called
        /\ UNCHANGED <<tasklet, read_index, next_index>>
    BY <1>2 DEF StartReset, taskletVars, OwnerInv, CtlInv
  <2>2. read_index = 0 /\ tasklet \in {"idle", "test"}
    BY <2>1 DEF OwnerInv, CalmInv, RingReset
  <2>3. Slot' = 0 /\ QueueTable(0) = 0 /\ 0 % NumTables = 0
    BY <2>1, <2>2, RingType DEF Slot, QueueTable
  <2> QED
    BY <2>1, <2>2, <2>3
<1>3. CASE WorkerDone
  <2>1. /\ tasklet = "took" /\ tasklet' = "advance" /\ sequence' = (sequence + 1) % SeqWrap
        /\ UNCHANGED <<read_index, start_called, ioctl>>
    BY <1>3 DEF WorkerDone
  <2>2. Slot = read_index /\ Slot' = Inc(read_index)
    BY <2>1 DEF Slot, Inc
  <2>3. QueueTable(Inc(read_index)) = NextTable(QueueTable(read_index))
    BY <1>t, <2>1, SlotTable DEF SkipField
  <2>4. Running' = Running
    BY <2>1 DEF Running, RingReset
  <2>5. ((sequence + 1) % SeqWrap) % NumTables = NextTable(sequence % NumTables)
    BY <1>t, CountTurns
  <2> QED
    BY <1>1, <2>1, <2>2, <2>3, <2>4, <2>5
<1>4. CASE WorkerSkip
  <2>1. /\ tasklet = "body" /\ tasklet' = "advance" /\ SkipField
        /\ UNCHANGED <<read_index, start_called, ioctl, sequence>>
    BY <1>4 DEF WorkerSkip, vb2Vars
  <2>2. Slot = read_index /\ Slot' = Inc(read_index)
    BY <2>1 DEF Slot, Inc
  <2>3. QueueTable(Inc(read_index)) = QueueTable(read_index)
    BY <1>t, <2>1, SlotTable DEF SkipField
  <2>4. Running' = Running
    BY <2>1 DEF Running, RingReset
  <2> QED
    BY <1>1, <2>1, <2>2, <2>3, <2>4
<1>5. CASE WorkerStore
  <2>1. /\ tasklet = "store" /\ tasklet' = "test" /\ read_index' = next_index
        /\ UNCHANGED <<start_called, ioctl, sequence>>
    BY <1>5 DEF WorkerStore, vb2Vars
  <2>2. Slot = Inc(read_index) /\ Slot' = Inc(read_index)
    BY <2>1 DEF Slot
  <2>3. Running' = Running
    BY <2>1 DEF Running, RingReset
  <2> QED
    BY <1>1, <2>1, <2>2, <2>3
<1>6. CASE WorkerLoad
  <2>1. /\ tasklet = "advance" /\ tasklet' = "store" /\ next_index' = Inc(read_index)
        /\ UNCHANGED <<read_index, start_called, ioctl, sequence>>
    BY <1>6 DEF WorkerLoad, vb2Vars
  <2>2. Slot' = Slot /\ Running' = Running
    BY <2>1 DEF Slot, Inc, Running, RingReset
  <2> QED
    BY <1>1, <2>1, <2>2 DEF Inc
<1>7. CASE WorkerTest \/ WorkerEmpty \/ WorkerTake \/ TaskletStart
  <2>1. /\ tasklet \notin {"advance", "store"} /\ tasklet' \notin {"advance", "store"}
        /\ tasklet' = "took" => ~SkipField
        /\ UNCHANGED <<read_index, start_called, ioctl, sequence>>
    BY <1>7 DEF WorkerTest, WorkerEmpty, WorkerTake, TaskletStart, vb2Vars
  <2>2. Slot' = Slot /\ Running' = Running /\ SkipField' = SkipField
    BY <2>1 DEF Slot, Running, RingReset, SkipField
  <2> QED
    BY <1>1, <2>1, <2>2
<1>8. ASSUME User \/ Hand \/ FillTable \/ StartFail \/ StartCapture \/ StartUnmask
             \/ StopMask \/ StopCapture \/ StopReturn \/ Cancel \/ IrqHandler
             \/ EngineFrame \/ UNCHANGED vars
      PROVE  /\ UNCHANGED <<tasklet, read_index, next_index, sequence>>
             /\ Running' => Running
  <2>1. UNCHANGED <<tasklet, read_index, next_index, sequence>>
    BY <1>8, Zenon
       DEF User, QBufIdle, QBufRunning, DQBuf, StreamOn, StreamOff, Hand, FillTable,
           StartFail, StartCapture, StartUnmask, StopMask, StopCapture, StopReturn,
           Cancel, IrqHandler, EngineFrame, vars, taskletVars
  <2>2. Running' => Running
    BY <1>8
       DEF User, QBufIdle, QBufRunning, DQBuf, StreamOn, StreamOff, Hand, FillTable,
           StartFail, StartCapture, StartUnmask, StopMask, StopCapture, StopReturn,
           Cancel, IrqHandler, EngineFrame, vars, vb2Vars, Running, RingReset
  <2> QED
    BY <2>1, <2>2
<1>9. CASE StopIndex
  BY <1>9 DEF StopIndex, Running, RingReset, taskletVars
<1>10. CASE UNCHANGED <<tasklet, read_index, next_index, sequence>> /\ (Running' => Running)
  <2>1. Slot' = Slot /\ SkipField' = SkipField
    BY <1>10 DEF Slot, Inc, SkipField
  <2> QED
    BY <1>1, <1>10, <2>1 DEF Inc
<1> QED
  BY <1>2, <1>3, <1>4, <1>5, <1>6, <1>7, <1>8, <1>9, <1>10 DEF Next, IoctlStep, Worker

\* The number a frame gets tells the slot it came from: none is skipped and none is
\* counted twice, with one or two fields to a buffer (SequenceTracksRing).
THEOREM FramesNumbered ==
  ASSUME WholeTurns
  PROVE  Spec => []SequenceTracksRing
<1>1. Init => CountInv
  <2> SUFFICES ASSUME Init PROVE CountInv
    OBVIOUS
  <2>1. ~Running /\ tasklet = "idle"
    BY DEF Init, Running
  <2> QED
    BY <2>1, OwnerInit DEF CountInv, SequenceTracksRing
<1>2. CountInv => SequenceTracksRing
  BY DEF CountInv
<1> QED
  BY <1>1, <1>2, CountStep, PTL DEF Spec

-----------------------------------------------------------------------------
(***************************************************************************)
(* The pipeline implements the abstract capture queue, for every number    *)
(* of ring slots, every set of buffers and both field modes: each of its   *)
(* steps is a step of FrameQueue or leaves the queue's state alone.        *)
(***************************************************************************)

(* The refinement mapping under names of its own.                          *)

QOwner   == [b \in Buffers |-> Owner[vb_state[b]]]
QFifo    == Held \o buf_list \o queued_list
QRunning == start_called /\ ioctl # "cancel"

\* The actions of the abstract queue, its variables replaced by the driver's.
LEMMA QueueActions ==
  /\ \A b \in Buffers :
       /\ QOwner[b] = "app" /\ QOwner' = [QOwner EXCEPT ![b] = "queue"]
       /\ QFifo' = Append(QFifo, b) /\ QRunning' = QRunning /\ sequence' = sequence
       => FQ!Queue(b)
  /\ \A b \in Buffers :
       /\ QOwner[b] = "full" /\ QOwner' = [QOwner EXCEPT ![b] = "app"]
       /\ QFifo' = QFifo /\ QRunning' = QRunning /\ sequence' = sequence
       => FQ!Fetch(b)
  /\ /\ ~QRunning /\ QFifo # <<>> /\ QRunning' = TRUE /\ sequence' = 0
     /\ QOwner' = QOwner /\ QFifo' = QFifo
     => FQ!Start
  /\ /\ QRunning /\ sequence = 0 /\ QRunning' = FALSE
     /\ QOwner' = QOwner /\ QFifo' = QFifo /\ sequence' = sequence
     => FQ!StartFail
  /\ /\ QRunning /\ QFifo # <<>> /\ QOwner' = [QOwner EXCEPT ![Head(QFifo)] = "full"]
     /\ QFifo' = Tail(QFifo) /\ sequence' = (sequence + 1) % SeqWrap
     /\ QRunning' = QRunning
     => FQ!Deliver
  /\ /\ QRunning /\ QFifo' = <<>> /\ QRunning' = FALSE /\ sequence' = sequence
     /\ QOwner' = [b \in Buffers |-> IF QOwner[b] = "queue" THEN "flushed" ELSE QOwner[b]]
     => FQ!Flush
  /\ /\ ~QRunning /\ QOwner' = [b \in Buffers |-> "app"] /\ QFifo' = <<>>
     /\ QRunning' = QRunning /\ sequence' = sequence
     => FQ!Release
BY Zenon DEF QOwner, QFifo, QRunning, FQ!Queue, FQ!Fetch, FQ!Start, FQ!StartFail,
             FQ!Deliver, FQ!Flush, FQ!Release

\* What leaves the abstract queue as it is.
LEMMA QueueStutter ==
  ASSUME QOwner' = QOwner, QFifo' = QFifo, QRunning' = QRunning, sequence' = sequence
  PROVE  UNCHANGED FQ!fqVars
BY DEF QOwner, QFifo, QRunning, FQ!fqVars

\* The driver starts as the abstract queue does.
LEMMA QueueInit == Init => FQ!Init
<1> SUFFICES ASSUME Init PROVE FQ!Init
  OBVIOUS
<1>1. QOwner = [b \in Buffers |-> "app"]
  BY DEF Init, QOwner, Owner
<1>2. QFifo = <<>>
  BY DEF Init, QFifo, Held
<1>3. QRunning = FALSE /\ sequence = 0
  BY DEF Init, QRunning
<1> QED
  BY <1>1, <1>2, <1>3 DEF QOwner, QFifo, QRunning, FQ!Init

-----------------------------------------------------------------------------
(* Moving a buffer from the head of one list to the end of the one before. *)

\* Appending to the second of two lists appends to both together.
LEMMA ConcatAppend ==
  ASSUME NEW s \in Seq(Buffers), NEW t \in Seq(Buffers), NEW x \in Buffers
  PROVE  s \o Append(t, x) = Append(s \o t, x)
<1>1. <<x>> \in Seq(Buffers) /\ s \o t \in Seq(Buffers)
  BY ConcatProperties
<1>2. Append(t, x) = t \o <<x>> /\ Append(s \o t, x) = (s \o t) \o <<x>>
  BY <1>1, AppendIsConcat
<1> QED
  BY <1>1, <1>2, ConcatAssociative

\* A list is its head before its tail.
LEMMA HeadTail ==
  ASSUME NEW t \in Seq(Buffers), t # <<>>
  PROVE  /\ Head(t) \in Buffers /\ Tail(t) \in Seq(Buffers)
         /\ <<Head(t)>> \in Seq(Buffers)
         /\ t = <<Head(t)>> \o Tail(t)
<1>1. /\ Head(t) \in Buffers /\ Head(t) = t[1] /\ Tail(t) \in Seq(Buffers)
      /\ Len(t) \in Nat \ {0} /\ Len(Tail(t)) = Len(t) - 1
      /\ \A i \in 1 .. Len(Tail(t)) : Tail(t)[i] = t[i + 1]
  BY HeadTailProperties, EmptySeq
<1> DEFINE h == <<Head(t)>>
           u == h \o Tail(t)
<1>2. h \in Seq(Buffers) /\ Len(h) = 1 /\ h[1] = t[1]
  BY <1>1
<1> HIDE DEF h
<1>3. /\ u \in Seq(Buffers) /\ Len(u) = Len(t)
      /\ \A i \in 1 .. Len(t) : u[i] = IF i <= 1 THEN h[i] ELSE Tail(t)[i - 1]
  <2>1. /\ u \in Seq(Buffers) /\ Len(u) = Len(h) + Len(Tail(t))
        /\ \A i \in 1 .. Len(h) + Len(Tail(t)) :
             u[i] = IF i <= Len(h) THEN h[i] ELSE Tail(t)[i - Len(h)]
    BY <1>1, <1>2, ConcatProperties
  <2>2. Len(h) + Len(Tail(t)) = Len(t)
    BY <1>1, <1>2
  <2> QED
    BY <1>2, <2>1, <2>2
<1> HIDE DEF u
<1>4. ASSUME NEW i \in 1 .. Len(t) PROVE u[i] = t[i]
  <2>1. CASE i = 1
    BY <1>2, <1>3, <2>1
  <2>2. CASE i # 1
    <3>1. i - 1 \in 1 .. Len(Tail(t)) /\ ~(i <= 1) /\ (i - 1) + 1 = i
      BY <1>1, <2>2
    <3> QED
      BY <1>1, <1>3, <3>1
  <2> QED
    BY <2>1, <2>2
<1>5. u = t
  BY <1>3, <1>4, SeqEqual
<1> QED
  BY <1>1, <1>2, <1>5 DEF h, u

\* The head of the second list may be the last of the first.
LEMMA HeadMoves ==
  ASSUME NEW s \in Seq(Buffers), NEW t \in Seq(Buffers), t # <<>>
  PROVE  Append(s, Head(t)) \o Tail(t) = s \o t
<1>1. /\ Head(t) \in Buffers /\ Tail(t) \in Seq(Buffers) /\ <<Head(t)>> \in Seq(Buffers)
      /\ t = <<Head(t)>> \o Tail(t)
  BY HeadTail
<1>2. Append(s, Head(t)) = s \o <<Head(t)>>
  BY <1>1, AppendIsConcat
<1>3. (s \o <<Head(t)>>) \o Tail(t) = s \o (<<Head(t)>> \o Tail(t))
  BY <1>1, ConcatAssociative
<1> QED
  BY <1>1, <1>2, <1>3

\* What the head of a list is, seen from a list that begins with it.
LEMMA HeadOfHeld ==
  ASSUME NEW x \in Buffers, NEW s \in Seq(Buffers), NEW t \in Seq(Buffers)
  PROVE  LET f == <<x>> \o s \o t IN
         f # <<>> /\ Head(f) = x /\ Tail(f) = s \o t
<1> DEFINE f == <<x>> \o s \o t
           r == s \o t
<1>1. <<x>> \in Seq(Buffers) /\ Len(<<x>>) = 1 /\ <<x>>[1] = x /\ r \in Seq(Buffers)
  BY ConcatProperties
<1>2. f = <<x>> \o r
  BY <1>1, ConcatAssociative
<1>3. /\ f \in Seq(Buffers) /\ Len(f) = 1 + Len(r)
      /\ \A i \in 1 .. 1 + Len(r) : f[i] = IF i <= 1 THEN <<x>>[i] ELSE r[i - 1]
  BY <1>1, <1>2, ConcatProperties
<1>4. Len(r) \in Nat
  BY <1>1, LenProperties
<1> HIDE DEF f, r
<1>5. f # <<>> /\ Len(f) # 0
  BY <1>3, <1>4, EmptySeq
<1>6. f[1] = x
  BY <1>1, <1>3, <1>4
<1>7. /\ Head(f) = x /\ Tail(f) \in Seq(Buffers) /\ Len(Tail(f)) = Len(f) - 1
      /\ \A i \in 1 .. Len(Tail(f)) : Tail(f)[i] = f[i + 1]
  BY <1>3, <1>5, <1>6, HeadTailProperties
<1>8. ASSUME NEW i \in 1 .. Len(r) PROVE Tail(f)[i] = r[i]
  <2>1. i \in 1 .. Len(Tail(f)) /\ i + 1 \in 1 .. 1 + Len(r) /\ ~(i + 1 <= 1) /\ (i + 1) - 1 = i
    BY <1>3, <1>4, <1>7
  <2> QED
    BY <1>3, <1>7, <2>1
<1>9. Tail(f) = r
  <2>1. Len(Tail(f)) = Len(r)
    BY <1>3, <1>4, <1>7
  <2> QED
    BY <1>1, <1>7, <1>8, <2>1, SeqEqual DEF r
<1> QED
  BY <1>5, <1>7, <1>9 DEF f, r

-----------------------------------------------------------------------------
(* Step by step.                                                           *)

\* A started queue delivers from number 0.
QueueInv == OwnerInv /\ ~stray /\ Handover /\ (ioctl = "enable" => sequence = 0)

\* Each step that calls no queue function out of turn keeps the invariant.
LEMMA QueueInvStep == QueueInv /\ [Next /\ ~stray']_vars => QueueInv'
<1> SUFFICES ASSUME QueueInv, [Next /\ ~stray']_vars PROVE QueueInv'
  OBVIOUS
<1>1. [Next]_vars /\ ~stray'
  BY DEF QueueInv, vars
<1>2. OwnerInv' /\ Handover'
  BY <1>1, OwnerStep, HandoverStep DEF QueueInv
<1>3. ASSUME ioctl' = "enable" PROVE sequence' = 0
  <2>1. CASE StartReset
    BY <2>1 DEF StartReset
  <2>2. CASE ~StartReset
    <3>1. ioctl = "enable"
      <4> USE DEF vb2Vars, listVars, taskletVars, engineVars, msiVars
      <4>1. ASSUME NEW b \in Buffers, QBufIdle(b) \/ QBufRunning(b) \/ DQBuf(b)
            PROVE  FALSE
        BY <1>3, <4>1 DEF QBufIdle, QBufRunning, DQBuf
      <4>2. ~(StreamOn \/ StreamOff \/ Hand \/ FillTable \/ StartFail \/ StartCapture)
        BY <1>3 DEF StreamOn, StreamOff, Hand, FillTable, StartFail, StartCapture
      <4>3. ~(StartUnmask \/ StopMask \/ StopCapture \/ StopIndex \/ StopReturn \/ Cancel)
        BY <1>3 DEF StartUnmask, StopMask, StopCapture, StopIndex, StopReturn, Cancel
      <4>4. IrqHandler \/ TaskletStart \/ Worker \/ EngineFrame => ioctl' = ioctl
        BY DEF IrqHandler, TaskletStart, Worker, EngineFrame, WorkerTest, WorkerSkip,
               WorkerEmpty, WorkerTake, WorkerDone, WorkerLoad, WorkerStore
      <4>5. UNCHANGED vars => ioctl' = ioctl
        BY DEF vars
      <4> QED
        BY <1>1, <1>3, <2>2, <4>1, <4>2, <4>3, <4>4, <4>5 DEF Next, User, IoctlStep
    <3>2. tasklet # "took"
      BY <3>1 DEF QueueInv, OwnerInv, CalmInv
    <3>3. sequence' = sequence
      <4> USE DEF vb2Vars, listVars, taskletVars, engineVars, msiVars
      <4>1. ASSUME NEW b \in Buffers, QBufIdle(b) \/ QBufRunning(b) \/ DQBuf(b)
            PROVE  sequence' = sequence
        BY <4>1 DEF QBufIdle, QBufRunning, DQBuf
      <4>2. StreamOn \/ StreamOff \/ Hand \/ FillTable \/ StartFail \/ StartCapture
            => sequence' = sequence
        BY DEF StreamOn, StreamOff, Hand, FillTable, StartFail, StartCapture
      <4>3. StartUnmask \/ StopMask \/ StopCapture \/ StopIndex \/ StopReturn \/ Cancel
            => sequence' = sequence
        BY DEF StartUnmask, StopMask, StopCapture, StopIndex, StopReturn, Cancel
      <4>4. IrqHandler \/ TaskletStart \/ Worker \/ EngineFrame => sequence' = sequence
        BY <3>2 DEF IrqHandler, TaskletStart, Worker, EngineFrame, WorkerTest, WorkerSkip,
               WorkerEmpty, WorkerTake, WorkerDone, WorkerLoad, WorkerStore
      <4>5. UNCHANGED vars => sequence' = sequence
        BY DEF vars
      <4> QED
        BY <1>1, <2>2, <4>1, <4>2, <4>3, <4>4, <4>5 DEF Next, User, IoctlStep
    <3> QED
      BY <3>1, <3>3 DEF QueueInv
  <2> QED
    BY <2>1, <2>2
<1> QED
  BY <1>1, <1>2, <1>3 DEF QueueInv

\* A buffer that changes its videobuf2 state changes its owner alone.
LEMMA OwnerChange ==
  ASSUME NEW b \in Buffers, NEW v \in VbStates, vb_state \in [Buffers -> VbStates],
         vb_state' = [vb_state EXCEPT ![b] = v]
  PROVE  QOwner[b] = Owner[vb_state[b]] /\ QOwner' = [QOwner EXCEPT ![b] = Owner[v]]
<1>1. ASSUME NEW c \in Buffers
      PROVE  QOwner'[c] = IF c = b THEN Owner[v] ELSE QOwner[c]
  BY DEF QOwner
<1> QED
  BY <1>1 DEF QOwner

\* What the application does is a step of the abstract queue.
LEMMA StepApplication ==
  ASSUME QueueInv, NEW b \in Buffers
  PROVE  /\ QBufIdle(b) => FQ!Queue(b)
         /\ QBufRunning(b) => FQ!Queue(b)
         /\ DQBuf(b) => FQ!Fetch(b)
<1> USE DEF QueueInv, OwnerInv, TypeInv, DataInv, DataOK, vb2Vars, listVars,
            taskletVars, engineVars, msiVars
<1>0. Held \in Seq(Buffers) /\ Held \o buf_list \in Seq(Buffers)
  BY ConcatProperties DEF Owners, Held
<1>1. ASSUME QBufIdle(b) PROVE FQ!Queue(b)
  <2>1. /\ vb_state[b] = "user" /\ vb_state' = [vb_state EXCEPT ![b] = "queued"]
        /\ queued_list' = Append(queued_list, b) /\ ioctl = "none" /\ ioctl' \in {"none", "hand"}
        /\ UNCHANGED <<tasklet, cb, buf_list, start_called, sequence>>
    BY <1>1, Zenon DEF QBufIdle
  <2>2. QOwner[b] = "app" /\ QOwner' = [QOwner EXCEPT ![b] = "queue"]
    <3>1. "queued" \in VbStates /\ vb_state \in [Buffers -> VbStates]
      BY DEF VbStates
    <3>2. QOwner[b] = Owner[vb_state[b]] /\ QOwner' = [QOwner EXCEPT ![b] = Owner["queued"]]
      BY <2>1, <3>1, OwnerChange
    <3> QED
      BY <2>1, <3>2 DEF Owner
  <2>3. QFifo' = Append(QFifo, b)
    BY <1>0, <2>1, ConcatAppend DEF QFifo, Held
  <2> QED
    BY <2>1, <2>2, <2>3, QueueActions DEF QRunning
<1>2. ASSUME QBufRunning(b) PROVE FQ!Queue(b)
  <2>1. /\ vb_state[b] = "user" /\ vb_state' = [vb_state EXCEPT ![b] = "active"]
        /\ buf_list' = Append(buf_list, b) /\ ioctl = "none" /\ ioctl' = "fill"
        /\ start_called
        /\ UNCHANGED <<tasklet, cb, queued_list, start_called, sequence>>
    BY <1>2, Zenon DEF QBufRunning
  <2>2. QOwner[b] = "app" /\ QOwner' = [QOwner EXCEPT ![b] = "queue"]
    <3>1. "active" \in VbStates /\ vb_state \in [Buffers -> VbStates]
      BY DEF VbStates
    <3>2. QOwner[b] = Owner[vb_state[b]] /\ QOwner' = [QOwner EXCEPT ![b] = Owner["active"]]
      BY <2>1, <3>1, OwnerChange
    <3> QED
      BY <2>1, <3>2 DEF Owner
  <2>3. queued_list = <<>>
    BY <2>1 DEF CtlInv
  <2>4. QFifo' = Append(QFifo, b)
    <3>1. /\ Held \o Append(buf_list, b) = Append(Held \o buf_list, b)
          /\ Append(Held \o buf_list, b) \in Seq(Buffers)
      BY <1>0, ConcatAppend, AppendProperties
    <3>2. QFifo = Held \o buf_list
      BY <1>0, <2>3, ConcatEmptySeq DEF QFifo
    <3>3. QFifo' = Append(Held \o buf_list, b) \o <<>>
      BY <2>1, <2>3, <3>1 DEF QFifo, Held
    <3> QED
      BY <3>1, <3>2, <3>3, ConcatEmptySeq
  <2> QED
    BY <2>1, <2>2, <2>4, QueueActions DEF QRunning
<1>3. ASSUME DQBuf(b) PROVE FQ!Fetch(b)
  <2>1. /\ vb_state[b] = "done" /\ vb_state' = [vb_state EXCEPT ![b] = "user"]
        /\ UNCHANGED <<tasklet, cb, queued_list, buf_list, start_called, ioctl, sequence>>
    BY <1>3, Zenon DEF DQBuf
  <2>2. QOwner[b] = "full" /\ QOwner' = [QOwner EXCEPT ![b] = "app"]
    <3>1. "user" \in VbStates /\ vb_state \in [Buffers -> VbStates]
      BY DEF VbStates
    <3>2. QOwner[b] = Owner[vb_state[b]] /\ QOwner' = [QOwner EXCEPT ![b] = Owner["user"]]
      BY <2>1, <3>1, OwnerChange
    <3> QED
      BY <2>1, <3>2 DEF Owner
  <2> QED
    BY <2>1, <2>2, QueueActions DEF QRunning, QFifo, Held
<1> QED
  BY <1>1, <1>2, <1>3

\* A slot that is filled anew moves no buffer in the abstract queue.
LEMMA StepHand == QueueInv /\ Hand => UNCHANGED FQ!fqVars
<1> SUFFICES ASSUME QueueInv, Hand PROVE UNCHANGED FQ!fqVars
  OBVIOUS
<1> USE DEF QueueInv, OwnerInv, TypeInv, DataInv, DataOK
<1>1. queued_list # <<>> /\ queued_list \in Seq(Buffers)
  BY DEF HandInv, Hand
<1>2. /\ vb_state' = [vb_state EXCEPT ![Head(queued_list)] = "active"]
      /\ queued_list' = Tail(queued_list) /\ buf_list' = Append(buf_list, Head(queued_list))
      /\ ioctl = "hand" /\ ioctl' = "fill"
      /\ UNCHANGED <<tasklet, cb, start_called, sequence>>
  BY DEF Hand, taskletVars
<1>3. Head(queued_list) \in Buffers /\ vb_state[Head(queued_list)] = "queued"
  BY <1>1, TailDistinct DEF Owners
<1>4. QOwner' = QOwner
  BY <1>2, <1>3 DEF QOwner, Owner
<1>5. Held \in Seq(Buffers) /\ Held \o buf_list \in Seq(Buffers)
  BY ConcatProperties DEF Owners, Held
<1>6. Held \o Append(buf_list, Head(queued_list)) = Append(Held \o buf_list, Head(queued_list))
  BY <1>3, <1>5, ConcatAppend
<1>7. QFifo' = QFifo
  <2>1. QFifo' = (Held \o Append(buf_list, Head(queued_list))) \o Tail(queued_list)
    BY <1>2 DEF QFifo, Held
  <2>2. Append(Held \o buf_list, Head(queued_list)) \o Tail(queued_list) = QFifo
    BY <1>1, <1>5, HeadMoves DEF QFifo
  <2> QED
    BY <1>6, <2>1, <2>2
<1> QED
  BY <1>2, <1>4, <1>7, QueueStutter DEF QRunning

\* The steps of the ioctls that start and stop the queue.
LEMMA StepStart ==
  ASSUME QueueInv
  PROVE  /\ StartReset => FQ!Start
         /\ StartFail => FQ!StartFail
<1> USE DEF QueueInv, OwnerInv, TypeInv, DataInv, DataOK
<1>0. Held \in Seq(Buffers) /\ Held \o buf_list \in Seq(Buffers)
  BY ConcatProperties DEF Owners, Held
<1>1. ASSUME StartReset PROVE FQ!Start
  <2>1. /\ ioctl = "start" /\ ioctl' = "enable" /\ start_called' = TRUE /\ sequence' = 0
        /\ UNCHANGED <<vb_state, tasklet, cb, buf_list, queued_list>>
    BY <1>1 DEF StartReset, listVars, taskletVars
  <2>2. ~start_called /\ queued_list = <<>>
    BY <2>1 DEF CtlInv
  <2>3. Len(buf_list) + Len(queued_list) >= VIP_BUFFERS
    BY <2>1, <2>2 DEF Handover
  <2>4. buf_list # <<>>
    BY <2>2, <2>3, EmptySeq, VipBuffersAssumption
  <2>5. QFifo # <<>>
    <3>1. QFifo = Held \o buf_list
      BY <1>0, <2>2, ConcatEmptySeq DEF QFifo
    <3> QED
      BY <1>0, <2>4, <3>1, ConcatEqualIffEmpty
  <2> QED
    BY <2>1, <2>2, <2>5, QueueActions DEF QOwner, QFifo, QRunning, Held
<1>2. ASSUME StartFail PROVE FQ!StartFail
  <2>1. /\ ioctl = "enable" /\ ioctl' = "none" /\ start_called' = FALSE
        /\ vb_state' = Returned("queued") /\ queued_list' = buf_list \o queued_list
        /\ buf_list' = <<>>
        /\ UNCHANGED <<tasklet, cb, sequence>>
    BY <1>2 DEF StartFail, taskletVars
  <2>2. start_called /\ tasklet # "took" /\ queued_list = <<>>
    BY <2>1 DEF CtlInv, CalmInv
  <2>3. QOwner' = QOwner
    BY <2>1 DEF QOwner, Owner, Returned
  <2>4. Held = <<>> /\ Held' = <<>>
    BY <2>1, <2>2 DEF Held
  <2>5. QFifo' = QFifo
    BY <2>1, <2>2, <2>4, ConcatEmptySeq DEF QFifo
  <2> QED
    BY <2>1, <2>2, <2>3, <2>5, QueueActions DEF QRunning
<1> QED
  BY <1>1, <1>2

\* Stopping returns every buffer, as in the abstract queue.
LEMMA StepStop ==
  ASSUME QueueInv
  PROVE  /\ StopReturn => FQ!Flush
         /\ Cancel => FQ!Release
<1> USE DEF QueueInv, OwnerInv, TypeInv, DataInv, DataOK
<1>1. ASSUME StopReturn PROVE FQ!Flush
  <2>1. /\ ioctl = "stopReturn" /\ ioctl' = "cancel" /\ vb_state' = Returned("error")
        /\ buf_list' = <<>>
        /\ UNCHANGED <<queued_list, start_called, tasklet, cb, sequence>>
    BY <1>1 DEF StopReturn, taskletVars
  <2>2. start_called /\ queued_list = <<>> /\ tasklet # "took"
    BY <2>1 DEF CtlInv, CalmInv, RingReset
  <2>3. \A b \in Buffers : vb_state[b] # "queued" /\ (vb_state[b] = "active" <=> Listed(b))
    BY <2>2, EmptyDistinct DEF Owners, In, Listed
  <2>4. QOwner' = [b \in Buffers |-> IF QOwner[b] = "queue" THEN "flushed" ELSE QOwner[b]]
    <3>1. ASSUME NEW b \in Buffers
          PROVE  QOwner'[b] = IF QOwner[b] = "queue" THEN "flushed" ELSE QOwner[b]
      <4>1. vb_state'[b] = IF Listed(b) THEN "error" ELSE vb_state[b]
        BY <2>1, <2>3 DEF Returned
      <4>2. vb_state[b] \in VbStates
        OBVIOUS
      <4>3. QOwner[b] = Owner[vb_state[b]] /\ QOwner'[b] = Owner[vb_state'[b]]
        BY DEF QOwner
      <4> QED
        BY <2>3, <4>1, <4>2, <4>3 DEF Owner, VbStates
    <3> QED
      BY <3>1 DEF QOwner
  <2>5. QFifo' = <<>>
    BY <2>1, <2>2, ConcatEmptySeq, EmptySeq DEF QFifo, Held
  <2> QED
    BY <2>1, <2>2, <2>4, <2>5, QueueActions DEF QRunning
<1>2. ASSUME Cancel PROVE FQ!Release
  <2>1. /\ ioctl = "cancel" /\ ioctl' = "none" /\ vb_state' = [b \in Buffers |-> "user"]
        /\ queued_list' = <<>> /\ start_called' = FALSE
        /\ UNCHANGED <<buf_list, tasklet, cb, sequence>>
    BY <1>2 DEF Cancel, listVars, taskletVars
  <2>2. buf_list = <<>> /\ tasklet # "took"
    BY <2>1 DEF CtlInv, CalmInv, RingReset
  <2>3. QOwner' = [b \in Buffers |-> "app"]
    BY <2>1 DEF QOwner, Owner
  <2>4. QFifo' = <<>>
    BY <2>1, <2>2, ConcatEmptySeq, EmptySeq DEF QFifo, Held
  <2> QED
    BY <2>1, <2>3, <2>4, QueueActions DEF QRunning
<1> QED
  BY <1>1, <1>2

\* The worker holds the buffer it has taken until it has returned it.
LEMMA StepWorker ==
  ASSUME QueueInv
  PROVE  /\ WorkerTake => UNCHANGED FQ!fqVars
         /\ WorkerDone => FQ!Deliver
<1> USE DEF QueueInv, OwnerInv, TypeInv, DataInv, DataOK
<1>1. ASSUME WorkerTake PROVE UNCHANGED FQ!fqVars
  <2>1. /\ tasklet = "body" /\ tasklet' = "took" /\ buf_list # <<>>
        /\ cb' = Head(buf_list) /\ buf_list' = Tail(buf_list)
        /\ UNCHANGED <<vb_state, queued_list, start_called, ioctl, sequence>>
    BY <1>1 DEF WorkerTake, vb2Vars
  <2>2. /\ Held = <<>> /\ Held' = <<Head(buf_list)>>
        /\ buf_list = <<Head(buf_list)>> \o Tail(buf_list)
    BY <2>1, HeadTail DEF Held
  <2>3. Held \o buf_list = Held' \o buf_list'
    BY <2>1, <2>2, ConcatEmptySeq
  <2> QED
    BY <2>1, <2>3, QueueStutter DEF QOwner, QFifo, QRunning
<1>2. ASSUME WorkerDone PROVE FQ!Deliver
  <2>1. /\ tasklet = "took" /\ tasklet' = "advance" /\ sequence' = (sequence + 1) % SeqWrap
        /\ vb_state' = [vb_state EXCEPT ![cb] = IF @ = "active" THEN "done" ELSE @]
        /\ UNCHANGED <<queued_list, buf_list, start_called, ioctl>>
    BY <1>2 DEF WorkerDone, listVars
  <2>2. cb \in Buffers /\ vb_state[cb] = "active" /\ QRunning
    BY <2>1 DEF Owners, CalmInv, RingReset, QRunning
  <2>3. Held = <<cb>> /\ Held' = <<>>
    BY <2>1 DEF Held
  <2>4. QFifo # <<>> /\ Head(QFifo) = cb /\ Tail(QFifo) = buf_list \o queued_list
    BY <2>2, <2>3, HeadOfHeld DEF QFifo
  <2>5. QFifo' = Tail(QFifo)
    BY <2>1, <2>3, <2>4, ConcatEmptySeq DEF QFifo
  <2>6. QOwner' = [QOwner EXCEPT ![Head(QFifo)] = "full"]
    BY <2>1, <2>2, <2>4 DEF QOwner, Owner
  <2> QED
    BY <2>1, <2>2, <2>4, <2>5, <2>6, QueueActions DEF QRunning
<1> QED
  BY <1>1, <1>2

\* The rest is out of the queue's sight.
LEMMA StepOther ==
  ASSUME QueueInv,
         \/ StreamOn \/ StreamOff \/ FillTable \/ StartCapture \/ StartUnmask
         \/ StopMask \/ StopCapture \/ StopIndex
         \/ IrqHandler \/ TaskletStart \/ EngineFrame
         \/ WorkerTest \/ WorkerSkip \/ WorkerEmpty \/ WorkerLoad \/ WorkerStore
         \/ UNCHANGED vars
  PROVE  UNCHANGED FQ!fqVars
<1> USE DEF vb2Vars, listVars, taskletVars, engineVars, msiVars
<1>1. UNCHANGED <<vb_state, queued_list, buf_list, start_called, sequence>>
  BY DEF StreamOn, StreamOff, FillTable, StartCapture, StartUnmask, StopMask,
         StopCapture, StopIndex, IrqHandler, TaskletStart, EngineFrame, WorkerTest,
         WorkerSkip, WorkerEmpty, WorkerLoad, WorkerStore, vars
<1>2. QRunning' = QRunning
  <2>1. ioctl' = "cancel" <=> ioctl = "cancel" \/ (ioctl' = "cancel" /\ ~start_called)
    BY DEF StreamOn, StreamOff, FillTable, StartCapture, StartUnmask, StopMask,
           StopCapture, StopIndex, IrqHandler, TaskletStart, EngineFrame, WorkerTest,
           WorkerSkip, WorkerEmpty, WorkerLoad, WorkerStore, vars
  <2> QED
    BY <1>1, <2>1 DEF QRunning
<1>3. Held' = Held
  <2>1. tasklet = "took" => UNCHANGED <<tasklet, cb>>
    BY DEF StreamOn, StreamOff, FillTable, StartCapture, StartUnmask, StopMask,
           StopCapture, StopIndex, IrqHandler, TaskletStart, EngineFrame, WorkerTest,
           WorkerSkip, WorkerEmpty, WorkerLoad, WorkerStore, vars
  <2>2. tasklet' = "took" => tasklet = "took"
    BY DEF StreamOn, StreamOff, FillTable, StartCapture, StartUnmask, StopMask,
           StopCapture, StopIndex, IrqHandler, TaskletStart, EngineFrame, WorkerTest,
           WorkerSkip, WorkerEmpty, WorkerLoad, WorkerStore, vars
  <2> QED
    BY <2>1, <2>2 DEF Held
<1> QED
  BY <1>1, <1>2, <1>3, QueueStutter DEF QOwner, QFifo

\* Each step of the driver is a step of the abstract queue, or none.
LEMMA QueueStep == QueueInv /\ [Next /\ ~stray']_vars => [FQ!Next]_(FQ!fqVars)
<1> SUFFICES ASSUME QueueInv, [Next /\ ~stray']_vars PROVE FQ!Next \/ UNCHANGED FQ!fqVars
  OBVIOUS
<1>1. ASSUME NEW b \in Buffers, QBufIdle(b) \/ QBufRunning(b) \/ DQBuf(b)
      PROVE  FQ!Next
  BY <1>1, StepApplication DEF FQ!Next
<1>2. StartReset \/ StartFail \/ StopReturn \/ Cancel \/ WorkerDone => FQ!Next
  BY StepStart, StepStop, StepWorker DEF FQ!Next
<1>3. Hand \/ WorkerTake => UNCHANGED FQ!fqVars
  BY StepHand, StepWorker
<1> QED
  BY <1>1, <1>2, <1>3, StepOther DEF Next, User, IoctlStep, Worker

\* As long as the tasklet does not straddle the reset of the ring, the pipeline is
\* a capture queue: buffers come back full in the order they were queued, each once,
\* numbered without a gap, and stop_streaming() gives every other one back.
THEOREM CaptureQueue == QuietSpec => ImplementsFrameQueue
<1>1. Init => QueueInv
  BY OwnerInit DEF Init, QueueInv, Handover
<1> QED
  BY <1>1, QueueInit, QueueInvStep, QueueStep, PTL DEF QuietSpec, ImplementsFrameQueue, FQ!Spec

=============================================================================
