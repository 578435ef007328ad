------------------------- MODULE LifecycleInvariant -------------------------
(***************************************************************************)
(* The inductive invariant of CardLifecycle. A running probe or remove     *)
(* function is described by the steps it has left:                         *)
(*                                                                         *)
(*  - a ladder of labels or a remove function unwinds what is held: each   *)
(*    step gives back something nothing that stays stands on, asks for     *)
(*    nothing that is not there, and no step gives back what another does; *)
(*  - a probe function builds: each step stands on what the steps before   *)
(*    it hold for sure, the ladder it fails into unwinds whatever they may *)
(*    hold, and at the end the remove function unwinds all of it.          *)
(*                                                                         *)
(* The first part of the module says this of sequences of steps; nothing   *)
(* in it depends on the state. LifeInv, at the end, says it of todo.       *)
(***************************************************************************)
EXTENDS CardLifecycle

-----------------------------------------------------------------------------
(* Resources and steps.                                                    *)

\* u stands on d: it uses d, and the code has the two in order.
Uses(u, d) == <<u, d>> \in Needs \ OutOfOrder

\* The parts of the DMA buffers of the capture card.
Buffers == Parts \X {"vip", "aip"} \X (1 .. DmaBuffers)

\* What may be missing although the code goes on as if it were there.
Blinds  == {r \in Resources :
              r[1] \in {"net", "fgpi", "debugfs", "fifowq", "vbuf"}}

\* What saa716x_dvb_exit() releases of an adapter without asking.
Always  == {"fgpi", "net", "femem", "fehw", "dmxdev", "dmx", "adapter"}

\* How a step may end.
Outcomes == {"ok", "fail", "quiet", "skip", "short"}

\* The steps of ladders and remove functions.
Releases ==
  [op : {"drop", "flush", "clear", "dvb_exit", "uncount"}, res : Resources,
   only : SUBSET Resources, may : SUBSET Outcomes, fail : {<<>>}]

\* The steps of probe functions.
Takings ==
  [op : {"take", "check", "irq", "count", "point"}, res : Resources,
   only : SUBSET Resources, may : SUBSET Outcomes, fail : Seq(Releases)]

-----------------------------------------------------------------------------
(* Ladders.                                                                *)

\* What a step gives back, C being the adapters counted.
Gives(step, C) == CASE step.op = "drop"     -> {step.res}
                    [] step.op = "dvb_exit" -> PerAdapter \X C
                    [] OTHER                -> {}

\* What of that must be there, or have been taken for there.
Asks(step, C)  == CASE step.op = "drop"     -> {step.res} \ step.only
                    [] step.op = "dvb_exit" -> Always \X C
                    [] OTHER                -> {}

\* The same of all steps.
Gone(s, C)  == UNION {Gives(s[n], C) : n \in 1 .. Len(s)}
Asked(s, C) == UNION {Asks(s[n], C) : n \in 1 .. Len(s)}

\* The pointers that are set to NULL.
Cleared(s) == {s[n].res : n \in {k \in 1 .. Len(s) : s[k].op = "clear"}}

\* A step asks for nothing, or for what it releases.
WellFormed(step) ==
  \/ step.only = {}
  \/ step.op = "drop" /\ step.only = {step.res}

\* Nothing is given back twice; a user goes before what it stands on; once
\* the loop of saa716x_dvb_exit() has begun there is no other such call.
Orderly(s, C) ==
  \A m, n \in 1 .. Len(s) :
    /\ m # n => Gives(s[m], C) \cap Gives(s[n], C) = {}
    /\ s[m].op = "dvb_exit" => s[n].op # "uncount"
    /\ \A u \in Gives(s[n], C), d \in Gives(s[m], C) : Uses(u, d) => n <= m

\* A ladder that fits where U may be held and X is for sure: nothing that
\* stays stands on what goes.
Unwinds(s, U, X, C) ==
  /\ \A n \in 1 .. Len(s) : WellFormed(s[n])
  /\ Orderly(s, C)
  /\ Asked(s, C) \subseteq X
  /\ \A u \in U, d \in Gone(s, C) : Uses(u, d) => u \in Gone(s, C)

\* A ladder as it is written in the code: adapters are counted off in the
\* loop of saa716x_dvb_exit() only, which is not yet entered.
NoUncount(s) == \A n \in 1 .. Len(s) : s[n].op # "uncount"

\* The work queue goes before the device structure.
QueueFirst(s, C) ==
  \A n \in 1 .. Len(s) : R("dev") \in Gives(s[n], C) =>
     \E m \in 1 .. n - 1 : R("wq") \in Gives(s[m], C)

-----------------------------------------------------------------------------
(* Probe functions.                                                        *)

\* What a step may take.
Takes(step) == CASE step.op = "take" -> {step.res}
                 [] step.op = "irq"  -> {R("irq"), R("msi")}
                 [] OTHER            -> {}

\* What a step takes unless it ends in one of the ways "not".
Certain(step, not) ==
  IF step.op \in {"take", "irq"} /\ step.only = {} /\ step.may \cap not = {}
  THEN {step.res} ELSE {}

\* What it takes for sure, or takes for taken; what it holds for sure; and
\* the adapter it counts.
Sures(step)  == Certain(step, {"skip"})
Firms(step)  == Certain(step, {"skip", "short"})
Counts(step) == IF step.op = "count" THEN {step.res[2]} ELSE {}

\* How far a probe function has come: what may be held, what is sure, what is
\* held for sure, and the adapters counted.
Stage(M, X, F, C) == [may |-> M, sure |-> X, firm |-> F, count |-> C]

\* The stage after a step.
After(a, step) == Stage(a.may \cup Takes(step), a.sure \cup Sures(step),
                        a.firm \cup Firms(step), a.count \cup Counts(step))

\* The stage before step n of a sequence that begins at stage a.
At(s, a, n) ==
  Stage(a.may   \cup UNION {Takes(s[m]) : m \in 1 .. n - 1},
        a.sure  \cup UNION {Sures(s[m]) : m \in 1 .. n - 1},
        a.firm  \cup UNION {Firms(s[m]) : m \in 1 .. n - 1},
        a.count \cup UNION {Counts(s[m]) : m \in 1 .. n - 1})

\* The ladder a step fails into gives back all but what the labels forget.
LadderFits(s, a) ==
  /\ NoUncount(s)
  /\ Unwinds(s, a.may, a.sure, a.count)
  /\ Forgotten(a.may \ Gone(s, a.count))

\* A step that fits at stage a: what it takes stands on what is held, its
\* ladder fits, only the blind failures are passed over, DMA buffers are never
\* optional, the interrupt comes after the work queue, the adapters are
\* counted in order, and a pointer is set to what is held and will be cleared.
StepFits(crd, step, a) ==
  /\ step \in Takings
  /\ \A u \in Takes(step), d \in Resources : Uses(u, d) => d \in a.firm \cup step.only
  /\ step.may \cap {"fail", "quiet"} # {} => LadderFits(step.fail, a)
  /\ "short" \in step.may => step.res \in Blinds
  /\ step.only \cap Blinds = {}
  /\ step.res \in Buffers => step.may \cap {"skip", "short"} = {} /\ step.only = {}
  /\ crd = "cap" => "quiet" \notin step.may
  /\ step.op = "take" => step.res # R("irq")
  /\ step.op # "take" => step.only = {} /\ step.may \cap {"skip", "short"} = {}
  /\ step.op = "irq" => /\ step.res = R("irq") /\ "fail" \in step.may
                        /\ "quiet" \notin step.may
                        /\ crd = "cap" => R("wq") \in a.firm
  /\ step.op = "count" => step.res[2] \in 0 .. Adapters - 1 /\ a.count = 0 .. step.res[2] - 1
  /\ step.op = "point" => step.res \in a.firm \cap {R("sti"), R("ir")} \cap Cleared(RemoveSteps[crd])

\* The remove function unwinds stage a, and leaves nothing.
Ends(crd, a) ==
  LET s == RemoveSteps[crd] IN
  /\ s \in Seq(Releases)
  /\ NoUncount(s)
  /\ Unwinds(s, a.may, a.sure, a.count)
  /\ a.may \subseteq Gone(s, a.count)
  /\ crd = "cap" => QueueFirst(s, a.count)

\* Every step fits at its stage; and the remove function fits at the end.
Fits(crd, s, a) == \A n \in 1 .. Len(s) : StepFits(crd, s[n], At(s, a, n))
Builds(crd, s, a) == Fits(crd, s, a) /\ Ends(crd, At(s, a, Len(s) + 1))

-----------------------------------------------------------------------------
(* The invariant.                                                          *)

\* The adapters counted, and the stage of the running function.
Counted == 0 .. num_adapters - 1
Now     == Stage(held, held \cup short, held, Counted)

\* In the loop of saa716x_dvb_exit() the adapters left are counted off one by
\* one, and num_adapters ends at 0.
UncountInv ==
  LET us == {n \in 1 .. Len(todo) : todo[n].op = "uncount"} IN
  us # {} =>
   \E c \in 0 .. Adapters :
    /\ {todo[n].res[2] : n \in us} = (c - num_adapters) .. (c - 1)
    /\ \A m, n \in us : m < n => todo[m].res[2] < todo[n].res[2]

\* A probe function builds on what is held, to its end; its pointers and its
\* handler know of nothing else.
Building == phase \in {"probing", "bound"} =>
  /\ phase = "bound" => todo = <<>>
  /\ todo \in Seq(Takings)
  /\ Builds(card, todo, Now)
  /\ ptr \subseteq held \cap Cleared(RemoveSteps[card])
  /\ handler \subseteq held
  /\ card = "cap" /\ R("irq") \in held => R("wq") \in held

\* A ladder unwinds what is held, but for what the labels forget; a remove
\* function unwinds all, and drains the work queue first.
Releasing == phase \in {"failing", "removing"} =>
  /\ todo \in Seq(Releases)
  /\ Unwinds(todo, held, held \cup short, Counted)
  /\ UncountInv
  /\ phase = "failing" => Forgotten(held \ Gone(todo, Counted))
  /\ phase = "removing" =>
       /\ held \subseteq Gone(todo, Counted) /\ ptr \subseteq Cleared(todo)
       /\ card = "cap" => R("wq") \notin held \/ QueueFirst(todo, Counted)

\* A handler runs only while the interrupt is registered, which stands on the
\* device structure and on the registers.
HandlerInv ==
  /\ handler # {} => R("irq") \in held
  /\ handler \subseteq {R("dev"), R("mmio"), R("sti"), R("ir"), R("wq")}
  /\ R("wq") \in handler => card = "cap"

\* The receiver's work is the capture card's, whose probe function reports
\* every failure.
WorkInv ==
  /\ work # "none" => card = "cap"
  /\ ReceiverWork
  /\ card = "cap" /\ phase = "failing" => err
  /\ phase = "husk" => card # "cap"

\* Between the functions there is nothing to do.
AtRest == phase \in {"absent", "failed", "husk"} => todo = <<>>

LifeInv ==
  /\ TypeOK /\ short \subseteq Blinds /\ Building /\ Releasing /\ HandlerInv
  /\ WorkInv /\ AtRest /\ UsersGoFirst /\ ReturnsAll
=============================================================================
