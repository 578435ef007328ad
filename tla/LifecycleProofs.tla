-------------------------- MODULE LifecycleProofs ---------------------------
(***************************************************************************)
(* Theorems about probe and remove of the four drivers, for every number   *)
(* of DVB adapters and of DMA buffers. The invariant is LifeInv: what the  *)
(* running function has left to do fits what is held. ProbeFits says that  *)
(* it does when a probe function begins; the lemmas here say that each     *)
(* step leaves it so.                                                      *)
(***************************************************************************)
EXTENDS LifecycleLadders

-----------------------------------------------------------------------------
(* Who stands on whom.                                                     *)

\* The interrupt stands on the device structure and on the registers.
LEMMA HandlerUses == Uses(R("irq"), R("mmio")) /\ Uses(R("irq"), R("dev"))
<1>1. <<R("irq"), R("mmio")>> \in Needs /\ <<R("irq"), R("dev")>> \in Needs
  BY DEF Needs, CardNeeds
<1>2. R("irq")[1] = "irq" /\ R("mmio")[1] = "mmio" /\ R("dev")[1] = "dev"
  BY DEF R
<1>3. <<"irq", "mmio">> \notin Misordered /\ <<"irq", "dev">> \notin Misordered
  BY DEF Misordered
<1> QED BY <1>1, <1>2, <1>3 DEF Uses, OutOfOrder

-----------------------------------------------------------------------------
(* One step of a sequence of steps.                                        *)

\* The sequence after its first step.
LEMMA AfterHead ==
  ASSUME NEW S, NEW s \in Seq(S), s # <<>>
  PROVE  /\ Head(s) = s[1] /\ Head(s) \in S /\ Tail(s) \in Seq(S)
         /\ Len(s) \in Nat \ {0} /\ Len(Tail(s)) = Len(s) - 1
         /\ \A n \in 1 .. Len(Tail(s)) : n + 1 \in 1 .. Len(s) /\ Tail(s)[n] = s[n + 1]
         /\ \A n \in 2 .. Len(s) : n - 1 \in 1 .. Len(Tail(s)) /\ s[n] = Tail(s)[n - 1]
BY HeadTailProperties, EmptySeq, LenProperties

\* What is asked for is given back too.
LEMMA AsksGives ==
  ASSUME NEW step, NEW C
  PROVE  Asks(step, C) \subseteq Gives(step, C)
BY DEF Asks, Gives, Always, PerAdapter

\* What the rest of a ladder gives back.
LEMMA GoneTail ==
  ASSUME NEW s \in Seq(Releases), s # <<>>, NEW C, Orderly(s, C)
  PROVE  /\ Gone(s, C) = Gives(Head(s), C) \cup Gone(Tail(s), C)
         /\ Gives(Head(s), C) \cap Gone(Tail(s), C) = {}
         /\ Asked(s, C) = Asks(Head(s), C) \cup Asked(Tail(s), C)
<1> DEFINE t == Tail(s)
<1>1. /\ Head(s) = s[1] /\ Len(s) \in Nat \ {0} /\ Len(t) = Len(s) - 1
      /\ \A n \in 1 .. Len(t) : n + 1 \in 1 .. Len(s) /\ t[n] = s[n + 1]
      /\ \A n \in 2 .. Len(s) : n - 1 \in 1 .. Len(t) /\ s[n] = t[n - 1]
  BY AfterHead
<1>2. 1 \in 1 .. Len(s) /\ \A n \in 1 .. Len(s) : n = 1 \/ n \in 2 .. Len(s)
  BY <1>1
<1> HIDE DEF t
<1>3. Gone(s, C) = Gives(Head(s), C) \cup Gone(t, C)
  BY <1>1, <1>2 DEF Gone
<1>4. Asked(s, C) = Asks(Head(s), C) \cup Asked(t, C)
  BY <1>1, <1>2 DEF Asked
<1>5. Gives(Head(s), C) \cap Gone(t, C) = {}
  <2> SUFFICES ASSUME NEW n \in 1 .. Len(t)
               PROVE  Gives(s[1], C) \cap Gives(t[n], C) = {}
    BY <1>1 DEF Gone
  <2>1. n + 1 \in 1 .. Len(s) /\ t[n] = s[n + 1] /\ n + 1 # 1
    BY <1>1
  <2> QED BY <2>1, <1>2 DEF Orderly
<1> QED BY <1>3, <1>4, <1>5 DEF t

\* One rung of a ladder: nothing that stays stands on what it gives back, and
\* the rest of the ladder is orderly as well.
LEMMA UnwindsTail ==
  ASSUME NEW s \in Seq(Releases), s # <<>>, NEW U, NEW X, NEW C,
         Unwinds(s, U, X, C)
  PROVE  LET g == Gives(Head(s), C) IN
         /\ Unwinds(Tail(s), U \ g, X \ g, C)
         /\ WellFormed(Head(s)) /\ Asks(Head(s), C) \subseteq X
         /\ \A u \in U, d \in g : Uses(u, d) => u \in g
         /\ Gone(s, C) = g \cup Gone(Tail(s), C)
         /\ g \cap Gone(Tail(s), C) = {}
<1> DEFINE t == Tail(s)
           g == Gives(Head(s), C)
<1>1. /\ Head(s) = s[1] /\ Len(s) \in Nat \ {0} /\ Len(t) = Len(s) - 1
      /\ \A n \in 1 .. Len(t) : n + 1 \in 1 .. Len(s) /\ t[n] = s[n + 1]
  BY AfterHead
<1>2. Orderly(s, C)
  BY DEF Unwinds
<1>3. /\ Gone(s, C) = g \cup Gone(t, C) /\ g \cap Gone(t, C) = {}
      /\ Asked(s, C) = Asks(Head(s), C) \cup Asked(t, C)
  BY <1>2, GoneTail
<1>4. Orderly(t, C)
  <2> SUFFICES ASSUME NEW m \in 1 .. Len(t), NEW n \in 1 .. Len(t)
               PROVE  /\ m # n => Gives(t[m], C) \cap Gives(t[n], C) = {}
                      /\ t[m].op = "dvb_exit" => t[n].op # "uncount"
                      /\ \A u \in Gives(t[n], C), d \in Gives(t[m], C) : Uses(u, d) => n <= m
    BY DEF Orderly
  <2>1. /\ m + 1 \in 1 .. Len(s) /\ n + 1 \in 1 .. Len(s)
        /\ t[m] = s[m + 1] /\ t[n] = s[n + 1]
        /\ (m # n => m + 1 # n + 1) /\ (n + 1 <= m + 1 => n <= m)
    BY <1>1
  <2> HIDE DEF t
  <2>2. /\ m + 1 # n + 1 => Gives(s[m + 1], C) \cap Gives(s[n + 1], C) = {}
        /\ s[m + 1].op = "dvb_exit" => s[n + 1].op # "uncount"
        /\ \A u \in Gives(s[n + 1], C), d \in Gives(s[m + 1], C) :
             Uses(u, d) => n + 1 <= m + 1
    BY <1>2, <2>1 DEF Orderly
  <2> QED BY <2>1, <2>2
<1>5. \A u \in U, d \in g : Uses(u, d) => u \in g
  <2> SUFFICES ASSUME NEW u \in U, NEW d \in g, Uses(u, d), u \notin g PROVE FALSE
    OBVIOUS
  <2>1. u \in Gone(s, C)
    BY <1>3 DEF Unwinds
  <2>2. PICK n \in 1 .. Len(s) : u \in Gives(s[n], C)
    BY <2>1 DEF Gone
  <2>3. n <= 1
    BY <1>1, <1>2, <2>2 DEF Orderly
  <2> QED BY <1>1, <2>2, <2>3
<1>6. \A u \in U \ g, d \in Gone(t, C) : Uses(u, d) => u \in Gone(t, C)
  BY <1>3 DEF Unwinds
<1>7. Asked(t, C) \subseteq X \ g
  <2>1. Asked(t, C) \subseteq Gone(t, C)
    BY AsksGives DEF Asked, Gone
  <2> QED BY <2>1, <1>3 DEF Unwinds
<1>8. /\ \A n \in 1 .. Len(t) : WellFormed(t[n])
      /\ WellFormed(Head(s)) /\ Asks(Head(s), C) \subseteq X
  BY <1>1, <1>3 DEF Unwinds
<1> QED BY <1>3, <1>4, <1>5, <1>6, <1>7, <1>8 DEF Unwinds

\* Without a call of saa716x_dvb_exit() a ladder does not depend on the adapters
\* counted.
LEMMA UnwindsAnyCount ==
  ASSUME NEW s, NEW U, NEW X, NEW C, NEW D,
         \A n \in 1 .. Len(s) : s[n].op # "dvb_exit"
  PROVE  /\ Unwinds(s, U, X, C) => Unwinds(s, U, X, D)
         /\ Gone(s, C) = Gone(s, D)
<1>1. \A n \in 1 .. Len(s) : /\ Gives(s[n], C) = Gives(s[n], D)
                             /\ Asks(s[n], C) = Asks(s[n], D)
  BY DEF Gives, Asks
<1>2. Gone(s, C) = Gone(s, D) /\ Asked(s, C) = Asked(s, D)
  BY <1>1 DEF Gone, Asked
<1>3. Orderly(s, C) => Orderly(s, D)
  BY <1>1 DEF Orderly
<1> QED BY <1>2, <1>3 DEF Unwinds

\* What the rest of a ladder clears.
LEMMA ClearedTail ==
  ASSUME NEW S, NEW s \in Seq(S), s # <<>>
  PROVE  Cleared(s) = (IF Head(s).op = "clear" THEN {Head(s).res} ELSE {})
                      \cup Cleared(Tail(s))
<1> DEFINE t == Tail(s)
<1>1. /\ Head(s) = s[1] /\ Len(s) \in Nat \ {0} /\ Len(t) = Len(s) - 1
      /\ \A n \in 1 .. Len(t) : n + 1 \in 1 .. Len(s) /\ t[n] = s[n + 1]
      /\ \A n \in 2 .. Len(s) : n - 1 \in 1 .. Len(t) /\ s[n] = t[n - 1]
  BY AfterHead
<1>2. 1 \in 1 .. Len(s) /\ \A n \in 1 .. Len(s) : n = 1 \/ n \in 2 .. Len(s)
  BY <1>1
<1> HIDE DEF t
<1>3. \A r : r \in Cleared(s) <=> \E n \in 1 .. Len(s) : s[n].op = "clear" /\ r = s[n].res
  BY DEF Cleared
<1>4. \A r : r \in Cleared(t) <=> \E n \in 1 .. Len(t) : t[n].op = "clear" /\ r = t[n].res
  BY DEF Cleared
<1>5. \A r : r \in Cleared(s) <=> \/ s[1].op = "clear" /\ r = s[1].res
                                  \/ r \in Cleared(t)
  BY <1>1, <1>2, <1>3, <1>4
<1> QED BY <1>1, <1>5 DEF t

\* The work queue still goes first in the rest of a ladder, unless it is gone.
LEMMA QueueFirstTail ==
  ASSUME NEW s \in Seq(Releases), s # <<>>, NEW C, QueueFirst(s, C)
  PROVE  /\ R("dev") \notin Gives(Head(s), C)
         /\ R("wq") \notin Gives(Head(s), C) => QueueFirst(Tail(s), C)
<1> DEFINE t == Tail(s)
<1>1. /\ Head(s) = s[1] /\ Len(s) \in Nat \ {0} /\ Len(t) = Len(s) - 1
      /\ \A n \in 1 .. Len(t) : n + 1 \in 1 .. Len(s) /\ t[n] = s[n + 1]
      /\ \A n \in 2 .. Len(s) : n - 1 \in 1 .. Len(t) /\ s[n] = t[n - 1]
  BY AfterHead
<1>2. R("dev") \notin Gives(Head(s), C)
  BY <1>1 DEF QueueFirst
<1>3. ASSUME R("wq") \notin Gives(Head(s), C), NEW n \in 1 .. Len(t),
             R("dev") \in Gives(t[n], C)
      PROVE  \E m \in 1 .. n - 1 : R("wq") \in Gives(t[m], C)
  <2>1. n + 1 \in 1 .. Len(s) /\ R("dev") \in Gives(s[n + 1], C)
    BY <1>1, <1>3
  <2>2. PICK m \in 1 .. (n + 1) - 1 : R("wq") \in Gives(s[m], C)
    BY <2>1 DEF QueueFirst
  <2>3. m # 1
    BY <2>2, <1>3, <1>1
  <2>4. m - 1 \in 1 .. n - 1 /\ m \in 2 .. Len(s)
    BY <2>3, <2>1, <1>1
  <2>5. s[m] = t[m - 1]
    BY <2>4, <1>1
  <2> HIDE DEF t
  <2> QED BY <2>2, <2>4, <2>5
<1> QED BY <1>2, <1>3 DEF QueueFirst

\* Without a call of saa716x_dvb_exit() the adapters counted do not matter to
\* the order of the work queue and the structure.
LEMMA QueueFirstAnyCount ==
  ASSUME NEW s, NEW C, NEW D,
         \A n \in 1 .. Len(s) : s[n].op # "dvb_exit"
  PROVE  QueueFirst(s, C) => QueueFirst(s, D)
<1>1. ASSUME QueueFirst(s, C), NEW n \in 1 .. Len(s), R("dev") \in Gives(s[n], D)
      PROVE  \E m \in 1 .. n - 1 : R("wq") \in Gives(s[m], D)
  <2>1. R("dev") \in Gives(s[n], C)
    BY <1>1 DEF Gives
  <2>2. PICK m \in 1 .. n - 1 : R("wq") \in Gives(s[m], C)
    BY <2>1, <1>1 DEF QueueFirst
  <2>3. s[m].op # "dvb_exit"
    BY <2>2
  <2> QED BY <2>2, <2>3 DEF Gives
<1> QED BY <1>1 DEF QueueFirst

\* Where the rest of a probe function stands.
LEMMA AtTail ==
  ASSUME NEW S, NEW s \in Seq(S), s # <<>>, NEW a, NEW n \in 1 .. Len(s)
  PROVE  At(s, a, n + 1) = At(Tail(s), After(a, Head(s)), n)
<1> DEFINE t == Tail(s)
<1>1. /\ Head(s) = s[1] /\ Len(s) \in Nat \ {0} /\ Len(t) = Len(s) - 1
      /\ \A k \in 1 .. Len(t) : k + 1 \in 1 .. Len(s) /\ t[k] = s[k + 1]
      /\ \A k \in 2 .. Len(s) : k - 1 \in 1 .. Len(t) /\ s[k] = t[k - 1]
  BY AfterHead
<1>2. /\ 1 \in 1 .. (n + 1) - 1
      /\ \A k \in 1 .. (n + 1) - 1 : k = 1 \/ (k - 1 \in 1 .. n - 1 /\ s[k] = t[k - 1])
      /\ \A k \in 1 .. n - 1 : k + 1 \in 1 .. (n + 1) - 1 /\ t[k] = s[k + 1]
  <2> HIDE DEF t
  <2>1. n \in 1 .. Len(s) /\ n \in Nat \ {0} /\ Len(s) \in Nat /\ (n + 1) - 1 = n
    BY <1>1
  <2>2. \A k \in 1 .. n - 1 : k + 1 \in 1 .. n /\ k \in 1 .. Len(s) - 1
    BY <2>1
  <2>3. \A k \in 1 .. n : k = 1 \/ (k - 1 \in 1 .. n - 1 /\ k \in 2 .. Len(s))
    BY <2>1
  <2> QED BY <2>1, <2>2, <2>3, <1>1
<1> HIDE DEF t
<1>3. UNION {Takes(s[m]) : m \in 1 .. (n + 1) - 1}
        = Takes(Head(s)) \cup UNION {Takes(t[m]) : m \in 1 .. n - 1}
  BY <1>1, <1>2
<1>4. UNION {Sures(s[m]) : m \in 1 .. (n + 1) - 1}
        = Sures(Head(s)) \cup UNION {Sures(t[m]) : m \in 1 .. n - 1}
  BY <1>1, <1>2
<1>5. UNION {Firms(s[m]) : m \in 1 .. (n + 1) - 1}
        = Firms(Head(s)) \cup UNION {Firms(t[m]) : m \in 1 .. n - 1}
  BY <1>1, <1>2
<1>6. UNION {Counts(s[m]) : m \in 1 .. (n + 1) - 1}
        = Counts(Head(s)) \cup UNION {Counts(t[m]) : m \in 1 .. n - 1}
  BY <1>1, <1>2
<1> DEFINE mt == UNION {Takes(t[m]) : m \in 1 .. n - 1}
           st == UNION {Sures(t[m]) : m \in 1 .. n - 1}
           ft == UNION {Firms(t[m]) : m \in 1 .. n - 1}
           ct == UNION {Counts(t[m]) : m \in 1 .. n - 1}
           h == Head(s)
<1>7. At(s, a, n + 1) = Stage(a.may \cup (Takes(h) \cup mt), a.sure \cup (Sures(h) \cup st),
                              a.firm \cup (Firms(h) \cup ft), a.count \cup (Counts(h) \cup ct))
  BY <1>3, <1>4, <1>5, <1>6 DEF At
<1>8. At(t, After(a, h), n)
        = Stage((a.may \cup Takes(h)) \cup mt, (a.sure \cup Sures(h)) \cup st,
                (a.firm \cup Firms(h)) \cup ft, (a.count \cup Counts(h)) \cup ct)
  BY DEF At, After, Stage
<1> HIDE DEF mt, st, ft, ct, h
<1>9. /\ a.may \cup (Takes(h) \cup mt) = (a.may \cup Takes(h)) \cup mt
      /\ a.sure \cup (Sures(h) \cup st) = (a.sure \cup Sures(h)) \cup st
      /\ a.firm \cup (Firms(h) \cup ft) = (a.firm \cup Firms(h)) \cup ft
      /\ a.count \cup (Counts(h) \cup ct) = (a.count \cup Counts(h)) \cup ct
  OBVIOUS
<1>10. At(s, a, n + 1) = At(t, After(a, h), n)
  BY <1>7, <1>8, <1>9
<1> QED BY <1>10 DEF h, t

\* The next step of a probe function fits, and so do those after it.
LEMMA BuildsStep ==
  ASSUME NEW crd, NEW s \in Seq(Takings), s # <<>>,
         NEW M, NEW X, NEW F, NEW C, Builds(crd, s, Stage(M, X, F, C))
  PROVE  /\ StepFits(crd, Head(s), Stage(M, X, F, C))
         /\ Builds(crd, Tail(s), After(Stage(M, X, F, C), Head(s)))
<1> DEFINE t == Tail(s)
           a == Stage(M, X, F, C)
           b == After(a, Head(s))
<1>1. /\ Head(s) = s[1] /\ Len(s) \in Nat \ {0} /\ Len(t) = Len(s) - 1
      /\ \A k \in 1 .. Len(t) : k + 1 \in 1 .. Len(s) /\ t[k] = s[k + 1]
  BY AfterHead
<1>2. StepFits(crd, Head(s), a)
  BY <1>1, AtFirst DEF Builds, Fits
<1>3. \A n \in 1 .. Len(s) : At(s, a, n + 1) = At(t, b, n)
  BY AtTail
<1> HIDE DEF t, a, b
<1>4. Fits(crd, t, b)
  <2> SUFFICES ASSUME NEW n \in 1 .. Len(t) PROVE StepFits(crd, t[n], At(t, b, n))
    BY DEF Fits
  <2>1. n + 1 \in 1 .. Len(s) /\ n \in 1 .. Len(s) /\ t[n] = s[n + 1]
    BY <1>1
  <2>2. StepFits(crd, s[n + 1], At(s, a, n + 1))
    BY <2>1 DEF Builds, Fits, a
  <2> QED BY <2>1, <2>2, <1>3
<1>5. Ends(crd, At(t, b, Len(t) + 1))
  <2>1. Len(s) \in 1 .. Len(s) /\ Len(t) + 1 = Len(s)
    BY <1>1
  <2>2. Ends(crd, At(s, a, Len(s) + 1))
    BY DEF Builds, a
  <2> QED BY <2>1, <2>2, <1>3
<1> QED BY <1>2, <1>4, <1>5 DEF Builds, t, a, b

\* Leaving out anything but parts of buffers leaves no more behind.
LEMMA ForgottenLess ==
  ASSUME NEW S, NEW T, T \subseteq S, S \cap Buffers \subseteq T, Forgotten(S)
  PROVE  Forgotten(T)
<1>1. PICK unit \in {"vip", "aip"} : \A n \in 1 .. DmaBuffers :
       LET left(u) == {p \in Parts : <<p, u, n>> \in S} IN
       /\ \A u \in {"vip", "aip"} \ {unit} : left(u) = {}
       /\ left(unit) \in {{}, {"page"}, {"list"},
                         IF unit = "vip" THEN {"page", "ptab"} ELSE Parts}
  BY DEF Forgotten
<1>2. \A n \in 1 .. DmaBuffers, u \in {"vip", "aip"} :
        {p \in Parts : <<p, u, n>> \in S} = {p \in Parts : <<p, u, n>> \in T}
  BY DEF Buffers
<1>3. \A n \in 1 .. DmaBuffers :
       LET left(u) == {p \in Parts : <<p, u, n>> \in T} IN
       /\ \A u \in {"vip", "aip"} \ {unit} : left(u) = {}
       /\ left(unit) \in {{}, {"page"}, {"list"},
                         IF unit = "vip" THEN {"page", "ptab"} ELSE Parts}
  BY <1>1, <1>2
<1>4. \A r \in T : r[1] \in {"wq", "net", "client", "msix"} \cup Parts
  BY DEF Forgotten
<1> QED BY <1>3, <1>4 DEF Forgotten

\* A stage with less to give back and more to rely on.
Easier(b, a) ==
  /\ b.may \subseteq a.may /\ a.may \cap Buffers \subseteq b.may
  /\ a.sure \subseteq b.sure /\ a.firm \subseteq b.firm /\ b.count = a.count

\* A ladder that fits fits where less may be held and more is sure.
LEMMA UnwindsEasier ==
  ASSUME NEW s, NEW U, NEW V \in SUBSET U, NEW X, NEW Y, X \subseteq Y, NEW C,
         Unwinds(s, U, X, C)
  PROVE  Unwinds(s, V, Y, C)
BY DEF Unwinds

\* So does a step of a probe function.
LEMMA StepFitsEasier ==
  ASSUME NEW crd, NEW step, NEW a, NEW b, Easier(b, a), StepFits(crd, step, a)
  PROVE  StepFits(crd, step, b)
<1>1. ASSUME step.may \cap {"fail", "quiet"} # {}
      PROVE  LadderFits(step.fail, b)
  <2>1. LadderFits(step.fail, a)
    BY <1>1 DEF StepFits
  <2>2. Unwinds(step.fail, b.may, b.sure, b.count)
    BY <2>1, UnwindsEasier DEF LadderFits, Easier
  <2>3. Forgotten(b.may \ Gone(step.fail, b.count))
    BY <2>1, ForgottenLess DEF LadderFits, Easier
  <2> QED BY <2>1, <2>2, <2>3 DEF LadderFits
<1>2. \A u \in Takes(step), d \in Resources : Uses(u, d) => d \in b.firm \cup step.only
  BY DEF StepFits, Easier
<1>3. /\ step.op = "irq" => /\ step.res = R("irq") /\ "fail" \in step.may
                            /\ "quiet" \notin step.may
                            /\ crd = "cap" => R("wq") \in b.firm
      /\ step.op = "count" => step.res[2] \in 0 .. Adapters - 1 /\ b.count = 0 .. step.res[2] - 1
      /\ step.op = "point" => step.res \in b.firm \cap {R("sti"), R("ir")} \cap Cleared(RemoveSteps[crd])
  BY DEF StepFits, Easier
<1> QED BY <1>1, <1>2, <1>3 DEF StepFits

\* So does a probe function: what a failure passed over left out does not
\* matter to the steps after it.
LEMMA BuildsEasier ==
  ASSUME NEW crd, NEW s, NEW a, NEW b, Easier(b, a), Builds(crd, s, a)
  PROVE  Builds(crd, s, b)
<1>1. \A n : Easier(At(s, b, n), At(s, a, n))
  BY DEF Easier, At, Stage
<1>2. Fits(crd, s, b)
  BY <1>1, StepFitsEasier DEF Builds, Fits
<1>3. Ends(crd, At(s, b, Len(s) + 1))
  <2> DEFINE c == At(s, a, Len(s) + 1)
             d == At(s, b, Len(s) + 1)
             r == RemoveSteps[crd]
  <2>1. Easier(d, c) /\ Ends(crd, c)
    BY <1>1 DEF Builds
  <2> HIDE DEF c, d
  <2>2. Unwinds(r, d.may, d.sure, d.count)
    BY <2>1, UnwindsEasier DEF Ends, Easier
  <2> QED BY <2>1, <2>2 DEF Ends, Easier, d
<1> QED BY <1>2, <1>3 DEF Builds

-----------------------------------------------------------------------------
(* The loop of saa716x_dvb_exit().                                         *)

\* Counting off an adapter gives nothing back.
LEMMA UncountStep ==
  ASSUME NEW i \in 0 .. Adapters - 1
  PROVE  LET s == Plain("uncount", <<"adapter", i>>) IN
         /\ s \in Releases /\ WellFormed(s) /\ s.op = "uncount" /\ s.res = <<"adapter", i>>
         /\ \A C : Gives(s, C) = {} /\ Asks(s, C) = {}
<1>1. <<"adapter", i>> \in Resources
  BY AdapterResources DEF PerAdapter
<1> QED BY <1>1 DEF Plain, Step, Releases, WellFormed, Gives, Asks, Outcomes

\* The steps of a round, one by one.
LEMMA AdapterExitSteps ==
  ASSUME NEW i \in 0 .. Adapters - 1
  PROVE  LET s == AdapterExit(i) IN
         /\ s \in Seq(Releases) /\ Len(s) = 11
         /\ \A j \in 1 .. 10 : s[j].op = "drop"
         /\ s[11].op = "uncount" /\ s[11].res = <<"adapter", i>>
<1>1. \A x \in PerAdapter : <<x, i>> \in Resources
  BY AdapterResources
<1>2. \A x \in PerAdapter : /\ Drop(<<x, i>>) \in Releases /\ Drop(<<x, i>>).op = "drop"
                            /\ DropIf(<<x, i>>) \in Releases /\ DropIf(<<x, i>>).op = "drop"
  BY <1>1, DropStep
<1>3. Plain("uncount", <<"adapter", i>>) \in Releases
  BY UncountStep
<1>4. /\ Plain("uncount", <<"adapter", i>>).op = "uncount"
      /\ Plain("uncount", <<"adapter", i>>).res = <<"adapter", i>>
  BY UncountStep
<1>5. AdapterExit(i) \in Seq(Releases) /\ Len(AdapterExit(i)) = 11
  BY <1>2, <1>3 DEF AdapterExit, PerAdapter
<1>6. \A j \in 1 .. 10 : AdapterExit(i)[j].op = "drop"
  BY <1>2 DEF AdapterExit, PerAdapter
<1>7. AdapterExit(i)[11] = Plain("uncount", <<"adapter", i>>)
  BY DEF AdapterExit
<1> QED BY <1>4, <1>5, <1>6, <1>7

\* A round of the loop of saa716x_dvb_exit() is a ladder that gives back all
\* of its adapter, users first.
LEMMA AdapterExitRungs ==
  ASSUME NEW i \in 0 .. Adapters - 1, NEW C
  PROVE  Rungs(AdapterExit(i), C, PerAdapter \X {i}, Always \X {i})
<1> DEFINE r(x) == <<x, i>>
           u == Plain("uncount", <<"adapter", i>>)
           x1 == Drop(r("adapter"))
           x2 == Drop(r("dmx"))
           x3 == Drop(r("dmxdev"))
           x4 == Drop(r("fehw"))
           x5 == Drop(r("femem"))
           x6 == Drop(r("net"))
           x7 == DropIf(r("fe"))
           x8 == DropIf(r("frontend"))
           x9 == DropIf(r("client"))
           x10 == Drop(r("fgpi"))
           k0 == <<u>>
           k1 == <<x1, u>>
           k2 == <<x2, x1, u>>
           k3 == <<x3, x2, x1, u>>
           k4 == <<x4, x3, x2, x1, u>>
           k5 == <<x5, x4, x3, x2, x1, u>>
           k6 == <<x6, x5, x4, x3, x2, x1, u>>
           k7 == <<x7, x6, x5, x4, x3, x2, x1, u>>
           k8 == <<x8, x7, x6, x5, x4, x3, x2, x1, u>>
           k9 == <<x9, x8, x7, x6, x5, x4, x3, x2, x1, u>>
           k10 == <<x10, x9, x8, x7, x6, x5, x4, x3, x2, x1, u>>
<1>1. \A x \in PerAdapter : r(x) \in Resources
  BY AdapterResources
<1>2. x1 \in Releases /\ x2 \in Releases /\ x3 \in Releases /\ x4 \in Releases /\ x5 \in Releases
        /\ x6 \in Releases /\ x7 \in Releases /\ x8 \in Releases /\ x9 \in Releases
        /\ x10 \in Releases
  BY <1>1, DropStep DEF PerAdapter
<1>3. u \in Releases
  BY UncountStep
<1>4. AdapterExit(i) = k10
  BY DEF AdapterExit
<1> HIDE DEF r, u, x1, x2, x3, x4, x5, x6, x7, x8, x9, x10
<1>a1. k1 = <<x1>> \o k0
  BY <1>2, <1>3, Pair
<1>a2. k2 = <<x2>> \o k1
  BY <1>2, <1>3
<1>a3. k3 = <<x3>> \o k2
  BY <1>2, <1>3
<1>a4. k4 = <<x4>> \o k3
  BY <1>2, <1>3
<1>a5. k5 = <<x5>> \o k4
  BY <1>2, <1>3
<1>a6. k6 = <<x6>> \o k5
  BY <1>2, <1>3
<1>a7. k7 = <<x7>> \o k6
  BY <1>2, <1>3
<1>a8. k8 = <<x8>> \o k7
  BY <1>2, <1>3
<1>a9. k9 = <<x9>> \o k8
  BY <1>2, <1>3
<1>a10. k10 = <<x10>> \o k9
  BY <1>2, <1>3
<1> HIDE DEF k0, k1, k2, k3, k4, k5, k6, k7, k8, k9, k10
<1>5. Rungs(k0, C, {}, {})
  <2>1. WellFormed(u) /\ Gives(u, C) = {} /\ Asks(u, C) = {}
    BY UncountStep DEF u
  <2> QED BY <1>3, <2>1, OneRung DEF k0
<1>6. \A x, y : /\ r(x) = r(y) => x = y
                /\ Uses(r(x), r(y)) =>
                     \/ y = "adapter" /\ x \in {"dmx", "frontend", "videodev", "audio", "osd"}
                     \/ y = "dmx" /\ x \in {"dmxdev", "fehw", "femem", "fgpi"}
                     \/ y = "fe" /\ x = "frontend"
                     \/ y \notin PerAdapter
  BY UserTable DEF Stands, r, PerAdapter
<1> DEFINE g1 == {r("adapter")}
           g2 == {r("dmx")} \cup g1
           g3 == {r("dmxdev")} \cup g2
           g4 == {r("fehw")} \cup g3
           g5 == {r("femem")} \cup g4
           g6 == {r("net")} \cup g5
           g7 == {r("fe")} \cup g6
           g8 == {r("frontend")} \cup g7
           g9 == {r("client")} \cup g8
<1>7. Rungs(k1, C, g1, g1)
  <2>1. Rungs(k1, C, {r("adapter")} \cup {}, {r("adapter")} \cup {})
    BY <1>1, <1>5, <1>a1, RungsDrop DEF x1, PerAdapter
  <2> QED BY <2>1
<1> HIDE DEF g1
<1>8. /\ r("dmx") \in Resources /\ r("dmx") \notin g1
      /\ \A x \in g1 : ~Uses(x, r("dmx"))
  BY <1>1, <1>6 DEF PerAdapter, g1
<1> HIDE DEF g2
<1>9. Rungs(k2, C, {r("dmx")} \cup g1, {r("dmx")} \cup g1)
  BY <1>7, <1>8, <1>a2, RungsDrop DEF x2
<1>10. Rungs(k2, C, g2, g2)
  BY <1>9 DEF g2
<1>11. /\ r("dmxdev") \in Resources /\ r("dmxdev") \notin g2
      /\ \A x \in g2 : ~Uses(x, r("dmxdev"))
  BY <1>1, <1>6 DEF PerAdapter, g1, g2
<1> HIDE DEF g3
<1>12. Rungs(k3, C, {r("dmxdev")} \cup g2, {r("dmxdev")} \cup g2)
  BY <1>10, <1>11, <1>a3, RungsDrop DEF x3
<1>13. Rungs(k3, C, g3, g3)
  BY <1>12 DEF g3
<1>14. /\ r("fehw") \in Resources /\ r("fehw") \notin g3
      /\ \A x \in g3 : ~Uses(x, r("fehw"))
  BY <1>1, <1>6 DEF PerAdapter, g1, g2, g3
<1> HIDE DEF g4
<1>15. Rungs(k4, C, {r("fehw")} \cup g3, {r("fehw")} \cup g3)
  BY <1>13, <1>14, <1>a4, RungsDrop DEF x4
<1>16. Rungs(k4, C, g4, g4)
  BY <1>15 DEF g4
<1>17. /\ r("femem") \in Resources /\ r("femem") \notin g4
      /\ \A x \in g4 : ~Uses(x, r("femem"))
  BY <1>1, <1>6 DEF PerAdapter, g1, g2, g3, g4
<1> HIDE DEF g5
<1>18. Rungs(k5, C, {r("femem")} \cup g4, {r("femem")} \cup g4)
  BY <1>16, <1>17, <1>a5, RungsDrop DEF x5
<1>19. Rungs(k5, C, g5, g5)
  BY <1>18 DEF g5
<1>20. /\ r("net") \in Resources /\ r("net") \notin g5
      /\ \A x \in g5 : ~Uses(x, r("net"))
  BY <1>1, <1>6 DEF PerAdapter, g1, g2, g3, g4, g5
<1> HIDE DEF g6
<1>21. Rungs(k6, C, {r("net")} \cup g5, {r("net")} \cup g5)
  BY <1>19, <1>20, <1>a6, RungsDrop DEF x6
<1>22. Rungs(k6, C, g6, g6)
  BY <1>21 DEF g6
<1>23. /\ r("fe") \in Resources /\ r("fe") \notin g6
      /\ \A x \in g6 : ~Uses(x, r("fe"))
  BY <1>1, <1>6 DEF PerAdapter, g1, g2, g3, g4, g5, g6
<1> HIDE DEF g7
<1>24. Rungs(k7, C, {r("fe")} \cup g6, g6)
  BY <1>22, <1>23, <1>a7, RungsDrop DEF x7
<1>25. Rungs(k7, C, g7, g6)
  BY <1>24 DEF g7
<1>26. /\ r("frontend") \in Resources /\ r("frontend") \notin g7
      /\ \A x \in g7 : ~Uses(x, r("frontend"))
  BY <1>1, <1>6 DEF PerAdapter, g1, g2, g3, g4, g5, g6, g7
<1> HIDE DEF g8
<1>27. Rungs(k8, C, {r("frontend")} \cup g7, g6)
  BY <1>25, <1>26, <1>a8, RungsDrop DEF x8
<1>28. Rungs(k8, C, g8, g6)
  BY <1>27 DEF g8
<1>29. /\ r("client") \in Resources /\ r("client") \notin g8
      /\ \A x \in g8 : ~Uses(x, r("client"))
  BY <1>1, <1>6 DEF PerAdapter, g1, g2, g3, g4, g5, g6, g7, g8
<1> HIDE DEF g9
<1>30. Rungs(k9, C, {r("client")} \cup g8, g6)
  BY <1>28, <1>29, <1>a9, RungsDrop DEF x9
<1>31. Rungs(k9, C, g9, g6)
  BY <1>30 DEF g9
<1>32. /\ r("fgpi") \in Resources /\ r("fgpi") \notin g9
      /\ \A x \in g9 : ~Uses(x, r("fgpi"))
  BY <1>1, <1>6 DEF PerAdapter, g1, g2, g3, g4, g5, g6, g7, g8, g9
<1>33. Rungs(k10, C, {r("fgpi")} \cup g9, {r("fgpi")} \cup g6)
  BY <1>31, <1>32, <1>a10, RungsDrop DEF x10
<1>34. {r("fgpi")} \cup g9 = PerAdapter \X {i} /\ {r("fgpi")} \cup g6 = Always \X {i}
  BY DEF r, PerAdapter, Always, g1, g2, g3, g4, g5, g6, g7, g8, g9
<1> QED BY <1>4, <1>33, <1>34

\* The loop of saa716x_dvb_exit() over c adapters.
ExitLoop(c) == InTurn([n \in 1 .. c |-> AdapterExit(n - 1)])

\* The steps of the loop over c adapters.
LEMMA ExitLoopSteps ==
  ASSUME NEW c \in 0 .. Adapters
  PROVE  /\ ExitLoop(c) \in Seq(Releases) /\ c * 11 \in Nat /\ Len(ExitLoop(c)) = c * 11
         /\ \A k \in 1 .. c * 11 :
              /\ Round(11, k) \in 1 .. c /\ Turn(11, k) \in 1 .. 11
              /\ k = Pos(11, Round(11, k), Turn(11, k))
              /\ ExitLoop(c)[k] = AdapterExit(Round(11, k) - 1)[Turn(11, k)]
         /\ \A p \in 1 .. c, j \in 1 .. 11 :
              /\ Pos(11, p, j) \in 1 .. c * 11
              /\ Round(11, Pos(11, p, j)) = p /\ Turn(11, Pos(11, p, j)) = j
<1> DEFINE rounds == [n \in 1 .. c |-> AdapterExit(n - 1)]
<1>1. c \in Nat /\ 11 \in Nat \ {0} /\ \A n \in 1 .. c : n - 1 \in 0 .. Adapters - 1
  BY AdaptersAssumption
<1>2. /\ rounds \in [1 .. c -> Seq(Releases)]
      /\ \A n \in 1 .. c : rounds[n] = AdapterExit(n - 1) /\ Len(rounds[n]) = 11
  BY <1>1, AdapterExitSteps
<1>3. ExitLoop(c) = InTurn(rounds)
  BY DEF ExitLoop
<1>a. Loop(rounds, Releases, c, 11)
  BY <1>1, <1>2 DEF Loop
<1> HIDE DEF rounds
<1>4. ExitLoop(c) \in Seq(Releases)
  BY <1>a, <1>3, InTurnSteps
<1>5. c * 11 \in Nat /\ Len(ExitLoop(c)) = c * 11
  BY <1>a, <1>3, InTurnSteps
<1>6. \A k \in 1 .. c * 11 : ExitLoop(c)[k] = rounds[Round(11, k)][Turn(11, k)]
  BY <1>a, <1>3, InTurnSteps
<1>7. \A k \in 1 .. c * 11 : /\ Round(11, k) \in 1 .. c /\ Turn(11, k) \in 1 .. 11
                             /\ k = Pos(11, Round(11, k), Turn(11, k))
  BY <1>1, RoundAndTurn
<1>8. \A p \in 1 .. c, j \in 1 .. 11 :
              /\ Pos(11, p, j) \in 1 .. c * 11
              /\ Round(11, Pos(11, p, j)) = p /\ Turn(11, Pos(11, p, j)) = j
  BY <1>1, PosInLoop
<1>9. \A k \in 1 .. c * 11 : ExitLoop(c)[k] = AdapterExit(Round(11, k) - 1)[Turn(11, k)]
  BY <1>2, <1>6, <1>7
<1> QED BY <1>4, <1>5, <1>7, <1>8, <1>9

\* What the loop gives back, and that it counts off the adapters in order.
LEMMA ExitLoopRungs ==
  ASSUME NEW c \in 0 .. Adapters, NEW C
  PROVE  /\ Rungs(ExitLoop(c), C, PerAdapter \X (0 .. c - 1), Always \X (0 .. c - 1))
         /\ \A k \in 1 .. Len(ExitLoop(c)) : ExitLoop(c)[k].op \in {"drop", "uncount"}
<1> DEFINE rounds == [n \in 1 .. c |-> AdapterExit(n - 1)]
           G == [n \in 1 .. c |-> PerAdapter \X {n - 1}]
           A == [n \in 1 .. c |-> Always \X {n - 1}]
<1>1. c \in Nat /\ 11 \in Nat \ {0} /\ \A n \in 1 .. c : n - 1 \in 0 .. Adapters - 1
  BY AdaptersAssumption
<1>2. \A n \in 1 .. c :
        /\ rounds[n] = AdapterExit(n - 1) /\ G[n] = PerAdapter \X {n - 1}
        /\ A[n] = Always \X {n - 1}
  OBVIOUS
<1>3. rounds \in [1 .. c -> Seq(Releases)]
  BY <1>1, AdapterExitSteps
<1>4. \A n \in 1 .. c : \A j \in 1 .. 11 : AdapterExit(n - 1)[j].op \in {"drop", "uncount"}
  <2> TAKE n \in 1 .. c
  <2> TAKE j \in 1 .. 11
  <2>1. j \in 1 .. 10 \/ j = 11
    OBVIOUS
  <2> QED BY <1>1, <2>1, AdapterExitSteps
<1>5. ExitLoop(c) = InTurn(rounds)
  BY DEF ExitLoop
<1> HIDE DEF rounds, G, A
<1>6. \A p \in 1 .. c : /\ Len(rounds[p]) = 11
                        /\ Rungs(rounds[p], C, G[p], A[p])
                        /\ \A j \in 1 .. 11 : rounds[p][j].op # "dvb_exit"
  <2> TAKE p \in 1 .. c
  <2>1. Len(rounds[p]) = 11
    BY <1>1, <1>2, AdapterExitSteps
  <2>2. Rungs(rounds[p], C, G[p], A[p])
    BY <1>1, <1>2, AdapterExitRungs
  <2>3. \A j \in 1 .. 11 : rounds[p][j].op # "dvb_exit"
    BY <1>2, <1>4
  <2> QED BY <2>1, <2>2, <2>3
<1>7. \A p \in 1 .. c, q \in 1 .. c :
         /\ p # q => G[p] \cap G[q] = {}
         /\ p < q => \A u \in G[q], d \in G[p] : ~Uses(u, d)
  <2> SUFFICES ASSUME NEW p \in 1 .. c, NEW q \in 1 .. c, p # q
               PROVE  /\ G[p] \cap G[q] = {}
                      /\ \A u \in G[q], d \in G[p] : ~Uses(u, d)
    OBVIOUS
  <2>1. p - 1 # q - 1
    OBVIOUS
  <2>2. G[p] = PerAdapter \X {p - 1} /\ G[q] = PerAdapter \X {q - 1}
    BY <1>2
  <2>3. \A u \in PerAdapter \X {q - 1}, d \in PerAdapter \X {p - 1} : ~Stands(u, d)
    BY <2>1 DEF Stands, PerAdapter
  <2> QED BY <2>1, <2>2, <2>3, UserTable
<1>8. Rungs(ExitLoop(c), C, UNION {G[p] : p \in 1 .. c}, UNION {A[p] : p \in 1 .. c})
  <2>1. Loop(rounds, Releases, c, 11)
    BY <1>1, <1>3, <1>6 DEF Loop
  <2>2. RungsLoop(rounds, c, 11, C, G, A)
    BY <2>1, <1>6, <1>7 DEF RungsLoop
  <2> QED BY <2>2, <1>5, InTurnRungs
<1>9. /\ UNION {G[p] : p \in 1 .. c} = PerAdapter \X (0 .. c - 1)
      /\ UNION {A[p] : p \in 1 .. c} = Always \X (0 .. c - 1)
  <2>1. \A i \in 0 .. c - 1 : i + 1 \in 1 .. c /\ (i + 1) - 1 = i
    BY <1>1
  <2>2. \A p \in 1 .. c : p - 1 \in 0 .. c - 1
    BY <1>1
  <2>3. UNION {G[p] : p \in 1 .. c} = PerAdapter \X (0 .. c - 1)
    BY <1>2, <2>1, <2>2
  <2>4. UNION {A[p] : p \in 1 .. c} = Always \X (0 .. c - 1)
    BY <1>2, <2>1, <2>2
  <2> QED BY <2>3, <2>4
<1>10. \A k \in 1 .. Len(ExitLoop(c)) : ExitLoop(c)[k].op \in {"drop", "uncount"}
  <2>1. Len(ExitLoop(c)) = c * 11
    BY ExitLoopSteps
  <2>2. \A k \in 1 .. c * 11 :
          /\ Round(11, k) \in 1 .. c /\ Turn(11, k) \in 1 .. 11
          /\ ExitLoop(c)[k] = AdapterExit(Round(11, k) - 1)[Turn(11, k)]
    BY ExitLoopSteps
  <2> QED BY <1>4, <2>1, <2>2
<1> QED BY <1>8, <1>9, <1>10

\* When saa716x_dvb_exit() enters its loop, what the rest of the function
\* gives back, asks for and clears does not change.
LEMMA EnterLoop ==
  ASSUME NEW s \in Seq(Releases), s # <<>>, Head(s).op = "dvb_exit",
         NEW c \in 0 .. Adapters, NEW U, NEW X, Unwinds(s, U, X, 0 .. c - 1)
  PROVE  LET t == ExitLoop(c) \o Tail(s) IN
         /\ t \in Seq(Releases)
         /\ Unwinds(t, U, X, 0 .. c - 1)
         /\ Gone(t, 0 .. c - 1) = Gone(s, 0 .. c - 1)
<1> DEFINE C == 0 .. c - 1
           k == Tail(s)
           e == ExitLoop(c)
           G == PerAdapter \X C
           A == Always \X C
           H == Gone(k, C)
           B == Asked(k, C)
<1>1. /\ Head(s) = s[1] /\ Head(s) \in Releases /\ k \in Seq(Releases)
      /\ Len(s) \in Nat \ {0} /\ Len(k) = Len(s) - 1
      /\ \A n \in 1 .. Len(k) : n + 1 \in 1 .. Len(s) /\ k[n] = s[n + 1]
  BY AfterHead
<1>2. Gives(Head(s), C) = G /\ Asks(Head(s), C) = A
  BY DEF Gives, Asks
<1>3. Orderly(s, C) /\ Asked(s, C) \subseteq X
  BY DEF Unwinds
<1>4. /\ Gone(s, C) = G \cup H /\ G \cap H = {} /\ Asked(s, C) = A \cup B
  BY <1>2, <1>3, GoneTail
<1>5. Unwinds(k, U \ G, X \ G, C)
  BY <1>2, UnwindsTail
<1>6. Rungs(k, C, H, B)
  BY <1>1, <1>5 DEF Unwinds, Rungs
<1>7. Rungs(e, C, G, A) /\ \A n \in 1 .. Len(e) : e[n].op \in {"drop", "uncount"}
  BY ExitLoopRungs
<1> HIDE DEF C, k, e, G, A, H, B
<1>8. \A u \in H, d \in G : ~Uses(u, d)
  <2> SUFFICES ASSUME NEW u \in H, NEW d \in G, Uses(u, d) PROVE FALSE
    OBVIOUS
  <2>1. PICK n \in 1 .. Len(k) : u \in Gives(k[n], C)
    BY DEF Gone, H
  <2>2. n + 1 \in 1 .. Len(s) /\ k[n] = s[n + 1] /\ 1 \in 1 .. Len(s) /\ ~(n + 1 <= 1)
    BY <1>1
  <2> QED BY <1>1, <1>2, <1>3, <2>1, <2>2 DEF Orderly
<1>9. \A m \in 1 .. Len(e), n \in 1 .. Len(k) :
        /\ e[m].op = "dvb_exit" => k[n].op # "uncount"
        /\ k[n].op = "dvb_exit" => e[m].op # "uncount"
  <2> SUFFICES ASSUME NEW m \in 1 .. Len(e), NEW n \in 1 .. Len(k), k[n].op = "dvb_exit"
               PROVE  FALSE
    BY <1>7
  <2>1. c * 11 \in Nat /\ Len(e) = c * 11
    BY ExitLoopSteps DEF e
  <2>2. c # 0
    BY <2>1
  <2>3. 0 \in C
    BY <2>2 DEF C
  <2>4. <<"adapter", 0>> \in G
    BY <2>3 DEF G, PerAdapter
  <2>5. Gives(k[n], C) = G
    BY DEF Gives, G
  <2>6. <<"adapter", 0>> \in H
    BY <2>4, <2>5 DEF H, Gone
  <2> QED BY <1>4, <2>4, <2>6
<1>10. Rungs(e \o k, C, G \cup H, A \cup B)
  BY <1>4, <1>6, <1>7, <1>8, <1>9, RungsConcat
<1>11. \A u \in U, d \in Gone(s, C) : Uses(u, d) => u \in Gone(s, C)
  BY DEF Unwinds, C
<1>12. Unwinds(e \o k, U, X, C) /\ Gone(e \o k, C) = Gone(s, C) /\ e \o k \in Seq(Releases)
  BY <1>3, <1>4, <1>10, <1>11 DEF Unwinds, Rungs
<1> QED BY <1>12 DEF C, e, k

-----------------------------------------------------------------------------
(* The driver core, the handler and the work.                              *)

\* The steps of a ladder or of a probe function are about known resources.
LEMMA StepsResources ==
   /\ \A s \in Seq(Takings) : \A n \in DOMAIN s : s[n].res \in Resources
   /\ \A s \in Seq(Releases) : \A n \in DOMAIN s : s[n].res \in Resources
<1>1. \A step \in Takings : step.res \in Resources
  BY DEF Takings
<1>2. \A step \in Releases : step.res \in Resources
  BY DEF Releases
<1>3. \A S : \A s \in Seq(S) : \A n \in DOMAIN s : s[n] \in S
  OBVIOUS
<1> HIDE DEF Takings, Releases
<1> QED BY <1>1, <1>2, <1>3

\* The invariant holds before the first probe.
LEMMA InitLife == Init => LifeInv
<1> SUFFICES ASSUME Init PROVE LifeInv
  OBVIOUS
<1>1. TypeOK
  <2>1. 0 \in 0 .. Adapters /\ 0 \in 0 .. MaxIgnored
    BY AdaptersAssumption, MaxIgnoredAssumption
  <2>2. \A n \in DOMAIN todo : todo[n].res \in Resources
    BY EmptySeq DEF Init
  <2> QED BY <2>1, <2>2 DEF Init, TypeOK, Phases
<1>2. short \subseteq Blinds /\ Building /\ Releasing /\ AtRest
  BY DEF Init, Building, Releasing, AtRest
<1>3. HandlerInv /\ WorkInv /\ UsersGoFirst /\ ReturnsAll
  BY DEF Init, HandlerInv, WorkInv, ReceiverWork, UsersGoFirst, ReturnsAll
<1> QED BY <1>1, <1>2, <1>3 DEF LifeInv

\* The driver core calls the probe function: it builds on nothing.
LEMMA ProbeCardLife ==
  ASSUME LifeInv, ProbeCard
  PROVE  LifeInv'
<1>1. /\ card \in Cards /\ card' = card /\ phase' = "probing" /\ todo' = ProbeSteps[card]
      /\ held' = {} /\ short' = {} /\ ptr' = {} /\ handler' = {} /\ work' = "none"
      /\ num_adapters' = 0 /\ ignored' = 0 /\ err' = FALSE /\ int_type' \in IntTypes
  BY DEF LifeInv, TypeOK, ProbeCard
<1>2. todo' \in Seq(Takings) /\ Builds(card, todo', Stage({}, {}, {}, {}))
  BY <1>1, ProbeFits
<1>3. Counted' = {}
  BY <1>1 DEF Counted
<1>4. Now' = Stage({}, {}, {}, {})
  BY <1>1, <1>3 DEF Now
<1>5. TypeOK'
  <2>1. \A n \in DOMAIN todo' : todo'[n].res \in Resources
    BY <1>2, StepsResources
  <2>2. 0 \in 0 .. Adapters /\ 0 \in 0 .. MaxIgnored
    BY AdaptersAssumption, MaxIgnoredAssumption
  <2>3. /\ card' \in Cards /\ phase' \in Phases /\ held' \subseteq Resources
        /\ short' \subseteq Resources /\ err' \in BOOLEAN /\ num_adapters' \in 0 .. Adapters
        /\ int_type' \in IntTypes \cup {"inta"} /\ ptr' \subseteq {R("sti"), R("ir")}
        /\ handler' \subseteq Resources /\ ignored' \in 0 .. MaxIgnored
    BY <1>1, <2>2 DEF Phases, ProbeCard
  <2>4. work' \in {"none", "queued", "late"}
    BY DEF LifeInv, TypeOK, ProbeCard
  <2> QED BY <2>1, <2>3, <2>4 DEF TypeOK
<1>6. Building'
  BY <1>1, <1>2, <1>4 DEF Building
<1>7. Releasing' /\ AtRest' /\ short' \subseteq Blinds
  BY <1>1 DEF Releasing, AtRest
<1>8. HandlerInv' /\ WorkInv' /\ UsersGoFirst' /\ ReturnsAll'
  BY <1>1 DEF HandlerInv, WorkInv, ReceiverWork, UsersGoFirst, ReturnsAll
<1> QED BY <1>5, <1>6, <1>7, <1>8 DEF LifeInv

\* The driver core calls the remove function: it unwinds what the probe
\* function built.
LEMMA RemoveCardLife ==
  ASSUME LifeInv, RemoveCard
  PROVE  LifeInv'
<1>1. /\ phase = "bound" /\ phase' = "removing" /\ todo' = RemoveSteps[card] /\ todo = <<>>
      /\ UNCHANGED <<card, held, short, err, num_adapters, int_type, ptr, handler,
                     work, ignored>>
  BY DEF LifeInv, RemoveCard, Building
<1>2. Builds(card, <<>>, Now) /\ ptr \subseteq held \cap Cleared(RemoveSteps[card])
  BY <1>1 DEF LifeInv, Building
<1>3. Ends(card, Now)
  BY <1>2, AtFirst, EmptySeq DEF Builds, Now
<1>4. /\ todo' \in Seq(Releases) /\ NoUncount(todo')
      /\ Unwinds(todo', held, held \cup short, Counted)
      /\ held \subseteq Gone(todo', Counted)
      /\ card = "cap" => QueueFirst(todo', Counted)
  BY <1>1, <1>3 DEF Ends, Now, Stage
<1>5. TypeOK'
  <2>1. \A n \in DOMAIN todo' : todo'[n].res \in Resources
    BY <1>4, StepsResources
  <2> QED BY <1>1, <2>1 DEF LifeInv, TypeOK, Phases
<1>6. UncountInv'
  BY <1>4 DEF UncountInv, NoUncount
<1>7. Releasing'
  BY <1>1, <1>2, <1>4, <1>6 DEF Releasing, Counted
<1>8. Building' /\ AtRest' /\ short' \subseteq Blinds
  BY <1>1 DEF LifeInv, Building, AtRest
<1>9. HandlerInv' /\ WorkInv' /\ UsersGoFirst' /\ ReturnsAll'
  BY <1>1 DEF LifeInv, HandlerInv, WorkInv, ReceiverWork, UsersGoFirst, ReturnsAll
<1> QED BY <1>5, <1>7, <1>8, <1>9 DEF LifeInv

\* With nothing left to do, nothing is left to give back.
LEMMA EmptyGone ==
  ASSUME NEW C
  PROVE  Gone(<<>>, C) = {} /\ Cleared(<<>>) = {}
BY EmptySeq DEF Gone, Cleared

\* A function returns, with nothing left to do.
LEMMA ReturnLife ==
  ASSUME LifeInv, Return
  PROVE  LifeInv'
<1>1. /\ phase \in {"probing", "failing", "removing"} /\ todo = <<>> /\ todo' = <<>>
      /\ UNCHANGED <<card, held, short, err, num_adapters, int_type, ptr, handler,
                     work, ignored>>
      /\ phase = "probing" => phase' = "bound"
      /\ phase = "removing" => phase' = "absent"
      /\ phase = "failing" => phase' = IF err THEN "failed" ELSE "husk"
  BY DEF LifeInv, Return
<1>2. phase' \in {"bound", "absent", "failed", "husk"}
  BY <1>1
<1>3. phase = "removing" => held = {} /\ ptr = {}
  BY <1>1, EmptyGone DEF LifeInv, Releasing
<1>4. phase = "failing" => Forgotten(held)
  <2>1. held \ {} = held
    OBVIOUS
  <2> QED BY <1>1, <2>1, EmptyGone DEF LifeInv, Releasing
<1>5. TypeOK'
  BY <1>1, <1>2 DEF LifeInv, TypeOK, Phases
<1>6. Building'
  <2>1. Now' = Now
    BY <1>1 DEF Now, Counted
  <2> QED BY <1>1, <2>1 DEF LifeInv, Building
<1>7. Releasing' /\ AtRest' /\ short' \subseteq Blinds
  BY <1>1, <1>2 DEF LifeInv, Releasing, AtRest
<1>8. HandlerInv' /\ UsersGoFirst' /\ ReturnsAll'
  BY <1>1, <1>2, <1>3, <1>4 DEF LifeInv, HandlerInv, UsersGoFirst, ReturnsAll
<1>9. WorkInv'
  BY <1>1, <1>2, <1>3 DEF LifeInv, WorkInv, ReceiverWork
<1> QED BY <1>5, <1>6, <1>7, <1>8, <1>9 DEF LifeInv

\* Steps of the handler and of the work leave probe and remove alone.
LEMMA HandlerFrame ==
  ASSUME LifeInv,
         UNCHANGED <<card, phase, todo, held, short, err, num_adapters, int_type, ptr,
                     ignored>>,
         handler' \subseteq Resources, work' \in {"none", "queued", "late"},
         phase \in {"probing", "bound"} => handler' \subseteq held,
         HandlerInv', WorkInv'
  PROVE  LifeInv'
<1>1. TypeOK' /\ short' \subseteq Blinds /\ AtRest' /\ UsersGoFirst' /\ ReturnsAll'
  BY DEF LifeInv, TypeOK, AtRest, UsersGoFirst, ReturnsAll
<1>2. Now' = Now
  BY DEF Now, Counted
<1>3. Building'
  BY <1>2 DEF LifeInv, Building
<1>4. Releasing'
  BY DEF LifeInv, Releasing, Counted, UncountInv
<1> QED BY <1>1, <1>3, <1>4 DEF LifeInv

\* Nothing happens to a husk.
LEMMA HuskLife ==
  ASSUME LifeInv, UNCHANGED vars
  PROVE  LifeInv'
<1>1. handler' \subseteq Resources /\ work' \in {"none", "queued", "late"}
  BY DEF LifeInv, TypeOK, vars
<1>2. phase \in {"probing", "bound"} => handler' \subseteq held
  BY DEF LifeInv, Building, vars
<1>3. HandlerInv' /\ WorkInv'
  BY DEF LifeInv, HandlerInv, WorkInv, ReceiverWork, vars
<1> QED BY <1>1, <1>2, <1>3, HandlerFrame DEF vars

\* The device structure and the registers outlive the handler.
LEMMA HandlerStands ==
  ASSUME LifeInv, R("irq") \in held
  PROVE  R("dev") \in held /\ R("mmio") \in held
BY HandlerUses DEF LifeInv, UsersGoFirst, Uses

\* The interrupt handler is entered.
LEMMA HandlerEnterLife ==
  ASSUME LifeInv, HandlerEnter
  PROVE  LifeInv'
<1>1. R("irq") \in held /\ R("dev") \in held /\ R("mmio") \in held
  BY HandlerStands DEF HandlerEnter
<1>2. /\ UNCHANGED <<card, phase, todo, held, short, err, num_adapters, int_type, ptr,
                     work, ignored>>
      /\ handler' \subseteq {R("dev"), R("mmio"), R("sti")}
      /\ R("sti") \in handler' => R("sti") \in ptr
  BY DEF HandlerEnter, R
<1>3. handler' \subseteq Resources /\ work' \in {"none", "queued", "late"}
  BY <1>2, ResourceNames DEF LifeInv, TypeOK, Singles
<1>4. phase \in {"probing", "bound"} => handler' \subseteq held
  BY <1>1, <1>2 DEF LifeInv, Building
<1>5. HandlerInv'
  BY <1>1, <1>2 DEF HandlerInv, R
<1>6. WorkInv'
  BY <1>2 DEF LifeInv, WorkInv, ReceiverWork
<1> QED BY <1>2, <1>3, <1>4, <1>5, <1>6, HandlerFrame

\* It looks at the remote control.
LEMMA HandlerIrLife ==
  ASSUME LifeInv, HandlerIr
  PROVE  LifeInv'
<1>1. /\ UNCHANGED <<card, phase, todo, held, short, err, num_adapters, int_type, ptr,
                     work, ignored>>
      /\ handler' = handler \cup {R("ir")} /\ R("ir") \in ptr /\ handler # {}
  BY DEF HandlerIr
<1>2. handler' \subseteq Resources /\ work' \in {"none", "queued", "late"}
  BY <1>1, ResourceNames DEF LifeInv, TypeOK, Singles
<1>3. phase \in {"probing", "bound"} => handler' \subseteq held
  BY <1>1 DEF LifeInv, Building
<1>4. HandlerInv'
  BY <1>1 DEF LifeInv, HandlerInv, R
<1>5. WorkInv'
  BY <1>1 DEF LifeInv, WorkInv, ReceiverWork
<1> QED BY <1>1, <1>2, <1>3, <1>4, <1>5, HandlerFrame

\* It queues the receiver's work.
LEMMA HandlerQueueLife ==
  ASSUME LifeInv, HandlerQueue
  PROVE  LifeInv'
<1>1. /\ UNCHANGED <<card, phase, todo, held, short, err, num_adapters, int_type, ptr,
                     ignored>>
      /\ handler' = handler \cup {R("wq")} /\ handler # {} /\ card = "cap"
      /\ work' \in IF R("wq") \in held THEN {"queued"} ELSE {work, "late"}
  BY DEF HandlerQueue
<1>2. R("irq") \in held /\ R("dev") \in held
  BY <1>1, HandlerStands DEF LifeInv, HandlerInv
<1>3. handler' \subseteq Resources /\ work' \in {"none", "queued", "late"}
  BY <1>1, ResourceNames DEF LifeInv, TypeOK, Singles
<1>4. phase \in {"probing", "bound"} => handler' \subseteq held
  BY <1>1, <1>2 DEF LifeInv, Building
<1>5. HandlerInv'
  BY <1>1, <1>2 DEF LifeInv, HandlerInv, R
<1>6. WorkInv'
  <2>1. phase \in {"probing", "bound"} => R("wq") \in held
    BY <1>1, <1>2 DEF LifeInv, Building
  <2>2. CASE R("wq") \in held
    BY <1>1, <1>2, <2>2 DEF LifeInv, WorkInv, ReceiverWork
  <2>3. CASE R("wq") \notin held
    BY <1>1, <1>2, <2>1, <2>3 DEF LifeInv, WorkInv, ReceiverWork
  <2> QED BY <2>2, <2>3
<1> QED BY <1>1, <1>3, <1>4, <1>5, <1>6, HandlerFrame

\* It returns.
LEMMA HandlerLeaveLife ==
  ASSUME LifeInv, HandlerLeave
  PROVE  LifeInv'
<1>1. /\ UNCHANGED <<card, phase, todo, held, short, err, num_adapters, int_type, ptr,
                     work, ignored>>
      /\ handler' = {}
  BY DEF HandlerLeave
<1>2. work' \in {"none", "queued", "late"} /\ HandlerInv' /\ WorkInv'
  BY <1>1 DEF LifeInv, TypeOK, HandlerInv, WorkInv, ReceiverWork
<1> QED BY <1>1, <1>2, HandlerFrame

\* The receiver's work returns.
LEMMA WorkDoneLife ==
  ASSUME LifeInv, WorkDone
  PROVE  LifeInv'
<1>1. /\ UNCHANGED <<card, phase, todo, held, short, err, num_adapters, int_type, ptr,
                     handler, ignored>>
      /\ work' = "none"
  BY DEF WorkDone
<1>2. work' \in {"none", "queued", "late"} /\ HandlerInv' /\ WorkInv' /\ handler' \subseteq Resources
  BY <1>1 DEF LifeInv, TypeOK, HandlerInv, WorkInv, ReceiverWork
<1>3. phase \in {"probing", "bound"} => handler' \subseteq held
  BY <1>1 DEF LifeInv, Building
<1> QED BY <1>1, <1>2, <1>3, HandlerFrame

-----------------------------------------------------------------------------
(* The running function.                                                   *)

\* What Needs consists of: pairs, of something that uses a resource.
LEMMA NeedsPairs ==
  ASSUME NEW p \in Needs
  PROVE  p = <<p[1], p[2]>> /\ p[2] \in Resources
<1>1. CASE p \in {<<R(q[1]), R(q[2])>> : q \in CardNeeds}
  <2>1. PICK q \in CardNeeds : p = <<R(q[1]), R(q[2])>>
    BY <1>1
  <2>2. q[2] \in Singles \cup {"adapter"}
    BY <2>1 DEF CardNeeds, Singles
  <2>3. <<"adapter", 0>> \in Resources
    <3>1. 0 \in 0 .. Adapters - 1
      BY AdaptersAssumption
    <3> QED BY <3>1, AdapterResources DEF PerAdapter
  <2>4. R(q[2]) \in Resources
    BY <2>2, <2>3, ResourceNames DEF R
  <2> QED BY <2>1, <2>4
<1>2. CASE p \in {<<<<q[1], i>>, <<q[2], i>>>> : i \in 0 .. Adapters - 1, q \in AdapterNeeds}
  <2>1. PICK i \in 0 .. Adapters - 1, q \in AdapterNeeds : p = <<<<q[1], i>>, <<q[2], i>>>>
    BY <1>2
  <2>2. q[2] \in PerAdapter
    BY <2>1 DEF AdapterNeeds, PerAdapter
  <2> QED BY <2>1, <2>2, AdapterResources
<1>3. CASE p \in {<<<<q[1], u, n>>, <<q[2], u, n>>>> :
                   u \in {"vip", "aip"}, n \in 1 .. DmaBuffers, q \in PartNeeds}
  BY <1>3 DEF Resources, Parts, PartNeeds
<1>4. CASE p \in {<<R(u), <<"ptab", u, n>>>> : u \in {"vip", "aip"}, n \in 1 .. DmaBuffers}
                 \cup {<<R("aip"), <<"sgmap", "aip", n>>>> : n \in 1 .. DmaBuffers}
  BY <1>4 DEF Resources, Parts
<1>5. CASE p \in {<<R("irq"), <<"fgpi", i>>>> : i \in 0 .. Adapters - 1}
  <2>1. PICK i \in 0 .. Adapters - 1 : p = <<R("irq"), <<"fgpi", i>>>>
    BY <1>5
  <2> QED BY <2>1, AdapterResources DEF PerAdapter
<1>6. CASE p \in {<<<<"fgpi", i>>, R("mmio")>> : i \in 0 .. Adapters - 1}
                 \cup {<<<<"i2c", b>>, R("mmio")>> : b \in {0, 1}}
  BY <1>6, ResourceNames DEF Singles
<1>7. CASE p \in {<<<<u, i>>, <<"i2c", b>>>> :
                   u \in {"fe", "client"}, i \in 0 .. Adapters - 1, b \in {0, 1}}
                 \cup {<<R("subdev"), <<"i2c", 0>>>>}
  BY <1>7, ResourceNames
<1> QED BY <1>1, <1>2, <1>3, <1>4, <1>5, <1>6, <1>7 DEF Needs

\* Nothing outlives what it stands on, said with Uses.
LEMMA UsersFirstOf ==
  ASSUME NEW S
  PROVE  (\A p \in Needs \ OutOfOrder : p[1] \in S => p[2] \in S)
         <=> (\A u, d : Uses(u, d) /\ u \in S => d \in S)
<1>1. ASSUME \A p \in Needs \ OutOfOrder : p[1] \in S => p[2] \in S,
             NEW u, NEW d, Uses(u, d), u \in S PROVE d \in S
  BY <1>1 DEF Uses
<1>2. ASSUME \A u, d : Uses(u, d) /\ u \in S => d \in S,
             NEW p \in Needs \ OutOfOrder, p[1] \in S PROVE p[2] \in S
  <2>1. p = <<p[1], p[2]>>
    BY NeedsPairs
  <2> QED BY <1>2, <2>1 DEF Uses
<1> QED BY <1>1, <1>2

\* The same of what is held.
LEMMA UsersFirst ==
  UsersGoFirst <=> \A u, d : Uses(u, d) /\ u \in held => d \in held
BY UsersFirstOf DEF UsersGoFirst

\* The same after a step.
LEMMA UsersFirstThen ==
  UsersGoFirst' <=> \A u, d : Uses(u, d) /\ u \in held' => d \in held'
BY UsersFirstOf DEF UsersGoFirst

\* What is used is a resource.
LEMMA UsesResources ==
  ASSUME NEW u, NEW d, Uses(u, d)
  PROVE  d \in Resources
BY NeedsPairs DEF Uses

\* What runs is a probe function that builds, or a ladder or a remove
\* function that unwinds.
LEMMA Running ==
  ASSUME LifeInv, todo # <<>>
  PROVE  \/ /\ phase = "probing"
            /\ todo \in Seq(Takings) /\ Head(todo) \in Takings /\ Tail(todo) \in Seq(Takings)
            /\ StepFits(card, Head(todo), Now)
            /\ Builds(card, Tail(todo), After(Now, Head(todo)))
         \/ /\ phase \in {"failing", "removing"}
            /\ todo \in Seq(Releases) /\ Head(todo) \in Releases /\ Tail(todo) \in Seq(Releases)
            /\ Unwinds(todo, held, held \cup short, Counted)
<1>1. phase \in {"probing", "failing", "removing"}
  BY DEF LifeInv, TypeOK, Phases, AtRest, Building
<1>2. CASE phase = "probing"
  <2>1. todo \in Seq(Takings) /\ Builds(card, todo, Now)
    BY <1>2 DEF LifeInv, Building
  <2>2. Head(todo) \in Takings /\ Tail(todo) \in Seq(Takings)
    BY <2>1, AfterHead
  <2>3. StepFits(card, Head(todo), Now) /\ Builds(card, Tail(todo), After(Now, Head(todo)))
    BY <2>1, BuildsStep DEF Now
  <2> QED BY <1>2, <2>1, <2>2, <2>3
<1>3. CASE phase \in {"failing", "removing"}
  <2>1. todo \in Seq(Releases) /\ Unwinds(todo, held, held \cup short, Counted)
    BY <1>3 DEF LifeInv, Releasing
  <2>2. Head(todo) \in Releases /\ Tail(todo) \in Seq(Releases)
    BY <2>1, AfterHead
  <2> QED BY <1>3, <2>1, <2>2
<1> QED BY <1>1, <1>2, <1>3

\* A probe function goes on.
LEMMA ProbeGoesOn ==
  ASSUME LifeInv, phase = "probing", todo # <<>>,
         todo' = Tail(todo), UNCHANGED <<card, phase, err, handler, work>>,
         held \subseteq held', held' \subseteq Resources,
         short' \subseteq Blinds, num_adapters' \in 0 .. Adapters,
         int_type' \in IntTypes \cup {"inta"}, ignored' \in 0 .. MaxIgnored,
         Easier(Now', After(Now, Head(todo))),
         ptr' \subseteq held' \cap Cleared(RemoveSteps[card]) \cap {R("sti"), R("ir")},
         card = "cap" /\ R("irq") \in held' => R("wq") \in held',
         UsersGoFirst'
  PROVE  LifeInv'
<1>1. todo' \in Seq(Takings) /\ Builds(card, todo', After(Now, Head(todo)))
  BY Running
<1>2. Builds(card, todo', Now')
  BY <1>1, BuildsEasier
<1>3. TypeOK'
  <2>1. \A n \in DOMAIN todo' : todo'[n].res \in Resources
    BY <1>1, StepsResources
  <2>2. short' \subseteq Resources
    BY DEF Blinds
  <2> QED BY <2>1, <2>2 DEF LifeInv, TypeOK
<1>4. Building'
  BY <1>1, <1>2 DEF LifeInv, Building
<1>5. Releasing' /\ AtRest' /\ ReturnsAll'
  BY DEF Releasing, AtRest, ReturnsAll
<1>6. HandlerInv' /\ WorkInv'
  BY DEF LifeInv, HandlerInv, WorkInv, ReceiverWork
<1> QED BY <1>3, <1>4, <1>5, <1>6 DEF LifeInv

\* A probe function jumps to a label.
LEMMA ProbeFails ==
  ASSUME LifeInv, phase = "probing", todo # <<>>,
         todo' = Head(todo).fail, phase' = "failing", err' \in BOOLEAN,
         card = "cap" => err',
         UNCHANGED <<card, short, num_adapters, ptr, handler, work, ignored>>,
         int_type' \in IntTypes \cup {"inta"},
         held \subseteq held', held' \subseteq Resources,
         LadderFits(todo', Now'), UsersGoFirst'
  PROVE  LifeInv'
<1>1. todo' \in Seq(Releases)
  BY Running DEF Takings
<1>2. /\ NoUncount(todo') /\ Unwinds(todo', held', held' \cup short', Counted')
      /\ Forgotten(held' \ Gone(todo', Counted'))
  BY DEF LadderFits, Now, Stage
<1>3. TypeOK'
  <2>1. \A n \in DOMAIN todo' : todo'[n].res \in Resources
    BY <1>1, StepsResources
  <2> QED BY <2>1 DEF LifeInv, TypeOK, Phases
<1>4. UncountInv'
  BY <1>2 DEF UncountInv, NoUncount
<1>5. Releasing'
  BY <1>1, <1>2, <1>4 DEF Releasing
<1>6. Building' /\ AtRest' /\ ReturnsAll' /\ short' \subseteq Blinds
  BY DEF LifeInv, Building, AtRest, ReturnsAll
<1>7. HandlerInv'
  BY DEF LifeInv, HandlerInv
<1>8. WorkInv'
  BY DEF LifeInv, WorkInv, ReceiverWork
<1> QED BY <1>3, <1>5, <1>6, <1>7, <1>8 DEF LifeInv

\* A ladder or a remove function goes on.
LEMMA ReleaseGoesOn ==
  ASSUME LifeInv, phase \in {"failing", "removing"}, todo # <<>>,
         UNCHANGED <<card, phase, err, int_type, handler, work, ignored>>,
         held' \subseteq held, short' \subseteq short, ptr' \subseteq ptr,
         num_adapters' \in 0 .. Adapters,
         todo' \in Seq(Releases),
         Unwinds(todo', held', held' \cup short', Counted'), UncountInv',
         phase = "failing" => Forgotten(held' \ Gone(todo', Counted')),
         phase = "removing" =>
           /\ held' \subseteq Gone(todo', Counted') /\ ptr' \subseteq Cleared(todo')
           /\ card = "cap" => R("wq") \notin held' \/ QueueFirst(todo', Counted'),
         R("irq") \in held \ held' => handler = {},
         R("wq") \in held \ held' => work # "queued",
         phase = "removing" /\ R("dev") \in held \ held' => work # "queued",
         UsersGoFirst'
  PROVE  LifeInv'
<1>1. TypeOK'
  <2>1. \A n \in DOMAIN todo' : todo'[n].res \in Resources
    BY StepsResources
  <2> QED BY <2>1 DEF LifeInv, TypeOK
<1>2. Releasing'
  BY DEF Releasing
<1>3. Building' /\ AtRest' /\ ReturnsAll' /\ short' \subseteq Blinds
  BY DEF LifeInv, Building, AtRest, ReturnsAll
<1>4. HandlerInv'
  BY DEF LifeInv, HandlerInv
<1>5. WorkInv'
  BY DEF LifeInv, WorkInv, ReceiverWork
<1> QED BY <1>1, <1>2, <1>3, <1>4, <1>5 DEF LifeInv

-----------------------------------------------------------------------------
(* Ladders and remove functions.                                           *)

\* The rest of a ladder still counts the adapters off in order.
LEMMA UncountTail ==
  ASSUME UncountInv, todo \in Seq(Releases), todo # <<>>, todo' = Tail(todo),
         Head(todo).op # "uncount", num_adapters' = num_adapters
  PROVE  UncountInv'
<1> DEFINE us == {n \in 1 .. Len(todo) : todo[n].op = "uncount"}
           vs == {n \in 1 .. Len(Tail(todo)) : Tail(todo)[n].op = "uncount"}
<1>1. /\ Len(todo) \in Nat /\ Len(Tail(todo)) = Len(todo) - 1 /\ Head(todo) = todo[1]
      /\ \A n \in 1 .. Len(Tail(todo)) : n + 1 \in 1 .. Len(todo) /\ Tail(todo)[n] = todo[n + 1]
      /\ \A n \in 2 .. Len(todo) : n - 1 \in 1 .. Len(Tail(todo)) /\ todo[n] = Tail(todo)[n - 1]
  BY AfterHead
<1>2. \A n \in vs : n + 1 \in us /\ Tail(todo)[n] = todo[n + 1]
  BY <1>1
<1>3. \A n \in us : n - 1 \in vs /\ todo[n] = Tail(todo)[n - 1]
  BY <1>1
<1>4. CASE us = {}
  BY <1>2, <1>4 DEF UncountInv
<1>5. ASSUME NEW c \in 0 .. Adapters,
             {todo[n].res[2] : n \in us} = (c - num_adapters) .. (c - 1),
             \A m, n \in us : m < n => todo[m].res[2] < todo[n].res[2]
      PROVE  UncountInv'
  <2>1. {Tail(todo)[n].res[2] : n \in vs} = {todo[n].res[2] : n \in us}
    <3>1. \A n \in vs : \E m \in us : Tail(todo)[n].res[2] = todo[m].res[2]
      BY <1>2
    <3>2. \A m \in us : \E n \in vs : Tail(todo)[n].res[2] = todo[m].res[2]
      BY <1>3
    <3>3. {Tail(todo)[n].res[2] : n \in vs} \subseteq {todo[n].res[2] : n \in us}
      BY <3>1
    <3>4. {todo[n].res[2] : n \in us} \subseteq {Tail(todo)[n].res[2] : n \in vs}
      BY <3>2
    <3> QED BY <3>3, <3>4
  <2>2. \A m, n \in vs : m < n => Tail(todo)[m].res[2] < Tail(todo)[n].res[2]
    BY <1>2, <1>5
  <2> QED BY <1>5, <2>1, <2>2 DEF UncountInv
<1> QED BY <1>4, <1>5 DEF UncountInv

\* The first adapter counted off is the lowest.
LEMMA UncountHead ==
  ASSUME UncountInv, todo \in Seq(Releases), todo # <<>>, todo' = Tail(todo),
         Head(todo).op = "uncount", num_adapters \in 0 .. Adapters,
         num_adapters' = num_adapters - 1
  PROVE  UncountInv' /\ num_adapters' \in 0 .. Adapters
<1> DEFINE us == {n \in 1 .. Len(todo) : todo[n].op = "uncount"}
           vs == {n \in 1 .. Len(Tail(todo)) : Tail(todo)[n].op = "uncount"}
<1>1. /\ Len(todo) \in Nat \ {0} /\ Len(Tail(todo)) = Len(todo) - 1 /\ Head(todo) = todo[1]
      /\ \A n \in 1 .. Len(Tail(todo)) : n + 1 \in 1 .. Len(todo) /\ Tail(todo)[n] = todo[n + 1]
      /\ \A n \in 2 .. Len(todo) : n - 1 \in 1 .. Len(Tail(todo)) /\ todo[n] = Tail(todo)[n - 1]
  BY AfterHead
<1>2. \A n \in vs : n + 1 \in us /\ Tail(todo)[n] = todo[n + 1]
  BY <1>1
<1>3. \A n \in us : n = 1 \/ (n - 1 \in vs /\ todo[n] = Tail(todo)[n - 1])
  <2> SUFFICES ASSUME NEW n \in us, n # 1 PROVE n - 1 \in vs /\ todo[n] = Tail(todo)[n - 1]
    OBVIOUS
  <2>1. n \in 2 .. Len(todo)
    BY <1>1
  <2> QED BY <2>1, <1>1
<1>4. 1 \in us /\ us # {}
  BY <1>1
<1>5. PICK c \in 0 .. Adapters :
        /\ {todo[n].res[2] : n \in us} = (c - num_adapters) .. (c - 1)
        /\ \A m, n \in us : m < n => todo[m].res[2] < todo[n].res[2]
  BY <1>4 DEF UncountInv
<1>6. \A n \in us : todo[n].res[2] \in (c - num_adapters) .. (c - 1)
  BY <1>5
<1> DEFINE x == todo[1].res[2]
<1>7. x \in (c - num_adapters) .. (c - 1) /\ x \in Int /\ num_adapters \in Int /\ c \in Int
  BY <1>4, <1>6, AdaptersAssumption
<1>8. \A n \in vs : todo[n + 1].res[2] > x /\ n \in Nat
  BY <1>1, <1>2, <1>4, <1>5
<1>9. x = c - num_adapters
  <2>1. c - num_adapters \in (c - num_adapters) .. (c - 1)
    BY <1>7
  <2>2. PICK n \in us : todo[n].res[2] = c - num_adapters
    BY <2>1, <1>5
  <2>3. n = 1 \/ (n - 1 \in vs /\ (n - 1) + 1 = n)
    BY <1>3, <1>1
  <2>4. n = 1 \/ c - num_adapters > x
    BY <2>2, <2>3, <1>8
  <2> QED BY <2>2, <2>4, <1>7
<1>10. {Tail(todo)[n].res[2] : n \in vs} = (c - (num_adapters - 1)) .. (c - 1)
  <2>1. ASSUME NEW n \in vs PROVE Tail(todo)[n].res[2] \in (c - (num_adapters - 1)) .. (c - 1)
    <3>1. Tail(todo)[n].res[2] \in (c - num_adapters) .. (c - 1)
      BY <1>2, <1>6
    <3>2. Tail(todo)[n].res[2] > x
      BY <1>2, <1>8
    <3> QED BY <3>1, <3>2, <1>7, <1>9
  <2>2. ASSUME NEW y \in (c - (num_adapters - 1)) .. (c - 1)
        PROVE  \E n \in vs : Tail(todo)[n].res[2] = y
    <3>1. y \in (c - num_adapters) .. (c - 1) /\ y # x
      BY <1>7, <1>9
    <3>2. PICK n \in us : todo[n].res[2] = y
      BY <3>1, <1>5
    <3> QED BY <3>1, <3>2, <1>3
  <2> QED BY <2>1, <2>2
<1>11. \A m, n \in vs : m < n => Tail(todo)[m].res[2] < Tail(todo)[n].res[2]
  <2> SUFFICES ASSUME NEW m \in vs, NEW n \in vs, m < n
               PROVE  Tail(todo)[m].res[2] < Tail(todo)[n].res[2]
    OBVIOUS
  <2>1. m + 1 \in us /\ n + 1 \in us /\ m + 1 < n + 1
    BY <1>1, <1>2
  <2> QED BY <2>1, <1>2, <1>5
<1>12. UncountInv'
  BY <1>10, <1>11 DEF UncountInv
<1> QED BY <1>12, <1>7, <1>9, AdaptersAssumption

\* A rung of a ladder is done.
LEMMA RungDone ==
  ASSUME LifeInv, phase \in {"failing", "removing"}, todo # <<>>, todo' = Tail(todo),
         UNCHANGED <<card, phase, err, num_adapters, int_type, handler, work, ignored>>,
         Head(todo).op # "uncount",
         held' = held \ Gives(Head(todo), Counted),
         short' = short \ Gives(Head(todo), Counted),
         ptr' = IF Head(todo).op = "clear" THEN ptr \ {Head(todo).res} ELSE ptr,
         R("irq") \in held \ held' => handler = {},
         R("wq") \in held \ held' => work # "queued"
  PROVE  LifeInv'
<1> DEFINE g == Gives(Head(todo), Counted)
<1>1. /\ todo \in Seq(Releases) /\ Tail(todo) \in Seq(Releases)
      /\ Unwinds(todo, held, held \cup short, Counted)
  BY Running
<1>2. /\ Unwinds(Tail(todo), held \ g, (held \cup short) \ g, Counted)
      /\ \A u \in held, d \in g : Uses(u, d) => u \in g
      /\ Gone(todo, Counted) = g \cup Gone(Tail(todo), Counted)
      /\ g \cap Gone(Tail(todo), Counted) = {}
  BY <1>1, UnwindsTail
<1>3. Counted' = Counted
  BY DEF Counted
<1> HIDE DEF g
<1>4. held' = held \ g /\ short' = short \ g
  BY DEF g
<1>5. held' \cup short' = (held \cup short) \ g
  BY <1>4
<1>6. Unwinds(todo', held', held' \cup short', Counted')
  BY <1>2, <1>3, <1>4, <1>5
<1>7. UncountInv'
  BY <1>1, UncountTail DEF LifeInv, Releasing
<1>8. phase = "failing" => Forgotten(held' \ Gone(todo', Counted'))
  <2>1. held' \ Gone(todo', Counted') = held \ Gone(todo, Counted)
    BY <1>2, <1>3, <1>4
  <2> QED BY <2>1 DEF LifeInv, Releasing
<1>9. phase = "removing" =>
        held' \subseteq Gone(todo', Counted') /\ ptr' \subseteq Cleared(todo')
  <2>1. Cleared(todo) = (IF Head(todo).op = "clear" THEN {Head(todo).res} ELSE {})
                        \cup Cleared(Tail(todo))
    BY <1>1, ClearedTail
  <2> QED BY <2>1, <1>2, <1>3, <1>4 DEF LifeInv, Releasing
<1>10. phase = "removing" =>
         (card = "cap" => R("wq") \notin held' \/ QueueFirst(todo', Counted'))
  <2>1. QueueFirst(todo, Counted) /\ R("wq") \notin g => QueueFirst(Tail(todo), Counted)
    BY <1>1, QueueFirstTail DEF g
  <2> QED BY <2>1, <1>3, <1>4 DEF LifeInv, Releasing
<1>11. phase = "removing" /\ R("dev") \in held \ held' => work # "queued"
  <2>1. QueueFirst(todo, Counted) => R("dev") \notin g
    BY <1>1, QueueFirstTail DEF g
  <2> QED BY <2>1, <1>4 DEF LifeInv, Releasing, WorkInv, ReceiverWork
<1>12. UsersGoFirst'
  <2>1. \A u, d : Uses(u, d) /\ u \in held => d \in held
    BY UsersFirst DEF LifeInv
  <2>2. \A u, d : Uses(u, d) /\ u \in held' => d \in held'
    BY <2>1, <1>2, <1>4
  <2> QED BY <2>2, UsersFirstThen
<1>13. num_adapters' \in 0 .. Adapters /\ ptr' \subseteq ptr
  BY DEF LifeInv, TypeOK
<1> QED BY <1>1, <1>4, <1>6, <1>7, <1>8, <1>9, <1>10, <1>11, <1>12, <1>13, ReleaseGoesOn

-----------------------------------------------------------------------------
(* The actions of the running function.                                    *)

\* Which function a step belongs to.
LEMMA StepOf ==
  ASSUME LifeInv, todo # <<>>
  PROVE  /\ Head(todo).op \in {"take", "check", "irq", "count", "point"} =>
              /\ phase = "probing" /\ Head(todo) \in Takings
              /\ StepFits(card, Head(todo), Now)
         /\ Head(todo).op \in {"drop", "flush", "clear", "dvb_exit", "uncount"} =>
              /\ phase \in {"failing", "removing"} /\ Head(todo) \in Releases
              /\ WellFormed(Head(todo))
<1>1. CASE phase = "probing"
  BY <1>1, Running DEF Takings
<1>2. CASE phase \in {"failing", "removing"}
  <2>1. todo \in Seq(Releases) /\ Head(todo) \in Releases /\ WellFormed(Head(todo))
    BY <1>2, Running, UnwindsTail
  <2> QED BY <1>2, <2>1 DEF Releases
<1> QED BY <1>1, <1>2, Running

\* What a probe function holds stays a sound base after a step that takes nothing.
LEMMA EasierSame ==
  ASSUME LifeInv, phase = "probing", todo # <<>>, UNCHANGED <<held, num_adapters>>,
         short \subseteq short', short' \subseteq short \cup Takes(Head(todo)),
         Takes(Head(todo)) \cap Buffers = {}, Firms(Head(todo)) = {},
         Sures(Head(todo)) \subseteq short', Counts(Head(todo)) = {}
  PROVE  Easier(Now', After(Now, Head(todo)))
BY DEF Easier, Now, After, Stage, Counted

\* A step is skipped because what it asks for is not there.
LEMMA SkipLife ==
  ASSUME LifeInv, Skip
  PROVE  LifeInv'
<1>1. todo # <<>> /\ todo' = Tail(todo) /\ ~Taken(Head(todo))
      /\ UNCHANGED <<card, phase, held, short, err, num_adapters, int_type, ptr, handler,
                     work, ignored>>
  BY DEF Skip
<1>2. Head(todo).only # {}
  BY <1>1 DEF Taken
<1>3. CASE phase = "probing"
  <2>1. StepFits(card, Head(todo), Now) /\ Head(todo) \in Takings
    BY <1>1, <1>3, Running
  <2>2. Head(todo).op = "take" /\ Head(todo).res \notin Buffers
    BY <2>1, <1>2 DEF StepFits
  <2>3. Takes(Head(todo)) \cap Buffers = {} /\ Firms(Head(todo)) = {} /\ Sures(Head(todo)) = {}
        /\ Counts(Head(todo)) = {}
    BY <2>2, <1>2 DEF Takes, Firms, Sures, Certain, Counts
  <2>4. Easier(Now', After(Now, Head(todo)))
    BY <1>1, <1>3, <2>3, EasierSame
  <2>5. UsersGoFirst'
    BY <1>1 DEF LifeInv, UsersGoFirst
  <2>6. held' = held /\ held \subseteq Resources /\ short' \subseteq Blinds
        /\ num_adapters' \in 0 .. Adapters /\ int_type' \in IntTypes \cup {"inta"}
        /\ ignored' \in 0 .. MaxIgnored /\ ptr \subseteq {R("sti"), R("ir")}
        /\ ptr \subseteq held \cap Cleared(RemoveSteps[card])
        /\ (card = "cap" /\ R("irq") \in held => R("wq") \in held)
    BY <1>1, <1>3 DEF LifeInv, TypeOK, Building
  <2> QED BY <1>1, <1>3, <2>4, <2>5, <2>6, ProbeGoesOn
<1>4. CASE phase \in {"failing", "removing"}
  <2>1. Head(todo) \in Releases /\ WellFormed(Head(todo))
    BY <1>1, <1>4, StepOf, Running, UnwindsTail
  <2>2. Head(todo).op = "drop" /\ Head(todo).only = {Head(todo).res}
    BY <2>1, <1>2 DEF WellFormed
  <2>3. Head(todo).res \notin held \cup short
    BY <1>1, <2>2 DEF Taken
  <2>4. Gives(Head(todo), Counted) = {Head(todo).res}
    BY <2>2 DEF Gives
  <2>5. held' = held \ Gives(Head(todo), Counted) /\ short' = short \ Gives(Head(todo), Counted)
    BY <1>1, <2>3, <2>4
  <2> QED BY <1>1, <1>4, <2>2, <2>5, RungDone
<1> QED BY <1>1, <1>3, <1>4, Running

\* What the outcomes of a step of a probe function change.
LEMMA OutcomeCases ==
  ASSUME NEW o \in Outcomes, Outcome(o)
  PROVE  \/ /\ o = "ok" /\ todo' = Tail(todo) /\ UNCHANGED <<phase, err, short, ignored>>
         \/ /\ o \in {"skip", "short"} /\ todo' = Tail(todo) /\ UNCHANGED <<phase, err>>
            /\ ignored < MaxIgnored /\ ignored' = ignored + 1
            /\ short' = IF o = "short" THEN short \cup {Head(todo).res} ELSE short
         \/ /\ o \in {"fail", "quiet"} /\ phase' = "failing" /\ todo' = Head(todo).fail
            /\ err' = (o = "fail") /\ UNCHANGED <<short, ignored>>
BY DEF Outcome, Outcomes, Continue, Jump

\* A step of a probe function that goes on and takes what it should.
LEMMA TakenLife ==
  ASSUME LifeInv, todo # <<>>, phase = "probing",
         todo' = Tail(todo), UNCHANGED <<card, phase, err, short, handler, work, ignored, ptr>>,
         num_adapters' \in 0 .. Adapters, int_type' \in IntTypes \cup {"inta"},
         Taken(Head(todo)),
         held \subseteq held', held' \subseteq held \cup Takes(Head(todo)),
         Takes(Head(todo)) \cap Buffers \subseteq held',
         Head(todo).op \in {"take", "irq"} => Head(todo).res \in held',
         Takes(Head(todo)) \subseteq Resources,
         Counted' = Counted \cup Counts(Head(todo))
  PROVE  LifeInv'
<1> DEFINE h == Head(todo)
<1>1. StepFits(card, h, Now) /\ h \in Takings
  BY Running
<1>2. h.only \subseteq held
  <2>1. h.only \subseteq held \cup short /\ h.only \cap Blinds = {} /\ short \subseteq Blinds
    BY <1>1 DEF Taken, StepFits, LifeInv
  <2> QED BY <2>1
<1>3. Easier(Now', After(Now, h))
  <2>1. Sures(h) \subseteq held' /\ Firms(h) \subseteq held'
    BY DEF Sures, Firms, Certain
  <2>2. Now' = Stage(held', held' \cup short', held', Counted \cup Counts(h))
    BY DEF Now, Stage
  <2>3. After(Now, h) = Stage(held \cup Takes(h), held \cup short \cup Sures(h), held \cup Firms(h),
                              Counted \cup Counts(h))
    BY DEF Now, After, Stage
  <2>4. (held \cup Takes(h)) \cap Buffers \subseteq held'
    OBVIOUS
  <2>5. held \cup short \cup Sures(h) \subseteq held' \cup short'
    BY <2>1
  <2>6. held \cup Firms(h) \subseteq held' /\ held' \subseteq held \cup Takes(h)
    BY <2>1
  <2> HIDE DEF h
  <2> QED BY <2>2, <2>3, <2>4, <2>5, <2>6 DEF Easier, Stage
<1>4. UsersGoFirst'
  <2>1. \A u, d : Uses(u, d) /\ u \in held => d \in held
    BY UsersFirst DEF LifeInv
  <2>2. \A u \in Takes(h), d \in Resources : Uses(u, d) => d \in held
    BY <1>1, <1>2 DEF StepFits, Now, Stage
  <2>3. \A u, d : Uses(u, d) /\ u \in held' => d \in held'
    BY <2>1, <2>2, UsesResources
  <2> QED BY <2>3, UsersFirstThen
<1>5. card = "cap" /\ R("irq") \in held' => R("wq") \in held'
  <2>1. R("irq") \in Takes(h) => h.op = "irq"
    BY <1>1 DEF StepFits, Takes
  <2>2. card = "cap" /\ h.op = "irq" => R("wq") \in held
    BY <1>1 DEF StepFits, Now, Stage
  <2>3. card = "cap" /\ R("irq") \in held => R("wq") \in held
    BY DEF LifeInv, Building
  <2> QED BY <2>1, <2>2, <2>3
<1>6. held' \subseteq Resources /\ short' \subseteq Blinds /\ ignored' \in 0 .. MaxIgnored
      /\ ptr' \subseteq held' \cap Cleared(RemoveSteps[card]) \cap {R("sti"), R("ir")}
  BY DEF LifeInv, TypeOK, Building
<1> QED BY <1>3, <1>4, <1>5, <1>6, ProbeGoesOn

\* A failure the probe function goes on after.
LEMMA IgnoredLife ==
  ASSUME LifeInv, todo # <<>>, phase = "probing", NEW o \in {"skip", "short"},
         o \in Head(todo).may, Head(todo).op = "take",
         todo' = Tail(todo),
         UNCHANGED <<card, phase, err, held, num_adapters, int_type, handler, work, ptr>>,
         ignored < MaxIgnored, ignored' = ignored + 1,
         short' = IF o = "short" THEN short \cup {Head(todo).res} ELSE short
  PROVE  LifeInv'
<1>1. StepFits(card, Head(todo), Now) /\ Head(todo) \in Takings
  BY Running
<1>2. Head(todo).res \notin Buffers /\ (o = "short" => Head(todo).res \in Blinds)
  BY <1>1 DEF StepFits
<1>3. /\ Takes(Head(todo)) = {Head(todo).res} /\ Firms(Head(todo)) = {}
      /\ Counts(Head(todo)) = {} /\ (o = "skip" => Sures(Head(todo)) = {})
      /\ Sures(Head(todo)) \subseteq {Head(todo).res}
  BY DEF Takes, Firms, Sures, Certain, Counts
<1>4. Easier(Now', After(Now, Head(todo)))
  BY <1>2, <1>3, EasierSame
<1>5. UsersGoFirst'
  BY DEF LifeInv, UsersGoFirst
<1>6. ignored' \in 0 .. MaxIgnored
  BY MaxIgnoredAssumption DEF LifeInv, TypeOK
<1>7. held' = held /\ held \subseteq Resources /\ short' \subseteq Blinds
      /\ num_adapters' \in 0 .. Adapters /\ int_type' \in IntTypes \cup {"inta"}
      /\ ptr \subseteq {R("sti"), R("ir")} /\ ptr \subseteq held \cap Cleared(RemoveSteps[card])
      /\ (card = "cap" /\ R("irq") \in held => R("wq") \in held)
  BY <1>2 DEF LifeInv, TypeOK, Building
<1> QED BY <1>4, <1>5, <1>6, <1>7, ProbeGoesOn

\* A jump to a label.
LEMMA JumpLife ==
  ASSUME LifeInv, todo # <<>>, phase = "probing", NEW o \in {"fail", "quiet"},
         o \in Head(todo).may,
         phase' = "failing", todo' = Head(todo).fail, err' = (o = "fail"),
         UNCHANGED <<card, held, short, num_adapters, int_type, ptr, handler, work, ignored>>
  PROVE  LifeInv'
<1>1. StepFits(card, Head(todo), Now)
  BY Running
<1>2. LadderFits(Head(todo).fail, Now) /\ (card = "cap" => o = "fail")
  BY <1>1 DEF StepFits
<1>3. Now' = Now
  BY DEF Now, Counted
<1>4. UsersGoFirst'
  BY DEF LifeInv, UsersGoFirst
<1>5. err' \in BOOLEAN /\ (card = "cap" => err') /\ held' \subseteq Resources
      /\ int_type' \in IntTypes \cup {"inta"} /\ held \subseteq held'
  BY <1>2 DEF LifeInv, TypeOK
<1> QED BY <1>2, <1>3, <1>4, <1>5, ProbeFails

\* A step of a probe function that takes a resource keeps the invariant,
\* whatever comes of it.
LEMMA AcquireLife ==
  ASSUME LifeInv, Acquire
  PROVE  LifeInv'
<1>1. todo # <<>> /\ Head(todo).op = "take" /\ Taken(Head(todo))
      /\ UNCHANGED <<card, num_adapters, int_type, ptr, handler, work>>
  BY DEF Acquire, Doing
<1>2. PICK o \in Head(todo).may :
        /\ Outcome(o)
        /\ held' = IF o = "ok" THEN held \cup {Head(todo).res} ELSE held
  BY DEF Acquire
<1>3. phase = "probing" /\ Head(todo) \in Takings
  BY <1>1, StepOf
<1>4. o \in Outcomes /\ Head(todo).res \in Resources
  BY <1>3 DEF Takings
<1>5. CASE o = "ok"
  <2>1. todo' = Tail(todo) /\ UNCHANGED <<phase, err, short, ignored>>
        /\ held' = held \cup {Head(todo).res}
    BY <1>2, <1>4, <1>5, OutcomeCases
  <2>2. Takes(Head(todo)) = {Head(todo).res} /\ Counts(Head(todo)) = {}
    BY <1>1 DEF Takes, Counts
  <2>3. Counted' = Counted /\ num_adapters' \in 0 .. Adapters /\ int_type' \in IntTypes \cup {"inta"}
    BY <1>1 DEF Counted, LifeInv, TypeOK
  <2> QED BY <1>1, <1>3, <1>4, <2>1, <2>2, <2>3, TakenLife
<1>6. CASE o \in {"skip", "short"}
  <2>1. /\ todo' = Tail(todo) /\ UNCHANGED <<phase, err, held>>
        /\ ignored < MaxIgnored /\ ignored' = ignored + 1
        /\ short' = IF o = "short" THEN short \cup {Head(todo).res} ELSE short
    BY <1>2, <1>4, <1>6, OutcomeCases
  <2> QED BY <1>1, <1>2, <1>3, <1>6, <2>1, IgnoredLife
<1>7. CASE o \in {"fail", "quiet"}
  <2>1. /\ phase' = "failing" /\ todo' = Head(todo).fail
        /\ err' = (o = "fail") /\ UNCHANGED <<short, ignored, held>>
    BY <1>2, <1>4, <1>7, OutcomeCases
  <2> QED BY <1>1, <1>2, <1>3, <1>7, <2>1, JumpLife
<1> QED BY <1>4, <1>5, <1>6, <1>7 DEF Outcomes

\* So does one that takes none.
LEMMA CheckStepLife ==
  ASSUME LifeInv, CheckStep
  PROVE  LifeInv'
<1>1. todo # <<>> /\ Head(todo).op = "check" /\ Taken(Head(todo))
      /\ UNCHANGED <<card, held, num_adapters, int_type, ptr, handler, work>>
  BY DEF CheckStep, Doing
<1>2. PICK o \in Head(todo).may : Outcome(o)
  BY DEF CheckStep
<1>3. phase = "probing" /\ Head(todo) \in Takings /\ StepFits(card, Head(todo), Now)
  BY <1>1, StepOf
<1>4. o \in Outcomes /\ o \notin {"skip", "short"}
  BY <1>1, <1>3 DEF Takings, StepFits
<1>5. CASE o = "ok"
  <2>1. todo' = Tail(todo) /\ UNCHANGED <<phase, err, short, ignored>>
    BY <1>2, <1>4, <1>5, OutcomeCases
  <2>2. Takes(Head(todo)) = {} /\ Counts(Head(todo)) = {}
    BY <1>1 DEF Takes, Counts
  <2>3. Counted' = Counted /\ num_adapters' \in 0 .. Adapters /\ int_type' \in IntTypes \cup {"inta"}
    BY <1>1 DEF Counted, LifeInv, TypeOK
  <2> QED BY <1>1, <1>3, <2>1, <2>2, <2>3, TakenLife
<1>6. CASE o \in {"fail", "quiet"}
  <2>1. /\ phase' = "failing" /\ todo' = Head(todo).fail
        /\ err' = (o = "fail") /\ UNCHANGED <<short, ignored>>
    BY <1>2, <1>4, <1>6, OutcomeCases
  <2> QED BY <1>1, <1>2, <1>3, <1>6, <2>1, JumpLife
<1> QED BY <1>4, <1>5, <1>6 DEF Outcomes

\* saa716x_request_irq(), with and without MSI.
LEMMA RequestLife ==
  ASSUME LifeInv, Doing("irq"), UNCHANGED <<card, num_adapters, ptr, handler, work>>,
         int_type' \in IntTypes \cup {"inta"},
         NEW new \in SUBSET {R("irq"), R("msi")}, R("irq") \in new,
         \/ Outcome("ok") /\ held' = held \cup new
         \/ Outcome("fail") /\ held' = held
  PROVE  LifeInv'
<1>1. todo # <<>> /\ Head(todo).op = "irq" /\ Taken(Head(todo))
  BY DEF Doing
<1>2. phase = "probing" /\ Head(todo) \in Takings /\ StepFits(card, Head(todo), Now)
  BY <1>1, StepOf
<1>3. Head(todo).res = R("irq") /\ "fail" \in Head(todo).may
  BY <1>1, <1>2 DEF StepFits
<1>4. "ok" \in Outcomes /\ "fail" \in Outcomes
  BY DEF Outcomes
<1>5. CASE Outcome("ok") /\ held' = held \cup new
  <2>1. todo' = Tail(todo) /\ UNCHANGED <<phase, err, short, ignored>>
    BY <1>4, <1>5, OutcomeCases
  <2>2. Takes(Head(todo)) = {R("irq"), R("msi")} /\ Counts(Head(todo)) = {}
    BY <1>1 DEF Takes, Counts
  <2>3. R("irq") \notin Buffers /\ R("msi") \notin Buffers
        /\ R("irq") \in Resources /\ R("msi") \in Resources
    BY DEF Buffers, Resources, R, Singles, Parts
  <2>4. Counted' = Counted /\ num_adapters' \in 0 .. Adapters
    BY DEF Counted, LifeInv, TypeOK
  <2> QED BY <1>1, <1>2, <1>3, <1>5, <2>1, <2>2, <2>3, <2>4, TakenLife
<1>6. CASE Outcome("fail") /\ held' = held
  <2>1. /\ phase' = "failing" /\ todo' = Head(todo).fail
        /\ err' = TRUE /\ UNCHANGED <<short, ignored>>
    BY <1>4, <1>6, OutcomeCases
  <2>2. LadderFits(Head(todo).fail, Now)
    BY <1>2, <1>3 DEF StepFits
  <2>3. Now' = Now
    BY <1>6, <2>1 DEF Now, Counted
  <2>4. UsersGoFirst' /\ held' \subseteq Resources /\ held \subseteq held'
    BY <1>6 DEF LifeInv, UsersGoFirst, TypeOK
  <2> QED BY <1>1, <1>2, <1>6, <2>1, <2>2, <2>3, <2>4, ProbeFails
<1> QED BY <1>5, <1>6

\* saa716x_request_irq() in INTA mode keeps the invariant.
LEMMA RequestIntaLife ==
  ASSUME LifeInv, RequestInta
  PROVE  LifeInv'
<1>1. Doing("irq") /\ UNCHANGED <<card, num_adapters, ptr, handler, work>> /\ int_type' = "inta"
      /\ (\/ Outcome("ok") /\ held' = held \cup {R("irq")}
          \/ Outcome("fail") /\ held' = held)
  BY DEF RequestInta
<1> QED BY <1>1, RequestLife

\* So does it with MSI,
LEMMA RequestMsiLife ==
  ASSUME LifeInv, RequestMsi
  PROVE  LifeInv'
<1>1. Doing("irq") /\ UNCHANGED <<card, num_adapters, int_type, ptr, handler, work>>
      /\ (\/ Outcome("ok") /\ held' = held \cup {R("irq"), R("msi")}
          \/ Outcome("fail") /\ held' = held)
  BY DEF RequestMsi
<1>2. int_type' \in IntTypes \cup {"inta"}
  BY <1>1 DEF LifeInv, TypeOK
<1> QED BY <1>1, <1>2, RequestLife

\* and with MSI-X, which stays enabled: the labels forget it.
LEMMA RequestMsiXLife ==
  ASSUME LifeInv, RequestMsiX
  PROVE  LifeInv'
<1>1. todo # <<>> /\ Head(todo).op = "irq" /\ held' = held \cup {R("msix")} /\ Outcome("fail")
      /\ UNCHANGED <<card, num_adapters, int_type, ptr, handler, work>>
  BY DEF RequestMsiX, Doing
<1>2. phase = "probing" /\ StepFits(card, Head(todo), Now)
  BY <1>1, StepOf
<1>3. LadderFits(Head(todo).fail, Now)
  BY <1>1, <1>2 DEF StepFits
<1>4. /\ phase' = "failing" /\ todo' = Head(todo).fail
      /\ err' = TRUE /\ UNCHANGED <<short, ignored>>
  BY <1>1, OutcomeCases DEF Outcomes
<1>5. \A d : ~Uses(R("msix"), d)
  BY UserTable DEF Stands, R
<1>6. UsersGoFirst'
  <2>1. \A u, d : Uses(u, d) /\ u \in held => d \in held
    BY UsersFirst DEF LifeInv
  <2>2. \A u, d : Uses(u, d) /\ u \in held' => d \in held'
    BY <1>1, <1>5, <2>1
  <2> QED BY <2>2, UsersFirstThen
<1> DEFINE s == Head(todo).fail
           G == Gone(s, Counted)
<1>7. /\ NoUncount(s) /\ Unwinds(s, held, held \cup short, Counted) /\ Forgotten(held \ G)
  BY <1>3 DEF LadderFits, Now, Stage
<1>8. Counted' = Counted
  BY <1>1 DEF Counted
<1>9. Unwinds(s, held', held' \cup short', Counted')
  BY <1>1, <1>4, <1>5, <1>7, <1>8 DEF Unwinds
<1>10. Forgotten(held' \ G)
  <2>1. held' \ G \subseteq (held \ G) \cup {R("msix")} /\ held \ G \subseteq held' \ G
    BY <1>1
  <2>2. \A p, u, n : <<p, u, n>> \in held' \ G <=> <<p, u, n>> \in held \ G
    BY <2>1 DEF R
  <2> HIDE DEF G
  <2>3. \A r \in held' \ G : r[1] \in {"wq", "net", "client", "msix"} \cup Parts
    BY <1>7, <2>1 DEF Forgotten, R
  <2>4. \A u, n : {p \in Parts : <<p, u, n>> \in held' \ G} = {p \in Parts : <<p, u, n>> \in held \ G}
    BY <2>2
  <2> QED BY <1>7, <2>3, <2>4 DEF Forgotten
<1>11. LadderFits(todo', Now')
  BY <1>4, <1>7, <1>8, <1>9, <1>10 DEF LadderFits, Now, Stage
<1>12. R("msix") \in Resources
  BY ResourceNames DEF Singles
<1>13. held' \subseteq Resources /\ held \subseteq held' /\ int_type' \in IntTypes \cup {"inta"}
  BY <1>1, <1>12 DEF LifeInv, TypeOK
<1> QED BY <1>1, <1>2, <1>4, <1>6, <1>11, <1>13, ProbeFails

\* A release keeps the invariant: nothing that is held stands on it, and
\* neither a handler nor the work uses it.
LEMMA ReleaseLife ==
  ASSUME LifeInv, Release
  PROVE  LifeInv'
<1>1. /\ todo # <<>> /\ Head(todo).op = "drop" /\ todo' = Tail(todo)
      /\ Head(todo).res = R("irq") => handler = {}
      /\ Head(todo).res = R("wq") => work # "queued"
      /\ held' = held \ {Head(todo).res} /\ short' = short \ {Head(todo).res}
      /\ UNCHANGED <<card, phase, err, num_adapters, int_type, ptr, handler, work, ignored>>
  BY DEF Release, Doing, Continue
<1>2. phase \in {"failing", "removing"}
  BY <1>1, StepOf
<1>3. Gives(Head(todo), Counted) = {Head(todo).res}
  BY <1>1 DEF Gives
<1> QED BY <1>1, <1>2, <1>3, RungDone

\* flush_workqueue() keeps the invariant.
LEMMA FlushLife ==
  ASSUME LifeInv, Flush
  PROVE  LifeInv'
<1>1. /\ todo # <<>> /\ Head(todo).op = "flush" /\ todo' = Tail(todo)
      /\ UNCHANGED <<card, phase, err, held, short, num_adapters, int_type, ptr, handler, work,
                     ignored>>
  BY DEF Flush, Doing, Continue
<1>2. phase \in {"failing", "removing"}
  BY <1>1, StepOf
<1>3. Gives(Head(todo), Counted) = {}
  BY <1>1 DEF Gives
<1>4. held' = held \ {} /\ short' = short \ {}
  BY <1>1
<1> QED BY <1>1, <1>2, <1>3, <1>4, RungDone

\* So do the steps that set and clear a private pointer.
LEMMA SetPointerLife ==
  ASSUME LifeInv, SetPointer
  PROVE  LifeInv'
<1>1. /\ todo # <<>> /\ todo' = Tail(todo) /\ Taken(Head(todo))
      /\ UNCHANGED <<card, phase, err, held, short, num_adapters, int_type, handler, work,
                     ignored>>
  BY DEF SetPointer, Doing, Continue
<1>2. CASE Head(todo).op = "point" /\ ptr' = ptr \cup {Head(todo).res}
  <2>1. phase = "probing" /\ StepFits(card, Head(todo), Now)
    BY <1>1, <1>2, StepOf
  <2>2. Head(todo).res \in held \cap {R("sti"), R("ir")} \cap Cleared(RemoveSteps[card])
    BY <1>2, <2>1 DEF StepFits, Now, Stage
  <2>3. Takes(Head(todo)) = {} /\ Counts(Head(todo)) = {} /\ Firms(Head(todo)) = {}
        /\ Sures(Head(todo)) = {}
    BY <1>2 DEF Takes, Counts, Firms, Sures, Certain
  <2>4. Easier(Now', After(Now, Head(todo)))
    BY <1>1, <2>1, <2>3, EasierSame
  <2>5. UsersGoFirst'
    BY <1>1 DEF LifeInv, UsersGoFirst
  <2>6. held' = held /\ held \subseteq Resources /\ short' \subseteq Blinds
        /\ num_adapters' \in 0 .. Adapters /\ int_type' \in IntTypes \cup {"inta"}
        /\ ignored' \in 0 .. MaxIgnored
        /\ ptr' \subseteq held' \cap Cleared(RemoveSteps[card]) \cap {R("sti"), R("ir")}
        /\ (card = "cap" /\ R("irq") \in held => R("wq") \in held)
    BY <1>1, <1>2, <2>1, <2>2 DEF LifeInv, TypeOK, Building
  <2> QED BY <1>1, <2>1, <2>4, <2>5, <2>6, ProbeGoesOn
<1>3. CASE Head(todo).op = "clear" /\ ptr' = ptr \ {Head(todo).res}
  <2>1. phase \in {"failing", "removing"}
    BY <1>1, <1>3, StepOf
  <2>2. Gives(Head(todo), Counted) = {}
    BY <1>3 DEF Gives
  <2>3. held' = held \ {} /\ short' = short \ {}
    BY <1>1
  <2> QED BY <1>1, <1>3, <2>1, <2>2, <2>3, RungDone
<1> QED BY <1>2, <1>3 DEF SetPointer, Doing

\* So do those that count an adapter, and count one off.
LEMMA CountLife ==
  ASSUME LifeInv, Count
  PROVE  LifeInv'
<1>1. /\ todo # <<>> /\ todo' = Tail(todo) /\ Taken(Head(todo))
      /\ UNCHANGED <<card, phase, err, held, short, int_type, ptr, handler, work, ignored>>
  BY DEF Count, Doing, Continue
<1>2. num_adapters \in 0 .. Adapters
  BY DEF LifeInv, TypeOK
<1>3. CASE Head(todo).op = "count" /\ num_adapters' = num_adapters + 1
  <2>1. phase = "probing" /\ StepFits(card, Head(todo), Now)
    BY <1>1, <1>3, StepOf
  <2> DEFINE k == Head(todo).res[2]
  <2>2. k \in 0 .. Adapters - 1 /\ 0 .. num_adapters - 1 = 0 .. k - 1
    BY <1>3, <2>1 DEF StepFits, Now, Stage, Counted
  <2>3. Counts(Head(todo)) = {k} /\ Takes(Head(todo)) = {}
    BY <1>3 DEF Counts, Takes
  <2> HIDE DEF k
  <2>4. k = num_adapters
    <3>1. num_adapters \in Nat /\ k \in Nat
      BY <1>2, <2>2, AdaptersAssumption
    <3>2. \A x \in Nat : x < num_adapters <=> x < k
      BY <2>2, <3>1
    <3> QED BY <3>1, <3>2
  <2>5. Counted' = Counted \cup Counts(Head(todo)) /\ num_adapters' \in 0 .. Adapters
    BY <1>2, <1>3, <2>2, <2>3, <2>4, AdaptersAssumption DEF Counted
  <2>6. int_type' \in IntTypes \cup {"inta"}
    BY <1>1 DEF LifeInv, TypeOK
  <2> QED BY <1>1, <1>3, <2>1, <2>3, <2>5, <2>6, TakenLife
<1>4. CASE Head(todo).op = "uncount" /\ num_adapters' = num_adapters - 1
  <2>1. phase \in {"failing", "removing"}
    BY <1>1, <1>4, StepOf
  <2>2. /\ todo \in Seq(Releases) /\ Tail(todo) \in Seq(Releases)
        /\ Unwinds(todo, held, held \cup short, Counted)
    BY <1>1, <2>1, Running
  <2>3. UncountInv' /\ num_adapters' \in 0 .. Adapters
    BY <1>1, <1>2, <1>4, <2>1, <2>2, UncountHead DEF LifeInv, Releasing
  <2>4. Gives(Head(todo), Counted) = {}
    BY <1>4 DEF Gives
  <2>5. /\ Unwinds(Tail(todo), held \ {}, (held \cup short) \ {}, Counted)
        /\ Gone(todo, Counted) = {} \cup Gone(Tail(todo), Counted)
    BY <1>1, <2>2, <2>4, UnwindsTail
  <2>6. \A n \in 1 .. Len(Tail(todo)) : Tail(todo)[n].op # "dvb_exit"
    <3>1. Orderly(todo, Counted)
      BY <2>2 DEF Unwinds
    <3>2. 1 \in 1 .. Len(todo) /\ todo[1].op = "uncount"
      BY <1>1, <1>4, <2>2, AfterHead
    <3>3. \A n \in 1 .. Len(todo) : todo[n].op # "dvb_exit"
      BY <3>1, <3>2 DEF Orderly
    <3>4. \A n \in 1 .. Len(Tail(todo)) : n + 1 \in 1 .. Len(todo) /\ Tail(todo)[n] = todo[n + 1]
      BY <1>1, <2>2, AfterHead
    <3> QED BY <3>3, <3>4
  <2>7. /\ Unwinds(Tail(todo), held, held \cup short, Counted')
        /\ Gone(Tail(todo), Counted') = Gone(todo, Counted)
    BY <2>5, <2>6, UnwindsAnyCount
  <2>8. QueueFirst(todo, Counted) /\ R("wq") \in held => QueueFirst(Tail(todo), Counted')
    <3>1. QueueFirst(todo, Counted) => QueueFirst(Tail(todo), Counted)
      BY <1>1, <2>2, <2>4, QueueFirstTail
    <3> QED BY <3>1, <2>6, QueueFirstAnyCount
  <2>9. Cleared(todo) = Cleared(Tail(todo))
    BY <1>1, <1>4, <2>2, ClearedTail
  <2>10. UsersGoFirst'
    BY <1>1 DEF LifeInv, UsersGoFirst
  <2>11. Unwinds(todo', held', held' \cup short', Counted')
    BY <1>1, <2>7
  <2>12. phase = "failing" => Forgotten(held' \ Gone(todo', Counted'))
    BY <1>1, <2>7 DEF LifeInv, Releasing
  <2>13. phase = "removing" =>
           /\ held' \subseteq Gone(todo', Counted') /\ ptr' \subseteq Cleared(todo')
           /\ card = "cap" => R("wq") \notin held' \/ QueueFirst(todo', Counted')
    BY <1>1, <2>7, <2>8, <2>9 DEF LifeInv, Releasing
  <2>14. held \ held' = {}
    BY <1>1
  <2> QED BY <1>1, <2>1, <2>2, <2>3, <2>10, <2>11, <2>12, <2>13, <2>14, ReleaseGoesOn
<1> QED BY <1>3, <1>4 DEF Count, Doing

-----------------------------------------------------------------------------
(* The loop of saa716x_dvb_exit() is entered.                              *)

\* Steps that do not give back the device structure may come before.
LEMMA QueueFirstAfter ==
  ASSUME NEW s \in Seq(Releases), NEW t \in Seq(Releases), NEW C, QueueFirst(t, C),
         \A n \in 1 .. Len(s) : R("dev") \notin Gives(s[n], C)
  PROVE  QueueFirst(s \o t, C)
<1> SUFFICES ASSUME NEW n \in 1 .. Len(s \o t), R("dev") \in Gives((s \o t)[n], C)
             PROVE  \E m \in 1 .. n - 1 : R("wq") \in Gives((s \o t)[m], C)
  BY DEF QueueFirst
<1>1. n - Len(s) \in 1 .. Len(t) /\ (s \o t)[n] = t[n - Len(s)]
  BY ConcatParts
<1>2. PICK m \in 1 .. (n - Len(s)) - 1 : R("wq") \in Gives(t[m], C)
  BY <1>1 DEF QueueFirst
<1>3. Len(s) \in Nat /\ m \in 1 .. Len(t) /\ n \in Nat
  BY <1>1, <1>2, ConcatParts
<1>4. (s \o t)[Len(s) + m] = t[m]
  BY <1>3, ConcatParts
<1>5. Len(s) + m \in 1 .. n - 1
  BY <1>2, <1>3
<1> QED BY <1>2, <1>4, <1>5

\* saa716x_dvb_exit() enters its loop over the adapters counted.
LEMMA EnterDvbExitLife ==
  ASSUME LifeInv, EnterDvbExit
  PROVE  LifeInv'
<1> DEFINE L == ExitLoop(num_adapters)
           T == Tail(todo)
<1>1. /\ todo # <<>> /\ Head(todo).op = "dvb_exit" /\ todo' = L \o T
      /\ UNCHANGED <<card, phase, err, held, short, num_adapters, int_type, ptr, handler, work,
                     ignored>>
  BY DEF EnterDvbExit, Doing, ExitLoop
<1>2. num_adapters \in 0 .. Adapters /\ num_adapters \in Nat
  BY AdaptersAssumption DEF LifeInv, TypeOK
<1>3. phase \in {"failing", "removing"}
  BY <1>1, StepOf
<1>4. /\ todo \in Seq(Releases) /\ T \in Seq(Releases)
      /\ Unwinds(todo, held, held \cup short, Counted)
  BY <1>1, <1>3, Running
<1>5. /\ L \in Seq(Releases)
      /\ \A k \in 1 .. Len(L) : L[k].op \in {"drop", "uncount"}
      /\ Gone(L, Counted) = PerAdapter \X (0 .. num_adapters - 1)
  BY <1>2, ExitLoopRungs DEF Rungs
<1>6. L \o T \in Seq(Releases) /\ Unwinds(L \o T, held, held \cup short, Counted)
      /\ Gone(L \o T, Counted) = Gone(todo, Counted)
  BY <1>1, <1>2, <1>4, EnterLoop DEF Counted
<1>7. /\ Len(L) = num_adapters * 11 /\ num_adapters * 11 \in Nat
      /\ \A k \in 1 .. num_adapters * 11 :
           /\ Round(11, k) \in 1 .. num_adapters /\ Turn(11, k) \in 1 .. 11
           /\ k = Pos(11, Round(11, k), Turn(11, k))
           /\ L[k] = AdapterExit(Round(11, k) - 1)[Turn(11, k)]
      /\ \A p \in 1 .. num_adapters, j \in 1 .. 11 :
           /\ Pos(11, p, j) \in 1 .. num_adapters * 11
           /\ Round(11, Pos(11, p, j)) = p /\ Turn(11, Pos(11, p, j)) = j
  BY <1>2, ExitLoopSteps
<1>8. \A n \in 1 .. Len(T) : T[n].op # "uncount"
  <2>1. Orderly(todo, Counted)
    BY <1>4 DEF Unwinds
  <2>2. 1 \in 1 .. Len(todo) /\ todo[1].op = "dvb_exit"
    BY <1>1, <1>4, AfterHead
  <2>3. \A n \in 1 .. Len(todo) : todo[n].op # "uncount"
    BY <2>1, <2>2 DEF Orderly
  <2>4. \A n \in 1 .. Len(T) : n + 1 \in 1 .. Len(todo) /\ T[n] = todo[n + 1]
    BY <1>1, <1>4, AfterHead
  <2> QED BY <2>3, <2>4
<1>9. UncountInv'
  <2> DEFINE N == num_adapters * 11
             us == {n \in 1 .. Len(L \o T) : (L \o T)[n].op = "uncount"}
  <2>1. \A i \in 0 .. Adapters - 1 :
          /\ \A j \in 1 .. 10 : AdapterExit(i)[j].op = "drop"
          /\ AdapterExit(i)[11].op = "uncount" /\ AdapterExit(i)[11].res = <<"adapter", i>>
    BY AdapterExitSteps
  <2>10. \A i \in 0 .. Adapters - 1, j \in 1 .. 11 : AdapterExit(i)[j].op = "uncount" => j = 11
    <3>1. \A j \in 1 .. 11 : j = 11 \/ j \in 1 .. 10
      OBVIOUS
    <3> QED BY <2>1, <3>1
  <2>2. \A p \in 1 .. num_adapters : p - 1 \in 0 .. Adapters - 1 /\ p - 1 \in 0 .. num_adapters - 1
    BY <1>2, AdaptersAssumption
  <2>7. /\ Len(L) = N
        /\ \A n \in 1 .. Len(L) : n \in 1 .. Len(L \o T) /\ (L \o T)[n] = L[n]
        /\ \A n \in 1 .. Len(L \o T) : n \in 1 .. Len(L) \/ n - Len(L) \in 1 .. Len(T)
    <3>1. L \in Seq(Releases) /\ T \in Seq(Releases)
      BY <1>4, <1>5
    <3>2. Len(L) = N
      BY <1>7
    <3> HIDE DEF L, T, N
    <3> QED BY <3>1, <3>2, ConcatParts
  <2>9. \A n \in 1 .. Len(L \o T) : n \notin 1 .. Len(L) => (L \o T)[n] = T[n - Len(L)]
    <3>1. L \in Seq(Releases) /\ T \in Seq(Releases)
      BY <1>4, <1>5
    <3> HIDE DEF L, T
    <3> QED BY <3>1, ConcatParts
  <2>8. \A n \in 1 .. N : n \in 1 .. Len(L \o T) /\ (L \o T)[n] = L[n]
    BY <2>7
  <2>3. ASSUME NEW n \in us
        PROVE  /\ n \in 1 .. N /\ Round(11, n) \in 1 .. num_adapters /\ n = Pos(11, Round(11, n), 11)
               /\ (L \o T)[n].res[2] = Round(11, n) - 1
    <3>1. n \in 1 .. N /\ (L \o T)[n] = L[n]
      <4>1. n \in 1 .. Len(L \o T) /\ (L \o T)[n].op = "uncount"
        OBVIOUS
      <4>2. n \in 1 .. Len(L) \/ (n - Len(L) \in 1 .. Len(T) /\ (L \o T)[n] = T[n - Len(L)])
        BY <4>1, <2>7, <2>9
      <4>3. n \in 1 .. Len(L)
        BY <4>1, <4>2, <1>8
      <4> QED BY <4>3, <2>7, <2>8
    <3>2. Round(11, n) \in 1 .. num_adapters /\ Turn(11, n) \in 1 .. 11
          /\ n = Pos(11, Round(11, n), Turn(11, n))
          /\ L[n] = AdapterExit(Round(11, n) - 1)[Turn(11, n)]
      BY <1>7, <3>1
    <3>3. Round(11, n) - 1 \in 0 .. Adapters - 1
      BY <2>2, <3>2
    <3>4. L[n].op = "uncount"
      BY <3>1
    <3>5. Turn(11, n) = 11
      BY <2>10, <3>2, <3>3, <3>4
    <3>6. L[n].res = <<"adapter", Round(11, n) - 1>>
      BY <2>1, <3>2, <3>3, <3>5
    <3> QED BY <3>1, <3>2, <3>5, <3>6
  <2>4. ASSUME NEW p \in 1 .. num_adapters
        PROVE  Pos(11, p, 11) \in us /\ Round(11, Pos(11, p, 11)) = p
    <3> DEFINE k == Pos(11, p, 11)
    <3>1. k \in 1 .. N /\ Round(11, k) = p /\ Turn(11, k) = 11
      BY <1>7
    <3> HIDE DEF k
    <3>2. L[k] = AdapterExit(p - 1)[11]
      BY <1>7, <3>1
    <3>3. L[k].op = "uncount"
      BY <2>1, <2>2, <3>2
    <3>4. k \in 1 .. Len(L \o T) /\ (L \o T)[k] = L[k]
      BY <2>8, <3>1
    <3>5. k \in us
      BY <3>3, <3>4
    <3> QED BY <3>1, <3>5 DEF k
  <2> HIDE DEF us, N, L, T
  <2>5. {(L \o T)[n].res[2] : n \in us} = (num_adapters - num_adapters) .. (num_adapters - 1)
    <3>1. ASSUME NEW n \in us PROVE (L \o T)[n].res[2] \in 0 .. num_adapters - 1
      BY <2>2, <2>3
    <3>2. ASSUME NEW y \in 0 .. num_adapters - 1 PROVE \E n \in us : (L \o T)[n].res[2] = y
      <4>1. y + 1 \in 1 .. num_adapters /\ (y + 1) - 1 = y
        BY <1>2
      <4>2. Pos(11, y + 1, 11) \in us /\ Round(11, Pos(11, y + 1, 11)) = y + 1
        BY <2>4, <4>1
      <4> QED BY <2>3, <4>1, <4>2
    <3>3. num_adapters - num_adapters = 0
      BY <1>2
    <3> QED BY <3>1, <3>2, <3>3
  <2>6. \A m, n \in us : m < n => (L \o T)[m].res[2] < (L \o T)[n].res[2]
    <3> SUFFICES ASSUME NEW m \in us, NEW n \in us, m < n
                 PROVE  (L \o T)[m].res[2] < (L \o T)[n].res[2]
      OBVIOUS
    <3> DEFINE p == Round(11, m)
               q == Round(11, n)
    <3>1. /\ p \in 1 .. num_adapters /\ q \in 1 .. num_adapters
          /\ m = Pos(11, p, 11) /\ n = Pos(11, q, 11)
          /\ (L \o T)[m].res[2] = p - 1 /\ (L \o T)[n].res[2] = q - 1
      BY <2>3
    <3> HIDE DEF p, q
    <3>2. p \in Nat \ {0} /\ q \in Nat \ {0}
      BY <3>1, <1>2
    <3>3. p < q \/ p = q
      <4>1. Pos(11, p, 11) <= Pos(11, q, 11)
        BY <3>1, <3>2 DEF Pos
      <4> QED BY <3>2, <4>1 DEF Pos
    <3>4. p # q
      BY <3>1, <3>2 DEF Pos
    <3> QED BY <3>1, <3>2, <3>3, <3>4
  <2> QED BY <1>1, <1>2, <2>5, <2>6 DEF UncountInv, us
<1>10. Cleared(todo) \subseteq Cleared(L \o T)
  <2>1. Cleared(todo) = Cleared(T)
    BY <1>1, <1>4, ClearedTail
  <2>2. ASSUME NEW r \in Cleared(T) PROVE r \in Cleared(L \o T)
    <3>1. PICK n \in 1 .. Len(T) : T[n].op = "clear" /\ T[n].res = r
      BY DEF Cleared
    <3>2. Len(L) + n \in 1 .. Len(L \o T) /\ (L \o T)[Len(L) + n] = T[n]
      BY <1>4, <1>5, ConcatParts
    <3> HIDE DEF L, T
    <3> QED BY <3>1, <3>2 DEF Cleared
  <2> QED BY <2>1, <2>2
<1>11. QueueFirst(todo, Counted) => QueueFirst(L \o T, Counted)
  <2>1. R("wq") \notin Gives(Head(todo), Counted)
    BY <1>1 DEF Gives, R, PerAdapter
  <2>2. QueueFirst(todo, Counted) => QueueFirst(T, Counted)
    BY <1>1, <1>4, <2>1, QueueFirstTail
  <2>3. R("dev") \notin Gone(L, Counted)
    BY <1>5 DEF R, PerAdapter
  <2>4. \A n \in 1 .. Len(L) : R("dev") \notin Gives(L[n], Counted)
    BY <2>3 DEF Gone
  <2> QED BY <1>4, <1>5, <2>2, <2>4, QueueFirstAfter
<1> HIDE DEF L, T
<1>12. Counted' = Counted /\ UsersGoFirst'
  BY <1>1 DEF Counted, LifeInv, UsersGoFirst
<1>13. Unwinds(todo', held', held' \cup short', Counted') /\ todo' \in Seq(Releases)
  BY <1>1, <1>6, <1>12
<1>14. phase = "failing" => Forgotten(held' \ Gone(todo', Counted'))
  BY <1>1, <1>6, <1>12 DEF LifeInv, Releasing
<1>15. phase = "removing" =>
         /\ held' \subseteq Gone(todo', Counted') /\ ptr' \subseteq Cleared(todo')
         /\ card = "cap" => R("wq") \notin held' \/ QueueFirst(todo', Counted')
  BY <1>1, <1>6, <1>10, <1>11, <1>12 DEF LifeInv, Releasing
<1> QED BY <1>1, <1>2, <1>3, <1>9, <1>12, <1>13, <1>14, <1>15, ReleaseGoesOn

\* Every step keeps the invariant.
LEMMA NextLife ==
  ASSUME LifeInv, [Next]_vars
  PROVE  LifeInv'
<1>1. CASE UNCHANGED vars
  BY <1>1, HuskLife
<1>2. CASE Next
  BY <1>2, HuskLife, ProbeCardLife, RemoveCardLife, ReturnLife, SkipLife, AcquireLife,
     CheckStepLife,
     RequestIntaLife, RequestMsiLife, RequestMsiXLife, ReleaseLife, FlushLife,
     EnterDvbExitLife, CountLife, SetPointerLife, HandlerEnterLife, HandlerIrLife,
     HandlerQueueLife, HandlerLeaveLife, WorkDoneLife DEF Next, Husk
<1> QED BY <1>1, <1>2

-----------------------------------------------------------------------------
(* Theorems.                                                               *)

\* The invariant holds in every state: what a probe function has left to do
\* builds on what is held, and what a ladder or a remove function has left to
\* do unwinds it, on every path through the four drivers, whatever fails and
\* whenever the interrupt handler and the receiver's work run.
THEOREM LifeHolds == Spec => []LifeInv
<1>1. Init => LifeInv
  BY InitLife
<1>2. LifeInv /\ [Next]_vars => LifeInv'
  BY NextLife
<1> QED BY <1>1, <1>2, PTL DEF Spec

\* Probe and remove work on known resources, and num_adapters is never
\* negative nor more than the card has, for any number of adapters and DMA
\* buffers.
THEOREM LifeTypes == Spec => []TypeOK
<1>1. LifeInv => TypeOK
  BY DEF LifeInv
<1> QED BY <1>1, LifeHolds, PTL

\* But for the pairs OutOfOrder names, nothing outlives what it uses, and nothing
\* is there before it: nodes, adapters, the handler and the DMA units are
\* registered after and released before the buffers, buses and registers they use,
\* on every path of the probe and remove functions of the four drivers.
THEOREM NothingOutlivesItsBase == Spec => []UsersGoFirst
<1>1. LifeInv => UsersGoFirst
  BY DEF LifeInv
<1> QED BY <1>1, LifeHolds, PTL

\* saa716x_cap_pci_remove() and its like give back everything a probe
\* function took, whatever was missing; a probe function that failed gives
\* back all but what its labels forget: the work queue, the network interface
\* and the I2C clients of an adapter, MSI-X, and the buffers of the one DMA
\* unit that failed.
THEOREM NothingKept == Spec => []ReturnsAll
<1>1. LifeInv => ReturnsAll
  BY DEF LifeInv
<1> QED BY <1>1, LifeHolds, PTL

\* No label and no remove function releases what is not there: each jump of a
\* probe function enters its labels at the rung that fits, and
\* saa716x_dvb_exit() stops at the adapters that came up. Excepted are the
\* failures the code went on after.
THEOREM NothingFreedTwice == Spec => []ReleasedOnce
<1>1. ASSUME LifeInv, Doing("drop") PROVE Head(todo).res \in held \cup short
  <2>1. todo # <<>> /\ Head(todo).op = "drop" /\ Head(todo).only \subseteq held \cup short
    BY <1>1 DEF Doing, Taken
  <2>2. phase \in {"failing", "removing"} /\ WellFormed(Head(todo))
    BY <1>1, <2>1, StepOf
  <2>3. /\ todo \in Seq(Releases) /\ Unwinds(todo, held, held \cup short, Counted)
    BY <1>1, <2>1, <2>2, Running
  <2>4. Asks(Head(todo), Counted) \subseteq held \cup short
    BY <2>1, <2>3, UnwindsTail
  <2> QED BY <2>1, <2>2, <2>4 DEF Asks, WellFormed
<1>2. LifeInv => ReleasedOnce
  BY <1>1 DEF ReleasedOnce
<1> QED BY <1>2, LifeHolds, PTL

\* The interrupt handler never finds the device structure or the registers
\* gone, and nothing else it works on until a label or a remove function
\* begins: free_irq() comes before all of them are released.
THEOREM HandlerKeepsDevice == Spec => []HandlerHasDevice
<1>1. LifeInv => HandlerHasDevice
  BY HandlerStands DEF LifeInv, HandlerInv, HandlerHasDevice, Building
<1> QED BY <1>1, LifeHolds, PTL

\* The receiver's work on its queue finds the device structure in place, but
\* after a failed probe: destroy_workqueue() drains the queue before the remove
\* function of the capture card frees the structure. Work outside the queue, which
\* the handler puts there between destroy_workqueue() and free_irq(), is not
\* covered; there is none while the card is probed or bound.
THEOREM WorkKeepsDevice == Spec => []ReceiverWork
<1>1. LifeInv => ReceiverWork
  BY DEF LifeInv, WorkInv, ReceiverWork
<1> QED BY <1>1, LifeHolds, PTL
=============================================================================
