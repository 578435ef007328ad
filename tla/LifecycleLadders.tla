-------------------------- MODULE LifecycleLadders --------------------------
(***************************************************************************)
(* What is true of the probe and remove functions as they are written, for *)
(* every number of DVB adapters and of DMA buffers: each label and each    *)
(* remove function is a ladder that gives back users before what they stand*)
(* on and nothing twice; each step of a probe function fails into the      *)
(* ladder that gives back what may be held then, but for what the labels   *)
(* forget; and at the end the remove function gives back everything.       *)
(*                                                                         *)
(* Ladder(s, C, G, A): the steps s are a ladder that gives back G and asks *)
(* for A. Path(crd, s, a, d): the steps s fit from stage a on, and add d.  *)
(* Both are built up from single steps by a lemma for a sequence after a   *)
(* sequence and one for a loop. No lemma here is about a state.            *)
(***************************************************************************)
EXTENDS LifecycleInvariant, SequenceTheorems, TLAPS

-----------------------------------------------------------------------------
(* Who stands on whom.                                                     *)

\* Needs but for OutOfOrder, by the thing used.
Stands(u, d) ==
  \/ d[1] = "mmio" /\ u[1] \in {"irq", "debugfs", "i2c", "vip", "aip", "fgpi", "sti"}
  \/ d[1] = "dev" /\ u[1] \in {"irq", "drvdata", "ir"}
  \/ d[1] = "bar" /\ u[1] = "mmio"
  \/ d[1] = "pci" /\ u[1] \in {"bar", "msi"}
  \/ d[1] = "v4l2" /\ u[1] \in {"subdev", "video"}
  \/ d[1] \in {"ctrl", "vip"} /\ u[1] = "video"
  \/ d[1] = "aip" /\ u[1] = "alsa"
  \/ d[1] = "sti" /\ u[1] \in {"videodev", "audio", "osd", "iobuf"}
  \/ d = <<"adapter", 0>> /\ u[1] \in {"videodev", "audio", "osd"}
  \/ d[1] = "adapter" /\ u[1] \in {"dmx", "frontend"} /\ u[2] = d[2]
  \/ d[1] = "iobuf" /\ u[1] = "fifowq"
  \/ d[1] = "i2c" /\ u[1] \in {"subdev", "fe"}
  \/ d[1] = "dmx" /\ u[1] \in {"dmxdev", "fehw", "femem", "fgpi"} /\ u[2] = d[2]
  \/ d[1] = "fe" /\ u[1] = "frontend" /\ u[2] = d[2]
  \/ d[1] = "ptab" /\ u[1] = d[2] /\ u[1] \in {"vip", "aip"}
  \/ d[1] = "sgmap" /\ u[1] = "aip" /\ d[2] = "aip"
  \/ d[1] = "page" /\ u[1] = "ptab" /\ u[2] = d[2] /\ u[3] = d[3]
  \/ d[1] \in {"list", "mem"} /\ u[1] = "sgmap" /\ u[2] = d[2] /\ u[3] = d[3]

\* Whoever uses something is in the table.
LEMMA UserTable ==
  ASSUME NEW u, NEW d, Uses(u, d)
  PROVE  Stands(u, d)
<1>1. <<u, d>> \in Needs /\ <<u[1], d[1]>> \notin Misordered
  BY DEF Uses, OutOfOrder
<1>2. /\ ~(u[1] = "irq" /\ d[1] \in {"wq", "vip", "aip", "fgpi", "sti", "ir", "fifowq", "vbuf"})
      /\ ~(u[1] = "wq" /\ d[1] \in {"subdev", "dev"}) /\ ~(u[1] = "dmxdev" /\ d[1] = "fgpi")
      /\ ~(u[1] = "net" /\ d[1] \in {"fgpi", "dmx"})
      /\ ~(u[1] \in {"frontend", "fe"} /\ d[1] = "client")
      /\ ~(u[1] = "videodev" /\ d[1] \in {"fifowq", "vbuf"})
      /\ ~(u[1] = "client" /\ d[1] = "i2c") /\ ~(u[1] = "msix" /\ d[1] = "pci")
  BY <1>1 DEF Misordered
<1> QED BY <1>1, <1>2 DEF Needs, CardNeeds, AdapterNeeds, PartNeeds, Stands, R

-----------------------------------------------------------------------------
(* One step of a sequence of steps.                                        *)

\* A stage nothing was done at.
LEMMA AtFirst ==
  ASSUME NEW s, NEW M, NEW X, NEW F, NEW C
  PROVE  At(s, Stage(M, X, F, C), 1) = Stage(M, X, F, C)
<1>1. 1 .. 1 - 1 = {}
  OBVIOUS
<1>2. At(s, Stage(M, X, F, C), 1)
        = Stage(M \cup UNION {}, X \cup UNION {}, F \cup UNION {}, C \cup UNION {})
  BY <1>1 DEF At, Stage
<1> QED BY <1>2

-----------------------------------------------------------------------------
(* Loops.                                                                  *)

\* Quotient and remainder of a division.
LEMMA DivMod ==
  ASSUME NEW m \in Nat \ {0}, NEW k \in Nat
  PROVE  /\ k \div m \in Nat /\ k % m \in 0 .. m - 1
         /\ k = (k \div m) * m + (k % m)
OBVIOUS

\* They are the only ones.
LEMMA DivModOf ==
  ASSUME NEW m \in Nat \ {0}, NEW q \in Nat, NEW j \in 0 .. m - 1
  PROVE  (q * m + j) \div m = q /\ (q * m + j) % m = j
OBVIOUS

\* The next multiple of m is m further on.
LEMMA TimesLess ==
  ASSUME NEW m \in Nat \ {0}, NEW p \in Nat, NEW q \in Nat, p < q
  PROVE  p * m + m <= q * m
OBVIOUS

\* Multiples of naturals are naturals.
LEMMA TimesNat ==
  ASSUME NEW m \in Nat, NEW q \in Nat
  PROVE  q * m \in Nat
OBVIOUS

\* Below q * m the quotient is below q.
LEMMA DivModBelow ==
  ASSUME NEW m \in Nat \ {0}, NEW q \in Nat, NEW k \in Nat, k < q * m
  PROVE  k \div m < q
OBVIOUS

\* In a loop whose rounds have m steps: where step j of round p is, and to which
\* round step k belongs.
Pos(m, p, j) == (p - 1) * m + j
Round(m, k)  == ((k - 1) \div m) + 1
Turn(m, k)   == ((k - 1) % m) + 1

\* Each step of a loop of N rounds belongs to one of them.
LEMMA RoundAndTurn ==
  ASSUME NEW N \in Nat, NEW m \in Nat \ {0}, NEW k \in 1 .. N * m
  PROVE  Round(m, k) \in 1 .. N /\ Turn(m, k) \in 1 .. m /\ k = Pos(m, Round(m, k), Turn(m, k))
<1>1. N * m \in Nat
  BY TimesNat
<1>2. k - 1 \in Nat /\ k - 1 < N * m
  BY <1>1
<1>3. (k - 1) \div m < N
  BY <1>2, DivModBelow
<1> DEFINE q == (k - 1) \div m
           r == (k - 1) % m
<1>4. q \in Nat /\ q < N /\ r \in 0 .. m - 1 /\ k - 1 = q * m + r
  BY <1>2, <1>3, DivMod
<1>5. q * m \in Nat
  BY <1>4, TimesNat
<1> HIDE DEF q, r
<1>6. q + 1 - 1 = q
  BY <1>4
<1>7. k = q * m + (r + 1)
  <2> DEFINE x == q * m
  <2>1. k - 1 = x + r /\ x \in Nat /\ k \in Nat /\ r \in Nat
    BY <1>1, <1>4, <1>5
  <2> HIDE DEF x
  <2>2. k = x + (r + 1)
    BY <2>1
  <2> QED BY <2>2 DEF x
<1>8. q + 1 \in 1 .. N /\ r + 1 \in 1 .. m /\ k = Pos(m, q + 1, r + 1)
  BY <1>4, <1>6, <1>7 DEF Pos
<1> QED BY <1>8 DEF q, r, Round, Turn

\* Each step of a round is one of the loop, and belongs to that round.
LEMMA PosInLoop ==
  ASSUME NEW N \in Nat, NEW m \in Nat \ {0}, NEW p \in 1 .. N, NEW j \in 1 .. m
  PROVE  Pos(m, p, j) \in 1 .. N * m /\ Round(m, Pos(m, p, j)) = p /\ Turn(m, Pos(m, p, j)) = j
<1>1. p - 1 \in Nat /\ j - 1 \in 0 .. m - 1 /\ p - 1 < N
  OBVIOUS
<1>2. (p - 1) * m \in Nat /\ (p - 1) * m + m <= N * m /\ N * m \in Nat
  BY <1>1, TimesNat, TimesLess
<1>3. ((p - 1) * m + (j - 1)) \div m = p - 1 /\ ((p - 1) * m + (j - 1)) % m = j - 1
  BY <1>1, DivModOf
<1>4. ((p - 1) * m + j) - 1 = (p - 1) * m + (j - 1)
  BY <1>2
<1> DEFINE x == (p - 1) * m
           z == N * m
<1>5. /\ x \in Nat /\ z \in Nat /\ x + m <= z
      /\ (x + j) - 1 = x + (j - 1)
      /\ (x + (j - 1)) \div m = p - 1 /\ (x + (j - 1)) % m = j - 1
  BY <1>2, <1>3, <1>4
<1> HIDE DEF x, z
<1>6. /\ x + j \in 1 .. z
      /\ (((x + j) - 1) \div m) + 1 = p
      /\ (((x + j) - 1) % m) + 1 = j
  <2>1. x + j \in 1 .. z
    BY <1>5
  <2>2. (p - 1) + 1 = p /\ (j - 1) + 1 = j
    OBVIOUS
  <2> QED BY <2>1, <2>2, <1>5
<1> QED BY <1>6 DEF x, z, Pos, Round, Turn

\* N rounds of m steps out of S.
Loop(rounds, S, N, m) ==
  /\ N \in Nat /\ m \in Nat \ {0} /\ rounds \in [1 .. N -> Seq(S)]
  /\ \A p \in 1 .. N : Len(rounds[p]) = m

\* The steps of a loop.
LEMMA InTurnSteps ==
  ASSUME NEW S, NEW N, NEW m, NEW rounds, Loop(rounds, S, N, m)
  PROVE  /\ InTurn(rounds) \in Seq(S) /\ N * m \in Nat /\ Len(InTurn(rounds)) = N * m
         /\ \A k \in 1 .. N * m : InTurn(rounds)[k] = rounds[Round(m, k)][Turn(m, k)]
<1> DEFINE s == InTurn(rounds)
<1>a. /\ N \in Nat /\ m \in Nat \ {0} /\ rounds \in [1 .. N -> Seq(S)]
      /\ \A p \in 1 .. N : Len(rounds[p]) = m
  BY DEF Loop
<1> USE <1>a
<1>1. rounds \in Seq(Seq(S)) /\ Len(rounds) = N
  OBVIOUS
<1>2. CASE N = 0
  <2>1. s = <<>>
    BY <1>1, <1>2, EmptySeq DEF InTurn
  <2>2. N * m = 0
    BY <1>2
  <2> QED BY <1>2, <2>1, <2>2, EmptySeq
<1>3. CASE N # 0
  <2>1. rounds # <<>> /\ 1 \in 1 .. N /\ Len(rounds[1]) = m
    BY <1>1, <1>3, EmptySeq
  <2>2. s = [k \in 1 .. N * m |-> rounds[Round(m, k)][Turn(m, k)]]
    BY <2>1, <1>1 DEF InTurn, Round, Turn
  <2>3. N * m \in Nat
    BY TimesNat
  <2> DEFINE y == N * m
  <2>4. \A k \in 1 .. y : Round(m, k) \in 1 .. N /\ Turn(m, k) \in 1 .. m
    BY RoundAndTurn
  <2>5. \A p \in 1 .. N, j \in 1 .. m : rounds[p][j] \in S
    OBVIOUS
  <2> HIDE DEF s
  <2>6. y \in Nat /\ s = [k \in 1 .. y |-> rounds[Round(m, k)][Turn(m, k)]]
    BY <2>2, <2>3
  <2> HIDE DEF y
  <2>7. \A k \in 1 .. y : rounds[Round(m, k)][Turn(m, k)] \in S
    BY <2>4, <2>5
  <2>8. s \in Seq(S) /\ Len(s) = y
    BY <2>6, <2>7
  <2>9. \A k \in 1 .. y : s[k] = rounds[Round(m, k)][Turn(m, k)]
    BY <2>6
  <2> QED BY <2>6, <2>8, <2>9 DEF s, y
<1> QED BY <1>2, <1>3

\* Which of two steps of a loop comes first.
LEMMA InTurnOrder ==
  ASSUME NEW m \in Nat \ {0}, NEW p \in Nat \ {0}, NEW q \in Nat \ {0},
         NEW i \in 1 .. m, NEW j \in 1 .. m
  PROVE  /\ Pos(m, p, i) \in Nat
         /\ p < q => Pos(m, p, i) < Pos(m, q, j)
         /\ Pos(m, p, i) <= Pos(m, q, j) => p < q \/ (p = q /\ i <= j)
<1>1. p - 1 \in Nat /\ q - 1 \in Nat /\ (p - 1) * m \in Nat /\ (q - 1) * m \in Nat
  BY TimesNat
<1>2. p < q => (p - 1) * m + m <= (q - 1) * m
  BY <1>1, TimesLess
<1>3. q < p => (q - 1) * m + m <= (p - 1) * m
  BY <1>1, TimesLess
<1> DEFINE x == (p - 1) * m
           y == (q - 1) * m
<1>4. x \in Nat /\ y \in Nat /\ (p < q => x + m <= y) /\ (q < p => y + m <= x)
      /\ (p = q => x = y)
  BY <1>1, <1>2, <1>3
<1> HIDE DEF x, y
<1>5. /\ x + i \in Nat
      /\ p < q => x + i < y + j
      /\ x + i <= y + j => p < q \/ (p = q /\ i <= j)
  BY <1>4
<1> QED BY <1>5 DEF x, y, Pos

-----------------------------------------------------------------------------
(* Ladders, built up.                                                      *)

\* A ladder that gives back G, and asks for nothing but A.
Rungs(s, C, G, A) ==
  /\ s \in Seq(Releases)
  /\ \A n \in 1 .. Len(s) : WellFormed(s[n])
  /\ Orderly(s, C)
  /\ Gone(s, C) = G /\ Asked(s, C) \subseteq A

\* One that a label or a remove function may begin with.
Ladder(s, C, G, A) == Rungs(s, C, G, A) /\ NoUncount(s)

\* A single step is a ladder.
LEMMA OneRung ==
  ASSUME NEW step \in Releases, WellFormed(step), NEW C
  PROVE  Rungs(<<step>>, C, Gives(step, C), Asks(step, C))
<1> DEFINE s == <<step>>
<1>1. s \in Seq(Releases) /\ Len(s) = 1 /\ s[1] = step /\ 1 .. Len(s) = {1}
  OBVIOUS
<1> HIDE DEF s
<1>2. Gone(s, C) = Gives(step, C) /\ Asked(s, C) = Asks(step, C)
  BY <1>1 DEF Gone, Asked
<1>3. Orderly(s, C)
  <2>1. step.op = "dvb_exit" => step.op # "uncount"
    OBVIOUS
  <2> QED BY <1>1, <2>1 DEF Orderly
<1> QED BY <1>1, <1>2, <1>3 DEF Rungs, s

\* Two ladders one after the other are a ladder when the second gives back
\* neither what the first does nor what stands on it.
LEMMA RungsConcat ==
  ASSUME NEW s, NEW t, NEW C, NEW G, NEW H, NEW A, NEW B,
         Rungs(s, C, G, A), Rungs(t, C, H, B), G \cap H = {},
         \A u \in H, d \in G : ~Uses(u, d),
         \A m \in 1 .. Len(s), n \in 1 .. Len(t) :
           /\ s[m].op = "dvb_exit" => t[n].op # "uncount"
           /\ t[n].op = "dvb_exit" => s[m].op # "uncount"
  PROVE  Rungs(s \o t, C, G \cup H, A \cup B)
<1> DEFINE st == s \o t
<1>1. s \in Seq(Releases) /\ t \in Seq(Releases)
  BY DEF Rungs
<1>2. /\ Len(s) \in Nat /\ Len(t) \in Nat
      /\ st \in Seq(Releases) /\ Len(st) = Len(s) + Len(t)
      /\ \A i \in 1 .. Len(s) : i \in 1 .. Len(st) /\ st[i] = s[i]
      /\ \A i \in 1 .. Len(t) : Len(s) + i \in 1 .. Len(st) /\ st[Len(s) + i] = t[i]
      /\ \A i \in 1 .. Len(st) : i \in 1 .. Len(s) \/ i - Len(s) \in 1 .. Len(t)
      /\ \A i \in 1 .. Len(st) : i \notin 1 .. Len(s) => st[i] = t[i - Len(s)]
  BY <1>1, ConcatProperties, LenProperties
<1> HIDE DEF st
<1>3. Gone(st, C) = G \cup H
  <2>1. ASSUME NEW i \in 1 .. Len(st) PROVE Gives(st[i], C) \subseteq Gone(s, C) \cup Gone(t, C)
    <3>1. CASE i \in 1 .. Len(s)
      BY <1>2, <3>1 DEF Gone
    <3>2. CASE i \notin 1 .. Len(s)
      <4>1. i - Len(s) \in 1 .. Len(t) /\ st[i] = t[i - Len(s)]
        BY <1>2, <3>2
      <4> QED BY <4>1 DEF Gone
    <3> QED BY <3>1, <3>2
  <2>2. Gone(s, C) \subseteq Gone(st, C)
    BY <1>2 DEF Gone
  <2>3. Gone(t, C) \subseteq Gone(st, C)
    BY <1>2 DEF Gone
  <2>4. Gone(st, C) \subseteq Gone(s, C) \cup Gone(t, C)
    BY <2>1 DEF Gone
  <2> QED BY <2>2, <2>3, <2>4 DEF Rungs
<1>4. Asked(st, C) \subseteq A \cup B
  <2>1. ASSUME NEW i \in 1 .. Len(st) PROVE Asks(st[i], C) \subseteq Asked(s, C) \cup Asked(t, C)
    <3>1. CASE i \in 1 .. Len(s)
      BY <1>2, <3>1 DEF Asked
    <3>2. CASE i \notin 1 .. Len(s)
      <4>1. i - Len(s) \in 1 .. Len(t) /\ st[i] = t[i - Len(s)]
        BY <1>2, <3>2
      <4> QED BY <4>1 DEF Asked
    <3> QED BY <3>1, <3>2
  <2>2. Asked(st, C) \subseteq Asked(s, C) \cup Asked(t, C)
    BY <2>1 DEF Asked
  <2> QED BY <2>2 DEF Rungs
<1>5. \A n \in 1 .. Len(st) : WellFormed(st[n])
  BY <1>2 DEF Rungs
<1>6. Orderly(st, C)
  <2> SUFFICES ASSUME NEW m \in 1 .. Len(st), NEW n \in 1 .. Len(st)
               PROVE  /\ m # n => Gives(st[m], C) \cap Gives(st[n], C) = {}
                      /\ st[m].op = "dvb_exit" => st[n].op # "uncount"
                      /\ \A u \in Gives(st[n], C), d \in Gives(st[m], C) :
                           Uses(u, d) => n <= m
    BY DEF Orderly
  <2>1. /\ \A i \in 1 .. Len(s) : Gives(s[i], C) \subseteq G
        /\ \A i \in 1 .. Len(t) : Gives(t[i], C) \subseteq H
    BY DEF Gone, Rungs
  <2>2. CASE m \in 1 .. Len(s) /\ n \in 1 .. Len(s)
    <3>1. st[m] = s[m] /\ st[n] = s[n]
      BY <1>2, <2>2
    <3>2. /\ m # n => Gives(s[m], C) \cap Gives(s[n], C) = {}
          /\ s[m].op = "dvb_exit" => s[n].op # "uncount"
          /\ \A u \in Gives(s[n], C), d \in Gives(s[m], C) : Uses(u, d) => n <= m
      BY <2>2 DEF Orderly, Rungs
    <3> QED BY <3>1, <3>2
  <2>3. CASE m \in 1 .. Len(s) /\ n \notin 1 .. Len(s)
    <3>1. n - Len(s) \in 1 .. Len(t) /\ st[n] = t[n - Len(s)] /\ st[m] = s[m]
      BY <1>2, <2>3
    <3> QED BY <2>1, <2>3, <3>1
  <2>4. CASE m \notin 1 .. Len(s) /\ n \in 1 .. Len(s)
    <3>1. m - Len(s) \in 1 .. Len(t) /\ st[m] = t[m - Len(s)] /\ st[n] = s[n] /\ n <= m
      BY <1>2, <2>4
    <3> QED BY <2>1, <2>4, <3>1
  <2>5. CASE m \notin 1 .. Len(s) /\ n \notin 1 .. Len(s)
    <3> DEFINE i == m - Len(s)
               j == n - Len(s)
    <3>1. /\ i \in 1 .. Len(t) /\ j \in 1 .. Len(t) /\ st[m] = t[i] /\ st[n] = t[j]
          /\ (m # n => i # j) /\ (j <= i => n <= m)
      BY <1>2, <2>5
    <3> HIDE DEF i, j
    <3>2. /\ i # j => Gives(t[i], C) \cap Gives(t[j], C) = {}
          /\ t[i].op = "dvb_exit" => t[j].op # "uncount"
          /\ \A u \in Gives(t[j], C), d \in Gives(t[i], C) : Uses(u, d) => j <= i
      BY <3>1 DEF Orderly, Rungs
    <3> QED BY <3>1, <3>2
  <2> QED BY <2>2, <2>3, <2>4, <2>5
<1> QED BY <1>2, <1>3, <1>4, <1>5, <1>6 DEF Rungs, st

\* The same, where the loop of saa716x_dvb_exit() is not entered.
LEMMA LadderConcat ==
  ASSUME NEW s, NEW t, NEW C, NEW G, NEW H, NEW A, NEW B,
         Ladder(s, C, G, A), Ladder(t, C, H, B), G \cap H = {},
         \A u \in H, d \in G : ~Uses(u, d)
  PROVE  Ladder(s \o t, C, G \cup H, A \cup B)
<1>1. s \in Seq(Releases) /\ t \in Seq(Releases)
  BY DEF Ladder, Rungs
<1>2. Rungs(s \o t, C, G \cup H, A \cup B)
  BY RungsConcat DEF Ladder, NoUncount
<1>3. NoUncount(s \o t)
  BY <1>1, ConcatProperties, LenProperties DEF Ladder, NoUncount
<1> QED BY <1>2, <1>3 DEF Ladder

\* A label with nothing to give back.
LEMMA EmptyLadder ==
  ASSUME NEW C
  PROVE  Ladder(<<>>, C, {}, {})
BY EmptySeq DEF Ladder, Rungs, NoUncount, Orderly, Gone, Asked

\* The rounds of a loop that share nothing.
RungsLoop(rounds, N, m, C, G, A) ==
  /\ Loop(rounds, Releases, N, m)
  /\ \A p \in 1 .. N :
       /\ Rungs(rounds[p], C, G[p], A[p])
       /\ \A j \in 1 .. m : rounds[p][j].op # "dvb_exit"
  /\ \A p \in 1 .. N, q \in 1 .. N :
       /\ p # q => G[p] \cap G[q] = {}
       /\ p < q => \A u \in G[q], d \in G[p] : ~Uses(u, d)

\* The rounds of a loop are a ladder when no round gives back what another
\* does or what stands on what went before.
LEMMA InTurnRungs ==
  ASSUME NEW C, NEW N, NEW m, NEW rounds, NEW G, NEW A,
         RungsLoop(rounds, N, m, C, G, A)
  PROVE  Rungs(InTurn(rounds), C, UNION {G[p] : p \in 1 .. N}, UNION {A[p] : p \in 1 .. N})
<1> DEFINE s == InTurn(rounds)
           y == N * m
           P(k) == Round(m, k)
           J(k) == Turn(m, k)
<1>a. Loop(rounds, Releases, N, m)
  BY DEF RungsLoop
<1>1. /\ s \in Seq(Releases) /\ y \in Nat /\ Len(s) = y
      /\ \A k \in 1 .. y : s[k] = rounds[P(k)][J(k)]
  <2>1. s \in Seq(Releases)
    BY <1>a, InTurnSteps
  <2>3. y \in Nat /\ Len(s) = y
    BY <1>a, InTurnSteps
  <2>2. \A k \in 1 .. y : s[k] = rounds[P(k)][J(k)]
    BY <1>a, InTurnSteps
  <2> QED BY <2>1, <2>2, <2>3
<1>d. /\ N \in Nat /\ m \in Nat \ {0} /\ rounds \in [1 .. N -> Seq(Releases)]
      /\ \A p \in 1 .. N : Len(rounds[p]) = m
  BY <1>a DEF Loop
<1>e. \A p \in 1 .. N :
       /\ Rungs(rounds[p], C, G[p], A[p])
       /\ \A j \in 1 .. m : rounds[p][j].op # "dvb_exit"
  BY DEF RungsLoop
<1>f. \A p \in 1 .. N, q \in 1 .. N :
       /\ p # q => G[p] \cap G[q] = {}
       /\ p < q => \A u \in G[q], d \in G[p] : ~Uses(u, d)
  BY DEF RungsLoop
<1> USE <1>d, <1>e, <1>f
<1>b. \A k \in 1 .. y : P(k) \in 1 .. N /\ J(k) \in 1 .. m /\ k = Pos(m, P(k), J(k))
  BY RoundAndTurn
<1>c. \A p \in 1 .. N, j \in 1 .. m :
        Pos(m, p, j) \in 1 .. y /\ P(Pos(m, p, j)) = p /\ J(Pos(m, p, j)) = j
  BY PosInLoop
<1>2. \A p \in 1 .. N, q \in 1 .. N, i \in 1 .. m, j \in 1 .. m :
        /\ Pos(m, p, i) \in Nat
        /\ p < q => Pos(m, p, i) < Pos(m, q, j)
        /\ Pos(m, p, i) <= Pos(m, q, j) => p < q \/ (p = q /\ i <= j)
  <2> TAKE p \in 1 .. N, q \in 1 .. N, i \in 1 .. m, j \in 1 .. m
  <2>1. p \in Nat \ {0} /\ q \in Nat \ {0}
    OBVIOUS
  <2> QED BY <2>1, InTurnOrder
<1> HIDE DEF s, y, P, J
<1>3. \A p \in 1 .. N, j \in 1 .. m : Gives(rounds[p][j], C) \subseteq G[p]
  BY DEF Rungs, Gone
<1>4. Gone(s, C) = UNION {G[p] : p \in 1 .. N}
  <2>1. ASSUME NEW x \in Gone(s, C) PROVE x \in UNION {G[p] : p \in 1 .. N}
    <3>1. PICK k \in 1 .. Len(s) : x \in Gives(s[k], C)
      BY <2>1 DEF Gone
    <3>2. P(k) \in 1 .. N /\ J(k) \in 1 .. m /\ s[k] = rounds[P(k)][J(k)]
      BY <1>1, <1>b
    <3>3. Gives(s[k], C) \subseteq G[P(k)]
      BY <3>2, <1>3
    <3> QED BY <3>1, <3>2, <3>3
  <2>2. ASSUME NEW p \in 1 .. N, NEW x \in G[p] PROVE x \in Gone(s, C)
    <3>1. x \in Gone(rounds[p], C)
      BY DEF Rungs
    <3>2. PICK j \in 1 .. m : x \in Gives(rounds[p][j], C)
      BY <3>1 DEF Gone
    <3>3. Pos(m, p, j) \in 1 .. Len(s) /\ s[Pos(m, p, j)] = rounds[p][j]
      BY <1>1, <1>c
    <3> QED BY <3>2, <3>3 DEF Gone
  <2> QED BY <2>1, <2>2
<1>5. Asked(s, C) \subseteq UNION {A[p] : p \in 1 .. N}
  <2> SUFFICES ASSUME NEW x \in Asked(s, C) PROVE \E p \in 1 .. N : x \in A[p]
    OBVIOUS
  <2>1. PICK k \in 1 .. Len(s) : x \in Asks(s[k], C)
    BY DEF Asked
  <2>2. PICK p \in 1 .. N, j \in 1 .. m : s[k] = rounds[p][j]
    BY <1>1, <1>b
  <2>3. x \in Asked(rounds[p], C)
    BY <2>1, <2>2 DEF Asked
  <2> QED BY <2>3 DEF Rungs
<1>6. \A k \in 1 .. Len(s) : WellFormed(s[k])
  <2>1. \A p \in 1 .. N, j \in 1 .. m : WellFormed(rounds[p][j])
    BY DEF Rungs
  <2> QED BY <2>1, <1>1, <1>b
<1>7. Orderly(s, C)
  <2> SUFFICES ASSUME NEW k \in 1 .. Len(s), NEW l \in 1 .. Len(s)
               PROVE  /\ k # l => Gives(s[k], C) \cap Gives(s[l], C) = {}
                      /\ s[k].op = "dvb_exit" => s[l].op # "uncount"
                      /\ \A u \in Gives(s[l], C), d \in Gives(s[k], C) :
                           Uses(u, d) => l <= k
    BY DEF Orderly
  <2>1. PICK p \in 1 .. N, i \in 1 .. m : k = Pos(m, p, i) /\ s[k] = rounds[p][i]
    BY <1>1, <1>b
  <2>2. PICK q \in 1 .. N, j \in 1 .. m : l = Pos(m, q, j) /\ s[l] = rounds[q][j]
    BY <1>1, <1>b
  <2>3. s[k].op # "dvb_exit"
    BY <2>1
  <2>4. CASE p # q
    <3>1. Gives(s[k], C) \cap Gives(s[l], C) = {}
      <4>1. Gives(s[k], C) \subseteq G[p] /\ Gives(s[l], C) \subseteq G[q]
        BY <2>1, <2>2, <1>3
      <4>2. G[p] \cap G[q] = {}
        BY <2>4
      <4> QED BY <4>1, <4>2
    <3>2. ASSUME NEW u \in Gives(s[l], C), NEW d \in Gives(s[k], C), Uses(u, d)
          PROVE  l <= k
      <4>1. ~(p < q)
        BY <2>1, <2>2, <3>2, <1>3
      <4>2. q < p
        BY <4>1, <2>4
      <4>3. Pos(m, q, j) < Pos(m, p, i) /\ Pos(m, q, j) \in Nat /\ Pos(m, p, i) \in Nat
        BY <4>2, <1>2
      <4> QED BY <4>3, <2>1, <2>2
    <3> QED BY <3>1, <3>2, <2>3
  <2>5. CASE p = q
    <3>1. /\ i # j => Gives(s[k], C) \cap Gives(s[l], C) = {}
          /\ \A u \in Gives(s[l], C), d \in Gives(s[k], C) : Uses(u, d) => j <= i
      <4>1. Orderly(rounds[p], C) /\ Len(rounds[p]) = m
        BY DEF Rungs
      <4> DEFINE r == rounds[p]
      <4> HIDE DEF r
      <4>2. /\ i # j => Gives(r[i], C) \cap Gives(r[j], C) = {}
            /\ \A u \in Gives(r[j], C), d \in Gives(r[i], C) : Uses(u, d) => j <= i
        <5>1. Orderly(r, C) /\ Len(r) = m
          BY <4>1 DEF r
        <5> QED BY <5>1 DEF Orderly
      <4>3. s[k] = r[i] /\ s[l] = r[j]
        BY <2>1, <2>2, <2>5 DEF r
      <4> QED BY <4>2, <4>3
    <3>2. j <= i => l <= k
      <4>1. Pos(m, p, i) \in Nat /\ Pos(m, p, j) \in Nat
        BY <1>2
      <4>2. Pos(m, p, i) <= Pos(m, p, j) => i <= j
        BY <1>2
      <4> QED BY <4>1, <4>2, <2>1, <2>2, <2>5
    <3> QED BY <3>1, <3>2, <2>1, <2>2, <2>3, <2>5
  <2> QED BY <2>4, <2>5
<1> QED BY <1>1, <1>4, <1>5, <1>6, <1>7 DEF Rungs, s

\* Two steps are one step after another.
LEMMA Pair ==
  ASSUME NEW S, NEW a \in S, NEW b \in S
  PROVE  <<a, b>> = <<a>> \o <<b>>
<1> DEFINE x == <<a>>
           y == <<b>>
           z == <<a, b>>
<1>1. x \in Seq(S) /\ Len(x) = 1 /\ x[1] = a /\ y \in Seq(S) /\ Len(y) = 1 /\ y[1] = b
  OBVIOUS
<1>2. z \in Seq(S) /\ Len(z) = 2 /\ z[1] = a /\ z[2] = b
  OBVIOUS
<1> HIDE DEF x, y, z
<1>3. x \o y \in Seq(S) /\ Len(x \o y) = 2 /\ (x \o y)[1] = a /\ (x \o y)[2] = b
  <2>1. /\ x \o y \in Seq(S) /\ Len(x \o y) = Len(x) + Len(y)
        /\ \A i \in 1 .. Len(x) + Len(y) :
             (x \o y)[i] = IF i <= Len(x) THEN x[i] ELSE y[i - Len(x)]
    BY <1>1, ConcatProperties
  <2>2. 1 \in 1 .. 2 /\ 2 \in 1 .. 2 /\ 2 - 1 = 1 /\ 1 + 1 = 2 /\ 1 <= 1 /\ ~(2 <= 1)
    OBVIOUS
  <2> QED BY <2>1, <2>2, <1>1
<1>4. z = x \o y
  BY <1>2, <1>3, SeqEqual
<1> QED BY <1>4 DEF x, y, z

\* What the release of one resource gives back and asks for.
LEMMA DropStep ==
  ASSUME NEW r \in Resources
  PROVE  /\ Drop(r) \in Releases /\ WellFormed(Drop(r)) /\ Drop(r).op = "drop"
         /\ \A C : Gives(Drop(r), C) = {r} /\ Asks(Drop(r), C) = {r}
         /\ DropIf(r) \in Releases /\ WellFormed(DropIf(r)) /\ DropIf(r).op = "drop"
         /\ \A C : Gives(DropIf(r), C) = {r} /\ Asks(DropIf(r), C) = {}
BY DEF Drop, DropIf, Step, Releases, WellFormed, Gives, Asks, Outcomes

\* A release put before a ladder that gives back nothing that stands on what
\* it releases.
LEMMA RungsDrop ==
  ASSUME NEW k, NEW C, NEW G, NEW A, Rungs(k, C, G, A),
         NEW r \in Resources, r \notin G, \A u \in G : ~Uses(u, r)
  PROVE  /\ Rungs(<<Drop(r)>> \o k, C, {r} \cup G, {r} \cup A)
         /\ Rungs(<<DropIf(r)>> \o k, C, {r} \cup G, A)
<1>1. /\ Rungs(<<Drop(r)>>, C, {r}, {r})
      /\ Rungs(<<DropIf(r)>>, C, {r}, {})
  <2>2. Rungs(<<Drop(r)>>, C, Gives(Drop(r), C), Asks(Drop(r), C))
    BY DropStep, OneRung
  <2>3. Rungs(<<DropIf(r)>>, C, Gives(DropIf(r), C), Asks(DropIf(r), C))
    BY DropStep, OneRung
  <2> QED BY <2>2, <2>3, DropStep
<1>2. {r} \cap G = {} /\ \A u \in G, d \in {r} : ~Uses(u, d)
  OBVIOUS
<1>3. \A x : x.op = "drop" => \A m \in 1 .. Len(<<x>>), n \in 1 .. Len(k) :
        /\ <<x>>[m].op = "dvb_exit" => k[n].op # "uncount"
        /\ k[n].op = "dvb_exit" => <<x>>[m].op # "uncount"
  OBVIOUS
<1>4. Drop(r).op = "drop" /\ DropIf(r).op = "drop"
  BY DropStep
<1>5. Rungs(<<Drop(r)>> \o k, C, {r} \cup G, {r} \cup A)
  BY <1>1, <1>2, <1>3, <1>4, RungsConcat
<1>6. Rungs(<<DropIf(r)>> \o k, C, {r} \cup G, {} \cup A)
  BY <1>1, <1>2, <1>3, <1>4, RungsConcat
<1> QED BY <1>5, <1>6

\* The same, where the loop of saa716x_dvb_exit() is not entered.
LEMMA LadderDrop ==
  ASSUME NEW k, NEW C, NEW G, NEW A, Ladder(k, C, G, A),
         NEW r \in Resources, r \notin G, \A u \in G : ~Uses(u, r)
  PROVE  /\ Ladder(<<Drop(r)>> \o k, C, {r} \cup G, {r} \cup A)
         /\ Ladder(<<DropIf(r)>> \o k, C, {r} \cup G, A)
<1>1. Rungs(<<Drop(r)>> \o k, C, {r} \cup G, {r} \cup A) /\ Rungs(<<DropIf(r)>> \o k, C, {r} \cup G, A)
  BY RungsDrop DEF Ladder
<1>2. ASSUME NEW x \in Releases, x.op = "drop" PROVE NoUncount(<<x>> \o k)
  <2>1. k \in Seq(Releases) /\ NoUncount(k)
    BY DEF Ladder, Rungs
  <2> QED BY <1>2, <2>1 DEF NoUncount
<1> QED BY <1>1, <1>2, DropStep DEF Ladder

-----------------------------------------------------------------------------
(* The loop of saa716x_dvb_exit().                                         *)

\* What an adapter consists of.
LEMMA AdapterResources ==
  ASSUME NEW i \in 0 .. Adapters - 1, NEW x \in PerAdapter
  PROVE  <<x, i>> \in Resources
BY DEF Resources

-----------------------------------------------------------------------------
(* Probe functions, built up.                                              *)

\* Where the steps of two sequences are, one after the other.
LEMMA ConcatParts ==
  ASSUME NEW S, NEW s \in Seq(S), NEW t \in Seq(S)
  PROVE  /\ Len(s) \in Nat /\ Len(t) \in Nat /\ Len(s \o t) = Len(s) + Len(t)
         /\ \A n \in 1 .. Len(s) : n \in 1 .. Len(s \o t) /\ (s \o t)[n] = s[n]
         /\ \A n \in 1 .. Len(t) : Len(s) + n \in 1 .. Len(s \o t) /\ (s \o t)[Len(s) + n] = t[n]
         /\ \A n \in 1 .. Len(s \o t) : n \in 1 .. Len(s) \/ n - Len(s) \in 1 .. Len(t)
         /\ \A n \in 1 .. Len(s \o t) : n \notin 1 .. Len(s) => (s \o t)[n] = t[n - Len(s)]
OBVIOUS

\* What a step, and what a sequence of steps adds to a stage.
Delta(step) == Stage(Takes(step), Sures(step), Firms(step), Counts(step))
Total(s) ==
  Stage(UNION {Takes(s[n]) : n \in 1 .. Len(s)}, UNION {Sures(s[n]) : n \in 1 .. Len(s)},
        UNION {Firms(s[n]) : n \in 1 .. Len(s)}, UNION {Counts(s[n]) : n \in 1 .. Len(s)})
Plus(a, b) == Stage(a.may \cup b.may, a.sure \cup b.sure, a.firm \cup b.firm,
                    a.count \cup b.count)

\* Steps that fit from stage a on, and add d.
Path(crd, s, a, d) == s \in Seq(Takings) /\ Fits(crd, s, a) /\ Total(s) = d

\* A single step that fits.
LEMMA PathStep ==
  ASSUME NEW crd, NEW step \in Takings, NEW M, NEW X, NEW F, NEW C,
         StepFits(crd, step, Stage(M, X, F, C))
  PROVE  Path(crd, <<step>>, Stage(M, X, F, C), Delta(step))
<1> DEFINE s == <<step>>
<1>1. s \in Seq(Takings) /\ Len(s) = 1 /\ s[1] = step /\ 1 .. Len(s) = {1}
  OBVIOUS
<1> HIDE DEF s
<1>2. Total(s) = Delta(step)
  <2>1. /\ UNION {Takes(s[n]) : n \in 1 .. Len(s)} = Takes(step)
        /\ UNION {Sures(s[n]) : n \in 1 .. Len(s)} = Sures(step)
        /\ UNION {Firms(s[n]) : n \in 1 .. Len(s)} = Firms(step)
        /\ UNION {Counts(s[n]) : n \in 1 .. Len(s)} = Counts(step)
    BY <1>1
  <2> QED BY <2>1 DEF Total, Delta
<1>3. Fits(crd, s, Stage(M, X, F, C))
  BY <1>1, AtFirst DEF Fits
<1> QED BY <1>1, <1>2, <1>3 DEF Path, s

\* The stage in the second of two sequences.
LEMMA AtConcat ==
  ASSUME NEW s \in Seq(Takings), NEW t \in Seq(Takings), NEW a, NEW n \in Nat, n <= Len(t)
  PROVE  At(s \o t, a, Len(s) + n + 1) = At(t, Plus(a, Total(s)), n + 1)
<1> DEFINE st == s \o t
           L  == Len(s)
<1>1. /\ L \in Nat
      /\ \A m \in 1 .. L : st[m] = s[m]
      /\ \A m \in 1 .. n : st[L + m] = t[m]
  BY ConcatParts, LenProperties
<1> HIDE DEF st, L
<1>a. \A m \in 1 .. L : m \in 1 .. L + n
  BY <1>1
<1>b. \A m \in 1 .. n : L + m \in 1 .. L + n
  BY <1>1
<1>c. ASSUME NEW m \in 1 .. L + n
      PROVE  (m \in 1 .. L /\ st[m] = s[m]) \/ (m - L \in 1 .. n /\ st[m] = t[m - L])
  <2>1. CASE m <= L
    BY <1>1, <2>1
  <2>2. CASE m > L
    <3>1. m - L \in 1 .. n /\ L + (m - L) = m
      BY <1>1, <2>2
    <3> QED BY <1>1, <3>1
  <2> QED BY <1>1, <2>1, <2>2
<1> DEFINE st1 == UNION {Takes(s[m]) : m \in 1 .. L}
           tt1 == UNION {Takes(t[m]) : m \in 1 .. n}
           st2 == UNION {Sures(s[m]) : m \in 1 .. L}
           tt2 == UNION {Sures(t[m]) : m \in 1 .. n}
           st3 == UNION {Firms(s[m]) : m \in 1 .. L}
           tt3 == UNION {Firms(t[m]) : m \in 1 .. n}
           st4 == UNION {Counts(s[m]) : m \in 1 .. L}
           tt4 == UNION {Counts(t[m]) : m \in 1 .. n}
<1>2. UNION {Takes(st[m]) : m \in 1 .. L + n} = st1 \cup tt1
  <2> DEFINE u == UNION {Takes(st[m]) : m \in 1 .. L + n}
  <2>1. \A m \in 1 .. L : Takes(s[m]) \subseteq st1
    OBVIOUS
  <2>2. \A m \in 1 .. n : Takes(t[m]) \subseteq tt1
    OBVIOUS
  <2>3. st1 \subseteq u
    BY <1>1, <1>a
  <2>4. tt1 \subseteq u
    BY <1>1, <1>b
  <2>5. \A m \in 1 .. L + n : Takes(st[m]) \subseteq st1 \cup tt1
    <3> HIDE DEF st1, tt1, u
    <3> TAKE m \in 1 .. L + n
    <3>1. CASE m \in 1 .. L /\ st[m] = s[m]
      BY <3>1, <2>1
    <3>2. CASE m - L \in 1 .. n /\ st[m] = t[m - L]
      BY <3>2, <2>2
    <3> QED BY <1>c, <3>1, <3>2
  <2>6. u \subseteq st1 \cup tt1
    <3> HIDE DEF st1, tt1
    <3> QED BY <2>5
  <2> HIDE DEF st1, tt1, u
  <2>7. u = st1 \cup tt1
    BY <2>3, <2>4, <2>6
  <2> QED BY <2>7 DEF u
<1>3. UNION {Sures(st[m]) : m \in 1 .. L + n} = st2 \cup tt2
  <2> DEFINE u == UNION {Sures(st[m]) : m \in 1 .. L + n}
  <2>1. \A m \in 1 .. L : Sures(s[m]) \subseteq st2
    OBVIOUS
  <2>2. \A m \in 1 .. n : Sures(t[m]) \subseteq tt2
    OBVIOUS
  <2>3. st2 \subseteq u
    BY <1>1, <1>a
  <2>4. tt2 \subseteq u
    BY <1>1, <1>b
  <2>5. \A m \in 1 .. L + n : Sures(st[m]) \subseteq st2 \cup tt2
    <3> HIDE DEF st2, tt2, u
    <3> TAKE m \in 1 .. L + n
    <3>1. CASE m \in 1 .. L /\ st[m] = s[m]
      BY <3>1, <2>1
    <3>2. CASE m - L \in 1 .. n /\ st[m] = t[m - L]
      BY <3>2, <2>2
    <3> QED BY <1>c, <3>1, <3>2
  <2>6. u \subseteq st2 \cup tt2
    <3> HIDE DEF st2, tt2
    <3> QED BY <2>5
  <2> HIDE DEF st2, tt2, u
  <2>7. u = st2 \cup tt2
    BY <2>3, <2>4, <2>6
  <2> QED BY <2>7 DEF u
<1>4. UNION {Firms(st[m]) : m \in 1 .. L + n} = st3 \cup tt3
  <2> DEFINE u == UNION {Firms(st[m]) : m \in 1 .. L + n}
  <2>1. \A m \in 1 .. L : Firms(s[m]) \subseteq st3
    OBVIOUS
  <2>2. \A m \in 1 .. n : Firms(t[m]) \subseteq tt3
    OBVIOUS
  <2>3. st3 \subseteq u
    BY <1>1, <1>a
  <2>4. tt3 \subseteq u
    BY <1>1, <1>b
  <2>5. \A m \in 1 .. L + n : Firms(st[m]) \subseteq st3 \cup tt3
    <3> HIDE DEF st3, tt3, u
    <3> TAKE m \in 1 .. L + n
    <3>1. CASE m \in 1 .. L /\ st[m] = s[m]
      BY <3>1, <2>1
    <3>2. CASE m - L \in 1 .. n /\ st[m] = t[m - L]
      BY <3>2, <2>2
    <3> QED BY <1>c, <3>1, <3>2
  <2>6. u \subseteq st3 \cup tt3
    <3> HIDE DEF st3, tt3
    <3> QED BY <2>5
  <2> HIDE DEF st3, tt3, u
  <2>7. u = st3 \cup tt3
    BY <2>3, <2>4, <2>6
  <2> QED BY <2>7 DEF u
<1>5. UNION {Counts(st[m]) : m \in 1 .. L + n} = st4 \cup tt4
  <2> DEFINE u == UNION {Counts(st[m]) : m \in 1 .. L + n}
  <2>1. \A m \in 1 .. L : Counts(s[m]) \subseteq st4
    OBVIOUS
  <2>2. \A m \in 1 .. n : Counts(t[m]) \subseteq tt4
    OBVIOUS
  <2>3. st4 \subseteq u
    BY <1>1, <1>a
  <2>4. tt4 \subseteq u
    BY <1>1, <1>b
  <2>5. \A m \in 1 .. L + n : Counts(st[m]) \subseteq st4 \cup tt4
    <3> HIDE DEF st4, tt4, u
    <3> TAKE m \in 1 .. L + n
    <3>1. CASE m \in 1 .. L /\ st[m] = s[m]
      BY <3>1, <2>1
    <3>2. CASE m - L \in 1 .. n /\ st[m] = t[m - L]
      BY <3>2, <2>2
    <3> QED BY <1>c, <3>1, <3>2
  <2>6. u \subseteq st4 \cup tt4
    <3> HIDE DEF st4, tt4
    <3> QED BY <2>5
  <2> HIDE DEF st4, tt4, u
  <2>7. u = st4 \cup tt4
    BY <2>3, <2>4, <2>6
  <2> QED BY <2>7 DEF u
<1>6. (L + n + 1) - 1 = L + n /\ (n + 1) - 1 = n
  BY <1>1
<1>8. At(st, a, L + n + 1) = Stage(a.may \cup (st1 \cup tt1), a.sure \cup (st2 \cup tt2),
                                  a.firm \cup (st3 \cup tt3), a.count \cup (st4 \cup tt4))
  <2> HIDE DEF st1, st2, st3, st4, tt1, tt2, tt3, tt4
  <2> QED BY <1>2, <1>3, <1>4, <1>5, <1>6 DEF At
<1>9. At(t, Plus(a, Total(s)), n + 1)
        = Stage((a.may \cup st1) \cup tt1, (a.sure \cup st2) \cup tt2,
                (a.firm \cup st3) \cup tt3, (a.count \cup st4) \cup tt4)
  BY <1>6 DEF At, Plus, Total, Stage, L
<1> HIDE DEF st1, st2, st3, st4, tt1, tt2, tt3, tt4
<1>10. /\ a.may \cup (st1 \cup tt1) = (a.may \cup st1) \cup tt1
       /\ a.sure \cup (st2 \cup tt2) = (a.sure \cup st2) \cup tt2
       /\ a.firm \cup (st3 \cup tt3) = (a.firm \cup st3) \cup tt3
       /\ a.count \cup (st4 \cup tt4) = (a.count \cup st4) \cup tt4
  OBVIOUS
<1>11. At(st, a, L + n + 1) = At(t, Plus(a, Total(s)), n + 1)
  BY <1>8, <1>9, <1>10
<1> QED BY <1>11 DEF st, L

\* What a sequence adds is where it ends.
LEMMA AtEnd ==
  ASSUME NEW s, NEW a, Len(s) \in Nat
  PROVE  At(s, a, Len(s) + 1) = Plus(a, Total(s))
<1>1. (Len(s) + 1) - 1 = Len(s)
  OBVIOUS
<1> QED BY <1>1 DEF At, Plus, Total, Stage

\* Steps that fit, and then steps that fit where those end.
LEMMA PathConcat ==
  ASSUME NEW crd, NEW s, NEW t, NEW a, NEW d, NEW e,
         Path(crd, s, a, d), Path(crd, t, Plus(a, d), e)
  PROVE  Path(crd, s \o t, a, Plus(d, e))
<1> DEFINE st == s \o t
           L  == Len(s)
<1>1. /\ s \in Seq(Takings) /\ t \in Seq(Takings) /\ d = Total(s) /\ e = Total(t)
      /\ Fits(crd, s, a) /\ Fits(crd, t, Plus(a, d))
  BY DEF Path
<1>2. /\ L \in Nat /\ Len(t) \in Nat /\ st \in Seq(Takings) /\ Len(st) = L + Len(t)
      /\ \A m \in 1 .. L : m \in 1 .. Len(st) /\ st[m] = s[m]
      /\ \A m \in 1 .. Len(t) : L + m \in 1 .. Len(st) /\ st[L + m] = t[m]
      /\ \A m \in 1 .. Len(st) : m \in 1 .. L \/ m - L \in 1 .. Len(t)
  BY <1>1, ConcatParts, ConcatProperties
<1>3. \A n \in 1 .. Len(t) : At(st, a, L + n) = At(t, Plus(a, d), n)
  <2> TAKE n \in 1 .. Len(t)
  <2>1. n - 1 \in Nat /\ n - 1 <= Len(t) /\ L + (n - 1) + 1 = L + n /\ (n - 1) + 1 = n
    BY <1>2
  <2>2. At(st, a, L + (n - 1) + 1) = At(t, Plus(a, d), (n - 1) + 1)
    BY <1>1, <2>1, AtConcat
  <2> QED BY <2>1, <2>2
<1> HIDE DEF st, L
<1>4. \A n \in 1 .. L : At(st, a, n) = At(s, a, n)
  <2> TAKE n \in 1 .. L
  <2>1. \A m \in 1 .. n - 1 : m \in 1 .. L /\ st[m] = s[m]
    BY <1>2
  <2>2. /\ UNION {Takes(st[m]) : m \in 1 .. n - 1} = UNION {Takes(s[m]) : m \in 1 .. n - 1}
        /\ UNION {Sures(st[m]) : m \in 1 .. n - 1} = UNION {Sures(s[m]) : m \in 1 .. n - 1}
        /\ UNION {Firms(st[m]) : m \in 1 .. n - 1} = UNION {Firms(s[m]) : m \in 1 .. n - 1}
        /\ UNION {Counts(st[m]) : m \in 1 .. n - 1} = UNION {Counts(s[m]) : m \in 1 .. n - 1}
    BY <2>1
  <2> QED BY <2>2 DEF At
<1>5. Fits(crd, st, a)
  <2> SUFFICES ASSUME NEW n \in 1 .. Len(st) PROVE StepFits(crd, st[n], At(st, a, n))
    BY DEF Fits
  <2>1. CASE n \in 1 .. L
    BY <1>1, <1>2, <1>4, <2>1 DEF Fits, L
  <2>2. CASE n - L \in 1 .. Len(t)
    <3>1. StepFits(crd, t[n - L], At(t, Plus(a, d), n - L))
      BY <1>1, <2>2 DEF Fits
    <3>2. L + (n - L) = n
      BY <1>2
    <3>3. st[n] = t[n - L] /\ At(st, a, n) = At(t, Plus(a, d), n - L)
      BY <1>2, <1>3, <2>2, <3>2
    <3> QED BY <3>1, <3>3
  <2> QED BY <1>2, <2>1, <2>2
<1>6. Total(st) = Plus(d, e)
  <2> DEFINE o == Stage({}, {}, {}, {})
  <2>1. At(st, o, L + Len(t) + 1) = At(t, Plus(o, Total(s)), Len(t) + 1)
    BY <1>1, <1>2, AtConcat DEF st, L
  <2>2. At(st, o, Len(st) + 1) = Plus(o, Total(st))
    BY <1>2, AtEnd
  <2>3. At(t, Plus(o, d), Len(t) + 1) = Plus(Plus(o, d), Total(t))
    BY <1>2, AtEnd
  <2>4. \A x : Plus(o, Total(x)) = Total(x)
    BY DEF Plus, Total, Stage
  <2>5. L + Len(t) + 1 = Len(st) + 1
    BY <1>2
  <2> HIDE DEF o
  <2> QED BY <1>1, <2>1, <2>2, <2>3, <2>4, <2>5
<1> QED BY <1>2, <1>5, <1>6 DEF Path, st

\* A probe function whose steps fit, and at whose end the remove function
\* does, builds.
LEMMA PathBuilds ==
  ASSUME NEW crd, NEW s, NEW a, NEW d, Path(crd, s, a, d), Ends(crd, Plus(a, d))
  PROVE  s \in Seq(Takings) /\ Builds(crd, s, a)
<1>1. s \in Seq(Takings) /\ Fits(crd, s, a) /\ Total(s) = d /\ Len(s) \in Nat
  BY DEF Path
<1> QED BY <1>1, AtEnd DEF Builds

-----------------------------------------------------------------------------
(* Loops of probe functions.                                               *)

\* What the first p rounds of a loop add, T[q] being what round q adds.
Sum(T, p) ==
  Stage(UNION {T[q].may : q \in 1 .. p}, UNION {T[q].sure : q \in 1 .. p},
        UNION {T[q].firm : q \in 1 .. p}, UNION {T[q].count : q \in 1 .. p})

\* Each round fits where the rounds before it end.
PathRounds(crd, rounds, N, m, a, T) ==
  /\ Loop(rounds, Takings, N, m)
  /\ \A p \in 1 .. N : Path(crd, rounds[p], Plus(a, Sum(T, p - 1)), T[p])

\* Which steps of a loop come before step j of round p.
LEMMA BeforePos ==
  ASSUME NEW N \in Nat, NEW m \in Nat \ {0}, NEW p \in 1 .. N, NEW j \in 1 .. m
  PROVE  /\ \A i \in 1 .. Pos(m, p, j) - 1 :
              /\ i \in 1 .. N * m
              /\ Round(m, i) \in 1 .. p - 1 \/ (Round(m, i) = p /\ Turn(m, i) \in 1 .. j - 1)
         /\ \A q \in 1 .. p - 1, i \in 1 .. m : Pos(m, q, i) \in 1 .. Pos(m, p, j) - 1
         /\ \A i \in 1 .. j - 1 : Pos(m, p, i) \in 1 .. Pos(m, p, j) - 1
<1> DEFINE k == Pos(m, p, j)
           L == N * m
<1>1. L \in Nat /\ k \in 1 .. L
  BY TimesNat, PosInLoop
<1>2. ASSUME NEW i \in 1 .. k - 1
      PROVE  /\ i \in 1 .. L
             /\ Round(m, i) \in 1 .. p - 1 \/ (Round(m, i) = p /\ Turn(m, i) \in 1 .. j - 1)
  <2>1. i \in 1 .. L /\ i < k
    <3> HIDE DEF k, L
    <3> QED BY <1>1
  <2> DEFINE q == Round(m, i)
             t == Turn(m, i)
  <2>2. q \in 1 .. N /\ t \in 1 .. m /\ i = Pos(m, q, t)
    BY <2>1, RoundAndTurn
  <2> HIDE DEF q, t
  <2>3. q \in Nat \ {0} /\ p \in Nat \ {0}
    BY <2>2
  <2>4. Pos(m, q, t) <= Pos(m, p, j) /\ Pos(m, q, t) # Pos(m, p, j)
    <3> HIDE DEF L
    <3>1. i <= k /\ i # k
      BY <1>1, <2>1
    <3> QED BY <2>2, <3>1
  <2>5. q < p \/ (q = p /\ t <= j)
    BY <2>2, <2>3, <2>4, InTurnOrder
  <2>6. q = p => t # j
    BY <2>4
  <2>7. q \in 1 .. p - 1 \/ (q = p /\ t \in 1 .. j - 1)
    BY <2>2, <2>3, <2>5, <2>6
  <2> QED BY <2>1, <2>7 DEF q, t
<1>3. ASSUME NEW q \in 1 .. p - 1, NEW i \in 1 .. m PROVE Pos(m, q, i) \in 1 .. k - 1
  <2>1. q \in 1 .. N /\ q \in Nat \ {0} /\ p \in Nat \ {0} /\ q < p
    OBVIOUS
  <2>2. Pos(m, q, i) \in 1 .. L /\ Pos(m, q, i) < Pos(m, p, j)
    BY <2>1, PosInLoop, InTurnOrder
  <2> DEFINE x == Pos(m, q, i)
  <2> HIDE DEF x, L
  <2>3. x \in 1 .. L /\ x < k
    BY <2>2 DEF x
  <2> HIDE DEF k
  <2>4. x \in 1 .. k - 1
    BY <1>1, <2>3
  <2> QED BY <2>4 DEF x
<1>4. ASSUME NEW i \in 1 .. j - 1 PROVE Pos(m, p, i) \in 1 .. k - 1
  <2>1. i \in 1 .. m /\ i < j
    OBVIOUS
  <2>2. Pos(m, p, i) \in 1 .. L
    BY <2>1, PosInLoop
  <2> DEFINE b == (p - 1) * m
  <2>3. b \in Nat
    BY TimesNat
  <2>4. Pos(m, p, i) = b + i /\ k = b + j
    BY DEF Pos
  <2> HIDE DEF b, k, L
  <2> QED BY <2>1, <2>3, <2>4
<1> QED BY <1>2, <1>3, <1>4

\* The stage at step j of round p of a loop.
LEMMA AtRound ==
  ASSUME NEW crd, NEW rounds, NEW N, NEW m, NEW a, NEW T,
         PathRounds(crd, rounds, N, m, a, T), NEW p \in 1 .. N, NEW j \in 1 .. m
  PROVE  At(InTurn(rounds), a, Pos(m, p, j)) = At(rounds[p], Plus(a, Sum(T, p - 1)), j)
<1> DEFINE s == InTurn(rounds)
           r == rounds[p]
           L == N * m
           k == Pos(m, p, j)
<1>1. Loop(rounds, Takings, N, m) /\ N \in Nat /\ m \in Nat \ {0}
  BY DEF PathRounds, Loop
<1>2. \A i \in 1 .. L : s[i] = rounds[Round(m, i)][Turn(m, i)]
  BY <1>1, InTurnSteps
<1>3. \A q \in 1 .. N, i \in 1 .. m :
        Pos(m, q, i) \in 1 .. L /\ Round(m, Pos(m, q, i)) = q /\ Turn(m, Pos(m, q, i)) = i
  BY <1>1, PosInLoop
<1>4. \A i \in 1 .. L : Round(m, i) \in 1 .. N /\ Turn(m, i) \in 1 .. m
  BY <1>1, RoundAndTurn
<1>5. /\ \A i \in 1 .. k - 1 :
              /\ i \in 1 .. L
              /\ Round(m, i) \in 1 .. p - 1 \/ (Round(m, i) = p /\ Turn(m, i) \in 1 .. j - 1)
      /\ \A q \in 1 .. p - 1, i \in 1 .. m : Pos(m, q, i) \in 1 .. k - 1
      /\ \A i \in 1 .. j - 1 : Pos(m, p, i) \in 1 .. k - 1
  BY <1>1, BeforePos
<1>6. \A q \in 1 .. N : Len(rounds[q]) = m /\ Total(rounds[q]) = T[q]
  BY <1>1 DEF PathRounds, Path, Loop
<1>7. (\A q \in 1 .. p - 1 : q \in 1 .. N) /\ (\A i \in 1 .. j - 1 : i \in 1 .. m)
  BY <1>1
<1> HIDE DEF s, L, k
<1> DEFINE v1 == UNION {T[q].may : q \in 1 .. p - 1}
           w1 == UNION {Takes(r[i]) : i \in 1 .. j - 1}
           v2 == UNION {T[q].sure : q \in 1 .. p - 1}
           w2 == UNION {Sures(r[i]) : i \in 1 .. j - 1}
           v3 == UNION {T[q].firm : q \in 1 .. p - 1}
           w3 == UNION {Firms(r[i]) : i \in 1 .. j - 1}
           v4 == UNION {T[q].count : q \in 1 .. p - 1}
           w4 == UNION {Counts(r[i]) : i \in 1 .. j - 1}
<1>8. \A q \in 1 .. N, i \in 1 .. m : s[Pos(m, q, i)] = rounds[q][i]
  BY <1>2, <1>3
<1>9. UNION {Takes(s[i]) : i \in 1 .. k - 1} = v1 \cup w1
  <2> DEFINE u == UNION {Takes(s[i]) : i \in 1 .. k - 1}
  <2>1. ASSUME NEW q \in 1 .. N PROVE T[q].may = UNION {Takes(rounds[q][i]) : i \in 1 .. m}
    <3>1. \A x : Total(x).may = UNION {Takes(x[i]) : i \in 1 .. Len(x)}
      BY DEF Total, Stage
    <3>2. Total(rounds[q]).may = UNION {Takes(rounds[q][i]) : i \in 1 .. Len(rounds[q])}
      BY <3>1
    <3> QED BY <1>6, <3>2
  <2>2. ASSUME NEW i \in 1 .. k - 1 PROVE Takes(s[i]) \subseteq v1 \cup w1
    <3>1. s[i] = rounds[Round(m, i)][Turn(m, i)] /\ Turn(m, i) \in 1 .. m
      BY <1>2, <1>4, <1>5
    <3>2. CASE Round(m, i) \in 1 .. p - 1
      <4>1. Takes(s[i]) \subseteq T[Round(m, i)].may
        BY <1>7, <2>1, <3>1, <3>2
      <4> QED BY <3>2, <4>1
    <3>3. CASE Round(m, i) = p /\ Turn(m, i) \in 1 .. j - 1
      BY <3>1, <3>3
    <3> QED BY <1>5, <3>2, <3>3
  <2>3. ASSUME NEW q \in 1 .. p - 1 PROVE T[q].may \subseteq u
    <3>1. q \in 1 .. N /\ T[q].may = UNION {Takes(rounds[q][i]) : i \in 1 .. m}
      BY <1>7, <2>1
    <3>2. \A i \in 1 .. m : Pos(m, q, i) \in 1 .. k - 1 /\ s[Pos(m, q, i)] = rounds[q][i]
      BY <1>5, <1>8, <3>1
    <3>3. \A i \in 1 .. m : Takes(rounds[q][i]) \subseteq u
      BY <3>2
    <3> HIDE DEF u
    <3> QED BY <3>1, <3>3
  <2>4. \A i \in 1 .. j - 1 : Takes(r[i]) \subseteq u
    BY <1>5, <1>7, <1>8
  <2>5. u \subseteq v1 \cup w1
    <3> HIDE DEF v1, w1
    <3> QED BY <2>2
  <2>6. v1 \subseteq u /\ w1 \subseteq u
    <3> HIDE DEF u
    <3> QED BY <2>3, <2>4
  <2> HIDE DEF u, v1, w1
  <2>7. u = v1 \cup w1
    BY <2>5, <2>6
  <2> QED BY <2>7 DEF u
<1>10. UNION {Sures(s[i]) : i \in 1 .. k - 1} = v2 \cup w2
  <2> DEFINE u == UNION {Sures(s[i]) : i \in 1 .. k - 1}
  <2>1. ASSUME NEW q \in 1 .. N PROVE T[q].sure = UNION {Sures(rounds[q][i]) : i \in 1 .. m}
    <3>1. \A x : Total(x).sure = UNION {Sures(x[i]) : i \in 1 .. Len(x)}
      BY DEF Total, Stage
    <3>2. Total(rounds[q]).sure = UNION {Sures(rounds[q][i]) : i \in 1 .. Len(rounds[q])}
      BY <3>1
    <3> QED BY <1>6, <3>2
  <2>2. ASSUME NEW i \in 1 .. k - 1 PROVE Sures(s[i]) \subseteq v2 \cup w2
    <3>1. s[i] = rounds[Round(m, i)][Turn(m, i)] /\ Turn(m, i) \in 1 .. m
      BY <1>2, <1>4, <1>5
    <3>2. CASE Round(m, i) \in 1 .. p - 1
      <4>1. Sures(s[i]) \subseteq T[Round(m, i)].sure
        BY <1>7, <2>1, <3>1, <3>2
      <4> QED BY <3>2, <4>1
    <3>3. CASE Round(m, i) = p /\ Turn(m, i) \in 1 .. j - 1
      BY <3>1, <3>3
    <3> QED BY <1>5, <3>2, <3>3
  <2>3. ASSUME NEW q \in 1 .. p - 1 PROVE T[q].sure \subseteq u
    <3>1. q \in 1 .. N /\ T[q].sure = UNION {Sures(rounds[q][i]) : i \in 1 .. m}
      BY <1>7, <2>1
    <3>2. \A i \in 1 .. m : Pos(m, q, i) \in 1 .. k - 1 /\ s[Pos(m, q, i)] = rounds[q][i]
      BY <1>5, <1>8, <3>1
    <3>3. \A i \in 1 .. m : Sures(rounds[q][i]) \subseteq u
      BY <3>2
    <3> HIDE DEF u
    <3> QED BY <3>1, <3>3
  <2>4. \A i \in 1 .. j - 1 : Sures(r[i]) \subseteq u
    BY <1>5, <1>7, <1>8
  <2>5. u \subseteq v2 \cup w2
    <3> HIDE DEF v2, w2
    <3> QED BY <2>2
  <2>6. v2 \subseteq u /\ w2 \subseteq u
    <3> HIDE DEF u
    <3> QED BY <2>3, <2>4
  <2> HIDE DEF u, v2, w2
  <2>7. u = v2 \cup w2
    BY <2>5, <2>6
  <2> QED BY <2>7 DEF u
<1>11. UNION {Firms(s[i]) : i \in 1 .. k - 1} = v3 \cup w3
  <2> DEFINE u == UNION {Firms(s[i]) : i \in 1 .. k - 1}
  <2>1. ASSUME NEW q \in 1 .. N PROVE T[q].firm = UNION {Firms(rounds[q][i]) : i \in 1 .. m}
    <3>1. \A x : Total(x).firm = UNION {Firms(x[i]) : i \in 1 .. Len(x)}
      BY DEF Total, Stage
    <3>2. Total(rounds[q]).firm = UNION {Firms(rounds[q][i]) : i \in 1 .. Len(rounds[q])}
      BY <3>1
    <3> QED BY <1>6, <3>2
  <2>2. ASSUME NEW i \in 1 .. k - 1 PROVE Firms(s[i]) \subseteq v3 \cup w3
    <3>1. s[i] = rounds[Round(m, i)][Turn(m, i)] /\ Turn(m, i) \in 1 .. m
      BY <1>2, <1>4, <1>5
    <3>2. CASE Round(m, i) \in 1 .. p - 1
      <4>1. Firms(s[i]) \subseteq T[Round(m, i)].firm
        BY <1>7, <2>1, <3>1, <3>2
      <4> QED BY <3>2, <4>1
    <3>3. CASE Round(m, i) = p /\ Turn(m, i) \in 1 .. j - 1
      BY <3>1, <3>3
    <3> QED BY <1>5, <3>2, <3>3
  <2>3. ASSUME NEW q \in 1 .. p - 1 PROVE T[q].firm \subseteq u
    <3>1. q \in 1 .. N /\ T[q].firm = UNION {Firms(rounds[q][i]) : i \in 1 .. m}
      BY <1>7, <2>1
    <3>2. \A i \in 1 .. m : Pos(m, q, i) \in 1 .. k - 1 /\ s[Pos(m, q, i)] = rounds[q][i]
      BY <1>5, <1>8, <3>1
    <3>3. \A i \in 1 .. m : Firms(rounds[q][i]) \subseteq u
      BY <3>2
    <3> HIDE DEF u
    <3> QED BY <3>1, <3>3
  <2>4. \A i \in 1 .. j - 1 : Firms(r[i]) \subseteq u
    BY <1>5, <1>7, <1>8
  <2>5. u \subseteq v3 \cup w3
    <3> HIDE DEF v3, w3
    <3> QED BY <2>2
  <2>6. v3 \subseteq u /\ w3 \subseteq u
    <3> HIDE DEF u
    <3> QED BY <2>3, <2>4
  <2> HIDE DEF u, v3, w3
  <2>7. u = v3 \cup w3
    BY <2>5, <2>6
  <2> QED BY <2>7 DEF u
<1>12. UNION {Counts(s[i]) : i \in 1 .. k - 1} = v4 \cup w4
  <2> DEFINE u == UNION {Counts(s[i]) : i \in 1 .. k - 1}
  <2>1. ASSUME NEW q \in 1 .. N PROVE T[q].count = UNION {Counts(rounds[q][i]) : i \in 1 .. m}
    <3>1. \A x : Total(x).count = UNION {Counts(x[i]) : i \in 1 .. Len(x)}
      BY DEF Total, Stage
    <3>2. Total(rounds[q]).count = UNION {Counts(rounds[q][i]) : i \in 1 .. Len(rounds[q])}
      BY <3>1
    <3> QED BY <1>6, <3>2
  <2>2. ASSUME NEW i \in 1 .. k - 1 PROVE Counts(s[i]) \subseteq v4 \cup w4
    <3>1. s[i] = rounds[Round(m, i)][Turn(m, i)] /\ Turn(m, i) \in 1 .. m
      BY <1>2, <1>4, <1>5
    <3>2. CASE Round(m, i) \in 1 .. p - 1
      <4>1. Counts(s[i]) \subseteq T[Round(m, i)].count
        BY <1>7, <2>1, <3>1, <3>2
      <4> QED BY <3>2, <4>1
    <3>3. CASE Round(m, i) = p /\ Turn(m, i) \in 1 .. j - 1
      BY <3>1, <3>3
    <3> QED BY <1>5, <3>2, <3>3
  <2>3. ASSUME NEW q \in 1 .. p - 1 PROVE T[q].count \subseteq u
    <3>1. q \in 1 .. N /\ T[q].count = UNION {Counts(rounds[q][i]) : i \in 1 .. m}
      BY <1>7, <2>1
    <3>2. \A i \in 1 .. m : Pos(m, q, i) \in 1 .. k - 1 /\ s[Pos(m, q, i)] = rounds[q][i]
      BY <1>5, <1>8, <3>1
    <3>3. \A i \in 1 .. m : Counts(rounds[q][i]) \subseteq u
      BY <3>2
    <3> HIDE DEF u
    <3> QED BY <3>1, <3>3
  <2>4. \A i \in 1 .. j - 1 : Counts(r[i]) \subseteq u
    BY <1>5, <1>7, <1>8
  <2>5. u \subseteq v4 \cup w4
    <3> HIDE DEF v4, w4
    <3> QED BY <2>2
  <2>6. v4 \subseteq u /\ w4 \subseteq u
    <3> HIDE DEF u
    <3> QED BY <2>3, <2>4
  <2> HIDE DEF u, v4, w4
  <2>7. u = v4 \cup w4
    BY <2>5, <2>6
  <2> QED BY <2>7 DEF u
<1>13. At(s, a, k) = Stage(a.may \cup (v1 \cup w1), a.sure \cup (v2 \cup w2),
                          a.firm \cup (v3 \cup w3), a.count \cup (v4 \cup w4))
  <2> HIDE DEF v1, v2, v3, v4, w1, w2, w3, w4
  <2> QED BY <1>9, <1>10, <1>11, <1>12 DEF At
<1>14. At(r, Plus(a, Sum(T, p - 1)), j)
        = Stage((a.may \cup v1) \cup w1, (a.sure \cup v2) \cup w2,
                (a.firm \cup v3) \cup w3, (a.count \cup v4) \cup w4)
  BY DEF At, Plus, Sum, Stage
<1> HIDE DEF v1, v2, v3, v4, w1, w2, w3, w4
<1>15. /\ a.may \cup (v1 \cup w1) = (a.may \cup v1) \cup w1
       /\ a.sure \cup (v2 \cup w2) = (a.sure \cup v2) \cup w2
       /\ a.firm \cup (v3 \cup w3) = (a.firm \cup v3) \cup w3
       /\ a.count \cup (v4 \cup w4) = (a.count \cup v4) \cup w4
  OBVIOUS
<1>16. At(s, a, k) = At(r, Plus(a, Sum(T, p - 1)), j)
  BY <1>13, <1>14, <1>15
<1> QED BY <1>16 DEF s, r, k

\* A loop whose rounds fit, each where those before it end.
LEMMA PathLoop ==
  ASSUME NEW crd, NEW rounds, NEW N, NEW m, NEW a, NEW T,
         PathRounds(crd, rounds, N, m, a, T)
  PROVE  Path(crd, InTurn(rounds), a, Sum(T, N))
<1> DEFINE s == InTurn(rounds)
           L == N * m
<1>1. Loop(rounds, Takings, N, m) /\ N \in Nat /\ m \in Nat \ {0}
  BY DEF PathRounds, Loop
<1>2. s \in Seq(Takings) /\ L \in Nat /\ Len(s) = L
  BY <1>1, InTurnSteps
<1>3. \A i \in 1 .. L : s[i] = rounds[Round(m, i)][Turn(m, i)]
  BY <1>1, InTurnSteps
<1>4. \A i \in 1 .. L : Round(m, i) \in 1 .. N /\ Turn(m, i) \in 1 .. m
                         /\ i = Pos(m, Round(m, i), Turn(m, i))
  BY <1>1, RoundAndTurn
<1>5. \A q \in 1 .. N, i \in 1 .. m :
        Pos(m, q, i) \in 1 .. L /\ Round(m, Pos(m, q, i)) = q /\ Turn(m, Pos(m, q, i)) = i
  BY <1>1, PosInLoop
<1>6. \A q \in 1 .. N : Len(rounds[q]) = m /\ Total(rounds[q]) = T[q]
  BY <1>1 DEF PathRounds, Path, Loop
<1>7. Fits(crd, s, a)
  <2> SUFFICES ASSUME NEW n \in 1 .. Len(s) PROVE StepFits(crd, s[n], At(s, a, n))
    BY DEF Fits
  <2> DEFINE p == Round(m, n)
             j == Turn(m, n)
  <2>1. p \in 1 .. N /\ j \in 1 .. m /\ n = Pos(m, p, j) /\ s[n] = rounds[p][j]
    BY <1>2, <1>3, <1>4
  <2> HIDE DEF p, j, s
  <2>2. StepFits(crd, rounds[p][j], At(rounds[p], Plus(a, Sum(T, p - 1)), j))
    <3>1. Fits(crd, rounds[p], Plus(a, Sum(T, p - 1))) /\ Len(rounds[p]) = m
      BY <1>6, <2>1 DEF PathRounds, Path
    <3> QED BY <2>1, <3>1 DEF Fits
  <2>3. At(s, a, Pos(m, p, j)) = At(rounds[p], Plus(a, Sum(T, p - 1)), j)
    BY <2>1, AtRound DEF s
  <2> QED BY <2>1, <2>2, <2>3
<1> HIDE DEF s, L
<1>8. \A q \in 1 .. N, i \in 1 .. m : s[Pos(m, q, i)] = rounds[q][i]
  BY <1>3, <1>5
<1>9. UNION {Takes(s[i]) : i \in 1 .. L} = UNION {T[q].may : q \in 1 .. N}
  <2> DEFINE u == UNION {Takes(s[i]) : i \in 1 .. L}
             v == UNION {T[q].may : q \in 1 .. N}
  <2>1. ASSUME NEW q \in 1 .. N PROVE T[q].may = UNION {Takes(rounds[q][i]) : i \in 1 .. m}
    <3>1. \A x : Total(x).may = UNION {Takes(x[i]) : i \in 1 .. Len(x)}
      BY DEF Total, Stage
    <3>2. Total(rounds[q]).may = UNION {Takes(rounds[q][i]) : i \in 1 .. Len(rounds[q])}
      BY <3>1
    <3> QED BY <1>6, <3>2
  <2>2. ASSUME NEW i \in 1 .. L PROVE Takes(s[i]) \subseteq v
    <3>1. s[i] = rounds[Round(m, i)][Turn(m, i)] /\ Turn(m, i) \in 1 .. m /\ Round(m, i) \in 1 .. N
      BY <1>3, <1>4
    <3>2. Takes(s[i]) \subseteq T[Round(m, i)].may
      BY <2>1, <3>1
    <3> QED BY <3>1, <3>2
  <2>3. ASSUME NEW q \in 1 .. N PROVE T[q].may \subseteq u
    <3>1. \A i \in 1 .. m : Takes(rounds[q][i]) \subseteq u
      BY <1>5, <1>8
    <3> HIDE DEF u
    <3> QED BY <2>1, <3>1
  <2>4. u \subseteq v
    <3> HIDE DEF v
    <3> QED BY <2>2
  <2>5. v \subseteq u
    <3> HIDE DEF u
    <3> QED BY <2>3
  <2> HIDE DEF u, v
  <2>6. u = v
    BY <2>4, <2>5
  <2> QED BY <2>6 DEF u, v
<1>10. UNION {Sures(s[i]) : i \in 1 .. L} = UNION {T[q].sure : q \in 1 .. N}
  <2> DEFINE u == UNION {Sures(s[i]) : i \in 1 .. L}
             v == UNION {T[q].sure : q \in 1 .. N}
  <2>1. ASSUME NEW q \in 1 .. N PROVE T[q].sure = UNION {Sures(rounds[q][i]) : i \in 1 .. m}
    <3>1. \A x : Total(x).sure = UNION {Sures(x[i]) : i \in 1 .. Len(x)}
      BY DEF Total, Stage
    <3>2. Total(rounds[q]).sure = UNION {Sures(rounds[q][i]) : i \in 1 .. Len(rounds[q])}
      BY <3>1
    <3> QED BY <1>6, <3>2
  <2>2. ASSUME NEW i \in 1 .. L PROVE Sures(s[i]) \subseteq v
    <3>1. s[i] = rounds[Round(m, i)][Turn(m, i)] /\ Turn(m, i) \in 1 .. m /\ Round(m, i) \in 1 .. N
      BY <1>3, <1>4
    <3>2. Sures(s[i]) \subseteq T[Round(m, i)].sure
      BY <2>1, <3>1
    <3> QED BY <3>1, <3>2
  <2>3. ASSUME NEW q \in 1 .. N PROVE T[q].sure \subseteq u
    <3>1. \A i \in 1 .. m : Sures(rounds[q][i]) \subseteq u
      BY <1>5, <1>8
    <3> HIDE DEF u
    <3> QED BY <2>1, <3>1
  <2>4. u \subseteq v
    <3> HIDE DEF v
    <3> QED BY <2>2
  <2>5. v \subseteq u
    <3> HIDE DEF u
    <3> QED BY <2>3
  <2> HIDE DEF u, v
  <2>6. u = v
    BY <2>4, <2>5
  <2> QED BY <2>6 DEF u, v
<1>11. UNION {Firms(s[i]) : i \in 1 .. L} = UNION {T[q].firm : q \in 1 .. N}
  <2> DEFINE u == UNION {Firms(s[i]) : i \in 1 .. L}
             v == UNION {T[q].firm : q \in 1 .. N}
  <2>1. ASSUME NEW q \in 1 .. N PROVE T[q].firm = UNION {Firms(rounds[q][i]) : i \in 1 .. m}
    <3>1. \A x : Total(x).firm = UNION {Firms(x[i]) : i \in 1 .. Len(x)}
      BY DEF Total, Stage
    <3>2. Total(rounds[q]).firm = UNION {Firms(rounds[q][i]) : i \in 1 .. Len(rounds[q])}
      BY <3>1
    <3> QED BY <1>6, <3>2
  <2>2. ASSUME NEW i \in 1 .. L PROVE Firms(s[i]) \subseteq v
    <3>1. s[i] = rounds[Round(m, i)][Turn(m, i)] /\ Turn(m, i) \in 1 .. m /\ Round(m, i) \in 1 .. N
      BY <1>3, <1>4
    <3>2. Firms(s[i]) \subseteq T[Round(m, i)].firm
      BY <2>1, <3>1
    <3> QED BY <3>1, <3>2
  <2>3. ASSUME NEW q \in 1 .. N PROVE T[q].firm \subseteq u
    <3>1. \A i \in 1 .. m : Firms(rounds[q][i]) \subseteq u
      BY <1>5, <1>8
    <3> HIDE DEF u
    <3> QED BY <2>1, <3>1
  <2>4. u \subseteq v
    <3> HIDE DEF v
    <3> QED BY <2>2
  <2>5. v \subseteq u
    <3> HIDE DEF u
    <3> QED BY <2>3
  <2> HIDE DEF u, v
  <2>6. u = v
    BY <2>4, <2>5
  <2> QED BY <2>6 DEF u, v
<1>12. UNION {Counts(s[i]) : i \in 1 .. L} = UNION {T[q].count : q \in 1 .. N}
  <2> DEFINE u == UNION {Counts(s[i]) : i \in 1 .. L}
             v == UNION {T[q].count : q \in 1 .. N}
  <2>1. ASSUME NEW q \in 1 .. N PROVE T[q].count = UNION {Counts(rounds[q][i]) : i \in 1 .. m}
    <3>1. \A x : Total(x).count = UNION {Counts(x[i]) : i \in 1 .. Len(x)}
      BY DEF Total, Stage
    <3>2. Total(rounds[q]).count = UNION {Counts(rounds[q][i]) : i \in 1 .. Len(rounds[q])}
      BY <3>1
    <3> QED BY <1>6, <3>2
  <2>2. ASSUME NEW i \in 1 .. L PROVE Counts(s[i]) \subseteq v
    <3>1. s[i] = rounds[Round(m, i)][Turn(m, i)] /\ Turn(m, i) \in 1 .. m /\ Round(m, i) \in 1 .. N
      BY <1>3, <1>4
    <3>2. Counts(s[i]) \subseteq T[Round(m, i)].count
      BY <2>1, <3>1
    <3> QED BY <3>1, <3>2
  <2>3. ASSUME NEW q \in 1 .. N PROVE T[q].count \subseteq u
    <3>1. \A i \in 1 .. m : Counts(rounds[q][i]) \subseteq u
      BY <1>5, <1>8
    <3> HIDE DEF u
    <3> QED BY <2>1, <3>1
  <2>4. u \subseteq v
    <3> HIDE DEF v
    <3> QED BY <2>2
  <2>5. v \subseteq u
    <3> HIDE DEF u
    <3> QED BY <2>3
  <2> HIDE DEF u, v
  <2>6. u = v
    BY <2>4, <2>5
  <2> QED BY <2>6 DEF u, v
<1>13. Total(s) = Sum(T, N)
  BY <1>2, <1>9, <1>10, <1>11, <1>12 DEF Total, Sum
<1> QED BY <1>2, <1>7, <1>13 DEF Path, s

-----------------------------------------------------------------------------
(* The kinds of steps of a probe function.                                 *)

\* All that r stands on is in F.
Founded(r, F) == \A d \in Resources : Uses(r, d) => d \in F

\* What nothing stands on and what stands on nothing that matters: the work
\* queue, the network interface and the I2C clients.
Idle == {"wq", "net", "client"}

\* They stand on nothing.
LEMMA IdleUses ==
  ASSUME NEW u, u[1] \in Idle, NEW d
  PROVE  ~Uses(u, d)
BY UserTable DEF Stands, Idle

\* A ladder that gives back all but the work queue, the network interface and
\* the I2C clients fits: the labels forget no more.
LEMMA LadderFitsIdle ==
  ASSUME NEW s, NEW G, NEW A, NEW M, NEW X, NEW F, NEW C, Ladder(s, C, G, A), A \subseteq X,
         \A u \in M : u \in G \/ u[1] \in Idle
  PROVE  LadderFits(s, Stage(M, X, F, C))
<1>1. /\ NoUncount(s) /\ s \in Seq(Releases) /\ \A n \in 1 .. Len(s) : WellFormed(s[n])
      /\ Orderly(s, C) /\ Gone(s, C) = G /\ Asked(s, C) \subseteq X
  BY DEF Ladder, Rungs
<1>2. Unwinds(s, M, X, C)
  <2>1. ASSUME NEW u \in M, NEW d \in G, Uses(u, d) PROVE u \in G
    BY <2>1, IdleUses
  <2> QED BY <1>1, <2>1 DEF Unwinds
<1>3. Forgotten(M \ G)
  <2>1. \A r \in M \ G : r[1] \in Idle
    OBVIOUS
  <2>2. \A p \in Parts : \A u, n : <<p, u, n>> \notin M \ G
    <3> SUFFICES ASSUME NEW p \in Parts, NEW u, NEW n, <<p, u, n>> \in M \ G PROVE FALSE
      OBVIOUS
    <3>1. p \in Idle
      BY <2>1
    <3> QED BY <3>1 DEF Parts, Idle
  <2>3. \A u, n : {p \in Parts : <<p, u, n>> \in M \ G} = {}
    BY <2>2
  <2>4. \A r \in M \ G : r[1] \in {"wq", "net", "client", "msix"} \cup Parts
    BY <2>1 DEF Idle
  <2> QED BY <2>3, <2>4 DEF Forgotten
<1> QED BY <1>1, <1>2, <1>3 DEF LadderFits, Stage

\* The names of the resources.
LEMMA ResourceNames ==
  /\ \A x \in Singles : R(x) \in Resources
  /\ \A i \in {0, 1} : <<"i2c", i>> \in Resources
BY DEF Resources, R

\* The device structure and the interrupt are resources, and no DMA buffers.
LEMMA DevNoBuffer ==
  R("dev") \notin Buffers /\ R("irq") \notin Buffers /\ R("dev") \in Resources /\ R("irq") \in Resources
BY DEF Buffers, Resources, R, Singles, Parts

\* The resource an adapter is counted by.
LEMMA CountedName ==
  ASSUME NEW i \in 0 .. Adapters - 1
  PROVE  <<"adapter", i>> \in Resources /\ <<"adapter", i>> \notin Buffers /\ <<"adapter", i>>[2] = i
BY DEF Buffers, Resources, PerAdapter

\* What fits: a step that takes r or fails into the ladder "undo".
LEMMA TakePath ==
  ASSUME NEW crd, NEW M, NEW X, NEW F, NEW C,
         NEW r \in Resources, NEW undo \in Seq(Releases), r # R("irq"), Founded(r, F),
         LadderFits(undo, Stage(M, X, F, C))
  PROVE  Path(crd, <<Take(r, undo)>>, Stage(M, X, F, C), Stage({r}, {r}, {r}, {}))
<1> DEFINE step == Take(r, undo)
           a == Stage(M, X, F, C)
<1>1. step \in Takings /\ step.op = "take" /\ step.res = r /\ step.only = {}
      /\ step.may = {"ok", "fail"} /\ step.fail = undo
  BY DEF Take, Step, Takings, Outcomes
<1>2. a.firm = F /\ a.count = C
  BY DEF Stage
<1> HIDE DEF step, a
<1>3. Takes(step) = {r} /\ Counts(step) = {} /\ Sures(step) = {r} /\ Firms(step) = {r}
  BY <1>1 DEF Takes, Counts, Sures, Firms, Certain
<1>4. StepFits(crd, step, a)
  <2>1. \A u \in Takes(step), d \in Resources : Uses(u, d) => d \in a.firm \cup step.only
    BY <1>1, <1>2, <1>3 DEF Founded
  <2>2. step.may \cap {"fail", "quiet"} # {} => LadderFits(step.fail, a)
    BY <1>1 DEF a
  <2> QED BY <1>1, <1>2, <2>1, <2>2 DEF StepFits
<1>5. Path(crd, <<step>>, a, Delta(step))
  BY <1>1, <1>4, PathStep DEF a
<1> QED BY <1>3, <1>5 DEF Delta, step, a

\* What fits: the same where the code forgets to set err.
LEMMA TakeQuietPath ==
  ASSUME NEW crd, NEW M, NEW X, NEW F, NEW C,
         NEW r \in Resources, NEW undo \in Seq(Releases), crd # "cap", r # R("irq"), Founded(r, F),
         LadderFits(undo, Stage(M, X, F, C))
  PROVE  Path(crd, <<TakeQuiet(r, undo)>>, Stage(M, X, F, C), Stage({r}, {r}, {r}, {}))
<1> DEFINE step == TakeQuiet(r, undo)
           a == Stage(M, X, F, C)
<1>1. step \in Takings /\ step.op = "take" /\ step.res = r /\ step.only = {}
      /\ step.may = {"ok", "quiet"} /\ step.fail = undo
  BY DEF TakeQuiet, Step, Takings, Outcomes
<1>2. a.firm = F /\ a.count = C
  BY DEF Stage
<1> HIDE DEF step, a
<1>3. Takes(step) = {r} /\ Counts(step) = {} /\ Sures(step) = {r} /\ Firms(step) = {r}
  BY <1>1 DEF Takes, Counts, Sures, Firms, Certain
<1>4. StepFits(crd, step, a)
  <2>1. \A u \in Takes(step), d \in Resources : Uses(u, d) => d \in a.firm \cup step.only
    BY <1>1, <1>2, <1>3 DEF Founded
  <2>2. step.may \cap {"fail", "quiet"} # {} => LadderFits(step.fail, a)
    BY <1>1 DEF a
  <2> QED BY <1>1, <1>2, <2>1, <2>2 DEF StepFits
<1>5. Path(crd, <<step>>, a, Delta(step))
  BY <1>1, <1>4, PathStep DEF a
<1> QED BY <1>3, <1>5 DEF Delta, step, a

\* What fits: a step that takes r without fail.
LEMMA GetPath ==
  ASSUME NEW crd, NEW M, NEW X, NEW F, NEW C,
         NEW r \in Resources, r # R("irq"), Founded(r, F)
  PROVE  Path(crd, <<Get(r)>>, Stage(M, X, F, C), Stage({r}, {r}, {r}, {}))
<1> DEFINE step == Get(r)
           a == Stage(M, X, F, C)
<1>1. step \in Takings /\ step.op = "take" /\ step.res = r /\ step.only = {}
      /\ step.may = {"ok"} /\ step.fail = <<>>
  BY DEF Get, Step, Takings, Outcomes
<1>2. a.firm = F /\ a.count = C
  BY DEF Stage
<1> HIDE DEF step, a
<1>3. Takes(step) = {r} /\ Counts(step) = {} /\ Sures(step) = {r} /\ Firms(step) = {r}
  BY <1>1 DEF Takes, Counts, Sures, Firms, Certain
<1>4. StepFits(crd, step, a)
  <2>1. \A u \in Takes(step), d \in Resources : Uses(u, d) => d \in a.firm \cup step.only
    BY <1>1, <1>2, <1>3 DEF Founded
  <2>2. step.may \cap {"fail", "quiet"} # {} => LadderFits(step.fail, a)
    BY <1>1 DEF a
  <2> QED BY <1>1, <1>2, <2>1, <2>2 DEF StepFits
<1>5. Path(crd, <<step>>, a, Delta(step))
  BY <1>1, <1>4, PathStep DEF a
<1> QED BY <1>3, <1>5 DEF Delta, step, a

\* What fits: a step that takes r or goes on without it.
LEMMA TryPath ==
  ASSUME NEW crd, NEW M, NEW X, NEW F, NEW C,
         NEW r \in Resources, r \notin Buffers,
         r # R("irq"), Founded(r, F)
  PROVE  Path(crd, <<Try(r)>>, Stage(M, X, F, C), Stage({r}, {}, {}, {}))
<1> DEFINE step == Try(r)
           a == Stage(M, X, F, C)
<1>1. step \in Takings /\ step.op = "take" /\ step.res = r /\ step.only = {}
      /\ step.may = {"ok", "skip"} /\ step.fail = <<>>
  BY DEF Try, Step, Takings, Outcomes
<1>2. a.firm = F /\ a.count = C
  BY DEF Stage
<1> HIDE DEF step, a
<1>3. Takes(step) = {r} /\ Counts(step) = {} /\ Sures(step) = {} /\ Firms(step) = {}
  BY <1>1 DEF Takes, Counts, Sures, Firms, Certain
<1>4. StepFits(crd, step, a)
  <2>1. \A u \in Takes(step), d \in Resources : Uses(u, d) => d \in a.firm \cup step.only
    BY <1>1, <1>2, <1>3 DEF Founded
  <2>2. step.may \cap {"fail", "quiet"} # {} => LadderFits(step.fail, a)
    BY <1>1 DEF a
  <2> QED BY <1>1, <1>2, <2>1, <2>2 DEF StepFits
<1>5. Path(crd, <<step>>, a, Delta(step))
  BY <1>1, <1>4, PathStep DEF a
<1> QED BY <1>3, <1>5 DEF Delta, step, a

\* What fits: a step that takes r, or goes on as if it had.
LEMMA BlindPath ==
  ASSUME NEW crd, NEW M, NEW X, NEW F, NEW C,
         NEW r \in Resources, r \in Blinds, r \notin Buffers,
         r # R("irq"), Founded(r, F)
  PROVE  Path(crd, <<Blind(r)>>, Stage(M, X, F, C), Stage({r}, {r}, {}, {}))
<1> DEFINE step == Blind(r)
           a == Stage(M, X, F, C)
<1>1. step \in Takings /\ step.op = "take" /\ step.res = r /\ step.only = {}
      /\ step.may = {"ok", "short"} /\ step.fail = <<>>
  BY DEF Blind, Step, Takings, Outcomes
<1>2. a.firm = F /\ a.count = C
  BY DEF Stage
<1> HIDE DEF step, a
<1>3. Takes(step) = {r} /\ Counts(step) = {} /\ Sures(step) = {r} /\ Firms(step) = {}
  BY <1>1 DEF Takes, Counts, Sures, Firms, Certain
<1>4. StepFits(crd, step, a)
  <2>1. \A u \in Takes(step), d \in Resources : Uses(u, d) => d \in a.firm \cup step.only
    BY <1>1, <1>2, <1>3 DEF Founded
  <2>2. step.may \cap {"fail", "quiet"} # {} => LadderFits(step.fail, a)
    BY <1>1 DEF a
  <2> QED BY <1>1, <1>2, <2>1, <2>2 DEF StepFits
<1>5. Path(crd, <<step>>, a, Delta(step))
  BY <1>1, <1>4, PathStep DEF a
<1> QED BY <1>3, <1>5 DEF Delta, step, a

\* What fits: a step that takes r, goes on without it, or goes on as if it
\* had it.
LEMMA BlindTryPath ==
  ASSUME NEW crd, NEW M, NEW X, NEW F, NEW C,
         NEW r \in Resources, r \in Blinds, r \notin Buffers,
         r # R("irq"), Founded(r, F)
  PROVE  Path(crd, <<Step("take", r, {}, {"ok", "skip", "short"}, <<>>)>>, Stage(M, X, F, C),
           Stage({r}, {}, {}, {}))
<1> DEFINE step == Step("take", r, {}, {"ok", "skip", "short"}, <<>>)
           a == Stage(M, X, F, C)
<1>1. step \in Takings /\ step.op = "take" /\ step.res = r /\ step.only = {}
      /\ step.may = {"ok", "skip", "short"} /\ step.fail = <<>>
  BY DEF Step, Takings, Outcomes
<1>2. a.firm = F /\ a.count = C
  BY DEF Stage
<1> HIDE DEF step, a
<1>3. Takes(step) = {r} /\ Counts(step) = {} /\ Sures(step) = {} /\ Firms(step) = {}
  BY <1>1 DEF Takes, Counts, Sures, Firms, Certain
<1>4. StepFits(crd, step, a)
  <2>1. \A u \in Takes(step), d \in Resources : Uses(u, d) => d \in a.firm \cup step.only
    BY <1>1, <1>2, <1>3 DEF Founded
  <2>2. step.may \cap {"fail", "quiet"} # {} => LadderFits(step.fail, a)
    BY <1>1 DEF a
  <2> QED BY <1>1, <1>2, <2>1, <2>2 DEF StepFits
<1>5. Path(crd, <<step>>, a, Delta(step))
  BY <1>1, <1>4, PathStep DEF a
<1> QED BY <1>3, <1>5 DEF Delta, step, a

\* What fits: a step that takes r, goes on without it or fails into "undo".
LEMMA TryTakePath ==
  ASSUME NEW crd, NEW M, NEW X, NEW F, NEW C,
         NEW r \in Resources, NEW undo \in Seq(Releases), r \notin Buffers,
         r # R("irq"), Founded(r, F), LadderFits(undo, Stage(M, X, F, C))
  PROVE  Path(crd, <<Step("take", r, {}, {"ok", "skip", "fail"}, undo)>>, Stage(M, X, F, C),
           Stage({r}, {}, {}, {}))
<1> DEFINE step == Step("take", r, {}, {"ok", "skip", "fail"}, undo)
           a == Stage(M, X, F, C)
<1>1. step \in Takings /\ step.op = "take" /\ step.res = r /\ step.only = {}
      /\ step.may = {"ok", "skip", "fail"} /\ step.fail = undo
  BY DEF Step, Takings, Outcomes
<1>2. a.firm = F /\ a.count = C
  BY DEF Stage
<1> HIDE DEF step, a
<1>3. Takes(step) = {r} /\ Counts(step) = {} /\ Sures(step) = {} /\ Firms(step) = {}
  BY <1>1 DEF Takes, Counts, Sures, Firms, Certain
<1>4. StepFits(crd, step, a)
  <2>1. \A u \in Takes(step), d \in Resources : Uses(u, d) => d \in a.firm \cup step.only
    BY <1>1, <1>2, <1>3 DEF Founded
  <2>2. step.may \cap {"fail", "quiet"} # {} => LadderFits(step.fail, a)
    BY <1>1 DEF a
  <2> QED BY <1>1, <1>2, <2>1, <2>2 DEF StepFits
<1>5. Path(crd, <<step>>, a, Delta(step))
  BY <1>1, <1>4, PathStep DEF a
<1> QED BY <1>3, <1>5 DEF Delta, step, a

\* What fits: a step that takes r where "base" is there.
LEMMA TakeIfPath ==
  ASSUME NEW crd, NEW M, NEW X, NEW F, NEW C,
         NEW r \in Resources, NEW base \in Resources, NEW undo \in Seq(Releases),
         base \notin Blinds, r \notin Buffers, r # R("irq"), Founded(r, F \cup {base}),
         LadderFits(undo, Stage(M, X, F, C))
  PROVE  Path(crd, <<Step("take", r, {base}, {"ok", "fail"}, undo)>>, Stage(M, X, F, C),
           Stage({r}, {}, {}, {}))
<1> DEFINE step == Step("take", r, {base}, {"ok", "fail"}, undo)
           a == Stage(M, X, F, C)
<1>1. step \in Takings /\ step.op = "take" /\ step.res = r /\ step.only = {base}
      /\ step.may = {"ok", "fail"} /\ step.fail = undo
  BY DEF Step, Takings, Outcomes
<1>2. a.firm = F /\ a.count = C
  BY DEF Stage
<1> HIDE DEF step, a
<1>3. Takes(step) = {r} /\ Counts(step) = {} /\ Sures(step) = {} /\ Firms(step) = {}
  BY <1>1 DEF Takes, Counts, Sures, Firms, Certain
<1>4. StepFits(crd, step, a)
  <2>1. \A u \in Takes(step), d \in Resources : Uses(u, d) => d \in a.firm \cup step.only
    BY <1>1, <1>2, <1>3 DEF Founded
  <2>2. step.may \cap {"fail", "quiet"} # {} => LadderFits(step.fail, a)
    BY <1>1 DEF a
  <2> QED BY <1>1, <1>2, <2>1, <2>2 DEF StepFits, Blinds
<1>5. Path(crd, <<step>>, a, Delta(step))
  BY <1>1, <1>4, PathStep DEF a
<1> QED BY <1>3, <1>5 DEF Delta, step, a

\* What fits: a check that fails into "undo".
LEMMA CheckPath ==
  ASSUME NEW crd, NEW M, NEW X, NEW F, NEW C,
         NEW undo \in Seq(Releases), LadderFits(undo, Stage(M, X, F, C))
  PROVE  Path(crd, <<Check({"ok", "fail"}, undo)>>, Stage(M, X, F, C), Stage({}, {}, {}, {}))
<1> DEFINE step == Check({"ok", "fail"}, undo)
           a == Stage(M, X, F, C)
<1>1. step \in Takings /\ step.op = "check" /\ step.res = R("dev") /\ step.only = {}
      /\ step.may = {"ok", "fail"} /\ step.fail = undo
  BY ResourceNames, DevNoBuffer DEF Check, Step, Takings, Outcomes
<1>2. a.firm = F /\ a.count = C
  BY DEF Stage
<1> HIDE DEF step, a
<1>3. Takes(step) = {} /\ Counts(step) = {} /\ Sures(step) = {} /\ Firms(step) = {}
  BY <1>1 DEF Takes, Counts, Sures, Firms, Certain
<1>4. StepFits(crd, step, a)
  <2>1. \A u \in Takes(step), d \in Resources : Uses(u, d) => d \in a.firm \cup step.only
    BY <1>1, <1>2, <1>3 DEF Founded
  <2>2. step.may \cap {"fail", "quiet"} # {} => LadderFits(step.fail, a)
    BY <1>1 DEF a
  <2> QED BY ResourceNames, DevNoBuffer, <1>1, <1>2, <2>1, <2>2 DEF StepFits
<1>5. Path(crd, <<step>>, a, Delta(step))
  BY <1>1, <1>4, PathStep DEF a
<1> QED BY <1>3, <1>5 DEF Delta, step, a

\* What fits: a check after which err may be forgotten.
LEMMA CheckQuietPath ==
  ASSUME NEW crd, NEW M, NEW X, NEW F, NEW C,
         NEW undo \in Seq(Releases), crd # "cap", LadderFits(undo, Stage(M, X, F, C))
  PROVE  Path(crd, <<Check({"ok", "fail", "quiet"}, undo)>>, Stage(M, X, F, C), Stage({}, {}, {}, {}))
<1> DEFINE step == Check({"ok", "fail", "quiet"}, undo)
           a == Stage(M, X, F, C)
<1>1. step \in Takings /\ step.op = "check" /\ step.res = R("dev") /\ step.only = {}
      /\ step.may = {"ok", "fail", "quiet"} /\ step.fail = undo
  BY ResourceNames, DevNoBuffer DEF Check, Step, Takings, Outcomes
<1>2. a.firm = F /\ a.count = C
  BY DEF Stage
<1> HIDE DEF step, a
<1>3. Takes(step) = {} /\ Counts(step) = {} /\ Sures(step) = {} /\ Firms(step) = {}
  BY <1>1 DEF Takes, Counts, Sures, Firms, Certain
<1>4. StepFits(crd, step, a)
  <2>1. \A u \in Takes(step), d \in Resources : Uses(u, d) => d \in a.firm \cup step.only
    BY <1>1, <1>2, <1>3 DEF Founded
  <2>2. step.may \cap {"fail", "quiet"} # {} => LadderFits(step.fail, a)
    BY <1>1 DEF a
  <2> QED BY ResourceNames, DevNoBuffer, <1>1, <1>2, <2>1, <2>2 DEF StepFits
<1>5. Path(crd, <<step>>, a, Delta(step))
  BY <1>1, <1>4, PathStep DEF a
<1> QED BY <1>3, <1>5 DEF Delta, step, a

\* What fits: the registration of the interrupt.
LEMMA IrqPath ==
  ASSUME NEW crd, NEW M, NEW X, NEW F, NEW C,
         NEW undo \in Seq(Releases), crd = "cap" => R("wq") \in F,
         Founded(R("irq"), F), Founded(R("msi"), F), LadderFits(undo, Stage(M, X, F, C))
  PROVE  Path(crd, <<Step("irq", R("irq"), {}, {"ok", "fail"}, undo)>>, Stage(M, X, F, C),
           Stage({R("irq"), R("msi")}, {R("irq")}, {R("irq")}, {}))
<1> DEFINE step == Step("irq", R("irq"), {}, {"ok", "fail"}, undo)
           a == Stage(M, X, F, C)
<1>1. step \in Takings /\ step.op = "irq" /\ step.res = R("irq") /\ step.only = {}
      /\ step.may = {"ok", "fail"} /\ step.fail = undo
  BY ResourceNames, DevNoBuffer DEF Step, Takings, Outcomes
<1>2. a.firm = F /\ a.count = C
  BY DEF Stage
<1> HIDE DEF step, a
<1>3. Takes(step) = {R("irq"), R("msi")} /\ Counts(step) = {} /\ Sures(step) = {R("irq")}
        /\ Firms(step) = {R("irq")}
  BY <1>1 DEF Takes, Counts, Sures, Firms, Certain
<1>4. StepFits(crd, step, a)
  <2>1. \A u \in Takes(step), d \in Resources : Uses(u, d) => d \in a.firm \cup step.only
    BY <1>1, <1>2, <1>3 DEF Founded
  <2>2. step.may \cap {"fail", "quiet"} # {} => LadderFits(step.fail, a)
    BY <1>1 DEF a
  <2> QED BY ResourceNames, DevNoBuffer, <1>1, <1>2, <2>1, <2>2 DEF StepFits
<1>5. Path(crd, <<step>>, a, Delta(step))
  BY <1>1, <1>4, PathStep DEF a
<1> QED BY <1>3, <1>5 DEF Delta, step, a

\* What fits: the step that counts an adapter.
LEMMA CountPath ==
  ASSUME NEW crd, NEW M, NEW X, NEW F, NEW C,
         NEW i \in 0 .. Adapters - 1, C = 0 .. i - 1
  PROVE  Path(crd, <<Plain("count", <<"adapter", i>>)>>, Stage(M, X, F, C), Stage({}, {}, {}, {i}))
<1> DEFINE step == Plain("count", <<"adapter", i>>)
           a == Stage(M, X, F, C)
<1>1. step \in Takings /\ step.op = "count" /\ step.res = <<"adapter", i>> /\ step.only = {}
      /\ step.may = {"ok"} /\ step.fail = <<>>
  BY CountedName DEF Plain, Step, Takings, Outcomes
<1>2. a.firm = F /\ a.count = C
  BY DEF Stage
<1> HIDE DEF step, a
<1>3. Takes(step) = {} /\ Counts(step) = {i} /\ Sures(step) = {} /\ Firms(step) = {}
  BY <1>1 DEF Takes, Counts, Sures, Firms, Certain
<1>4. StepFits(crd, step, a)
  <2>1. \A u \in Takes(step), d \in Resources : Uses(u, d) => d \in a.firm \cup step.only
    BY <1>1, <1>2, <1>3 DEF Founded
  <2>2. step.may \cap {"fail", "quiet"} # {} => LadderFits(step.fail, a)
    BY <1>1 DEF a
  <2> QED BY CountedName, <1>1, <1>2, <2>1, <2>2 DEF StepFits
<1>5. Path(crd, <<step>>, a, Delta(step))
  BY <1>1, <1>4, PathStep DEF a
<1> QED BY <1>3, <1>5 DEF Delta, step, a

\* What fits: the step that sets a private pointer.
LEMMA PointPath ==
  ASSUME NEW crd, NEW M, NEW X, NEW F, NEW C,
         NEW r \in Resources, r \notin Buffers,
         r \in F \cap {R("sti"), R("ir")} \cap Cleared(RemoveSteps[crd])
  PROVE  Path(crd, <<Plain("point", r)>>, Stage(M, X, F, C), Stage({}, {}, {}, {}))
<1> DEFINE step == Plain("point", r)
           a == Stage(M, X, F, C)
<1>1. step \in Takings /\ step.op = "point" /\ step.res = r /\ step.only = {}
      /\ step.may = {"ok"} /\ step.fail = <<>>
  BY DEF Plain, Step, Takings, Outcomes
<1>2. a.firm = F /\ a.count = C
  BY DEF Stage
<1> HIDE DEF step, a
<1>3. Takes(step) = {} /\ Counts(step) = {} /\ Sures(step) = {} /\ Firms(step) = {}
  BY <1>1 DEF Takes, Counts, Sures, Firms, Certain
<1>4. StepFits(crd, step, a)
  <2>1. \A u \in Takes(step), d \in Resources : Uses(u, d) => d \in a.firm \cup step.only
    BY <1>1, <1>2, <1>3 DEF Founded
  <2>2. step.may \cap {"fail", "quiet"} # {} => LadderFits(step.fail, a)
    BY <1>1 DEF a
  <2> QED BY <1>1, <1>2, <2>1, <2>2 DEF StepFits
<1>5. Path(crd, <<step>>, a, Delta(step))
  BY <1>1, <1>4, PathStep DEF a
<1> QED BY <1>3, <1>5 DEF Delta, step, a

-----------------------------------------------------------------------------
(* The labels and the exit functions of the core.                          *)

\* What saa716x_pci_exit(), the I2C adapters and the labels fail2 and fail3
\* give back, and what of it must be there.
PciGone   == {R("irq"), R("msi"), R("mmio"), R("bar"), R("pci"), R("drvdata")}
PciAsks   == {R("irq"), R("mmio"), R("bar"), R("pci")}
I2cs      == {<<"i2c", 0>>, <<"i2c", 1>>}
Fail2Gone == PciGone \cup {R("dev")}
Fail2Asks == PciAsks \cup {R("dev")}
Fail3Gone == I2cs \cup Fail2Gone
Fail3Asks == I2cs \cup Fail2Asks

\* flush_workqueue() and the clearing of a pointer give nothing back.
LEMMA IdleStep ==
  ASSUME NEW r \in Resources
  PROVE  /\ Plain("flush", r) \in Releases /\ Plain("clear", r) \in Releases
         /\ WellFormed(Plain("flush", r)) /\ WellFormed(Plain("clear", r))
         /\ Plain("flush", r).op = "flush" /\ Plain("clear", r).op = "clear"
         /\ \A C : /\ Gives(Plain("flush", r), C) = {} /\ Gives(Plain("clear", r), C) = {}
                  /\ Asks(Plain("flush", r), C) = {} /\ Asks(Plain("clear", r), C) = {}
BY DEF Plain, Step, Releases, WellFormed, Gives, Asks, Outcomes

\* They may be put before any ladder.
LEMMA LadderIdle ==
  ASSUME NEW k, NEW C, NEW G, NEW A, Ladder(k, C, G, A), NEW r \in Resources
  PROVE  /\ Ladder(<<Plain("flush", r)>> \o k, C, G, A)
         /\ Ladder(<<Plain("clear", r)>> \o k, C, G, A)
<1>1. /\ Rungs(<<Plain("flush", r)>>, C, {}, {})
      /\ Rungs(<<Plain("clear", r)>>, C, {}, {})
  <2>1. Rungs(<<Plain("flush", r)>>, C, Gives(Plain("flush", r), C), Asks(Plain("flush", r), C))
    BY IdleStep, OneRung
  <2>2. Rungs(<<Plain("clear", r)>>, C, Gives(Plain("clear", r), C), Asks(Plain("clear", r), C))
    BY IdleStep, OneRung
  <2> QED BY <2>1, <2>2, IdleStep
<1>2. NoUncount(<<Plain("flush", r)>>) /\ NoUncount(<<Plain("clear", r)>>)
  BY IdleStep DEF NoUncount
<1>3. {} \cap G = {} /\ \A u \in G, d \in {} : ~Uses(u, d)
  OBVIOUS
<1>4. Ladder(<<Plain("flush", r)>> \o k, C, {} \cup G, {} \cup A)
  BY <1>1, <1>2, <1>3, LadderConcat DEF Ladder
<1>5. Ladder(<<Plain("clear", r)>> \o k, C, {} \cup G, {} \cup A)
  BY <1>1, <1>2, <1>3, LadderConcat DEF Ladder
<1>6. {} \cup G = G /\ {} \cup A = A
  OBVIOUS
<1> QED BY <1>4, <1>5, <1>6

\* The label fail1 of the probe functions is a ladder that gives back the
\* structure.
LEMMA Fail1Ladder ==
  ASSUME NEW C
  PROVE  Ladder(Fail1, C, {R("dev")}, {R("dev")})
<1> DEFINE x1 == Drop(R("dev"))
           k1 == <<x1>>
<1>1. /\ R("dev") \in Resources
  BY ResourceNames DEF Singles, PerAdapter
<1>2. x1 \in Releases
  BY <1>1, DropStep
<1>3. Fail1 = k1
  BY DEF Fail1
<1> HIDE DEF x1
<1>a1. k1 = <<x1>> \o <<>>
  BY <1>2
<1> HIDE DEF k1
<1> DEFINE g0 == {}
           b0 == {}
           g1 == {R("dev")} \cup g0
           b1 == {R("dev")} \cup b0
<1>6. Ladder(<<>>, C, g0, b0)
  BY EmptyLadder
<1>7. R("dev") \notin g0 /\ \A u \in g0 : ~Uses(u, R("dev"))
  BY UserTable DEF Stands, R
<1>8. Ladder(k1, C, g1, b1)
  <2> HIDE DEF g0, b0
  <2>1. Ladder(k1, C, {R("dev")} \cup g0, {R("dev")} \cup b0)
    BY <1>1, <1>6, <1>7, <1>a1, LadderDrop DEF x1
  <2> QED BY <2>1
<1>9. g1 = {R("dev")} /\ b1 = {R("dev")}
  BY DEF PciGone, PciAsks, I2cs
<1> HIDE DEF g0, g1, b0, b1
<1> QED BY <1>3, <1>8, <1>9

\* saa716x_pci_exit() is a ladder: the handler before the registers, those
\* before the bars, those before the device.
LEMMA PciExitLadder ==
  ASSUME NEW C
  PROVE  Ladder(PciExit, C, PciGone, PciAsks)
<1> DEFINE x1 == DropIf(R("drvdata"))
           x2 == Drop(R("pci"))
           x3 == Drop(R("bar"))
           x4 == Drop(R("mmio"))
           x5 == DropIf(R("msi"))
           x6 == Drop(R("irq"))
           k1 == <<x1>>
           k2 == <<x2, x1>>
           k3 == <<x3, x2, x1>>
           k4 == <<x4, x3, x2, x1>>
           k5 == <<x5, x4, x3, x2, x1>>
           k6 == <<x6, x5, x4, x3, x2, x1>>
<1>1. /\ R("bar") \in Resources
      /\ R("drvdata") \in Resources
      /\ R("irq") \in Resources
      /\ R("mmio") \in Resources
      /\ R("msi") \in Resources
      /\ R("pci") \in Resources
  BY ResourceNames DEF Singles, PerAdapter
<1>2. x1 \in Releases /\ x2 \in Releases /\ x3 \in Releases /\ x4 \in Releases /\ x5 \in Releases
        /\ x6 \in Releases
  BY <1>1, DropStep
<1>3. PciExit = k6
  BY DEF PciExit
<1> HIDE DEF x1, x2, x3, x4, x5, x6
<1>a1. k1 = <<x1>> \o <<>>
  BY <1>2
<1>a2. k2 = <<x2>> \o k1
  BY <1>2, Pair
<1>a3. k3 = <<x3>> \o k2
  BY <1>2
<1>a4. k4 = <<x4>> \o k3
  BY <1>2
<1>a5. k5 = <<x5>> \o k4
  BY <1>2
<1>a6. k6 = <<x6>> \o k5
  BY <1>2
<1> HIDE DEF k1, k2, k3, k4, k5, k6
<1> DEFINE g0 == {}
           b0 == {}
           g1 == {R("drvdata")} \cup g0
           b1 == b0
           g2 == {R("pci")} \cup g1
           b2 == {R("pci")} \cup b1
           g3 == {R("bar")} \cup g2
           b3 == {R("bar")} \cup b2
           g4 == {R("mmio")} \cup g3
           b4 == {R("mmio")} \cup b3
           g5 == {R("msi")} \cup g4
           b5 == b4
           g6 == {R("irq")} \cup g5
           b6 == {R("irq")} \cup b5
<1>6. Ladder(<<>>, C, g0, b0)
  BY EmptyLadder
<1>7. R("drvdata") \notin g0 /\ \A u \in g0 : ~Uses(u, R("drvdata"))
  BY UserTable DEF Stands, R
<1>8. Ladder(k1, C, g1, b1)
  <2> HIDE DEF g0, b0
  <2>1. Ladder(k1, C, {R("drvdata")} \cup g0, b0)
    BY <1>1, <1>6, <1>7, <1>a1, LadderDrop DEF x1
  <2> QED BY <2>1
<1>9. R("pci") \notin g1 /\ \A u \in g1 : ~Uses(u, R("pci"))
  BY UserTable DEF Stands, R
<1>10. Ladder(k2, C, g2, b2)
  <2> HIDE DEF g1, b1
  <2>1. Ladder(k2, C, {R("pci")} \cup g1, {R("pci")} \cup b1)
    BY <1>1, <1>8, <1>9, <1>a2, LadderDrop DEF x2
  <2> QED BY <2>1
<1>11. R("bar") \notin g2 /\ \A u \in g2 : ~Uses(u, R("bar"))
  BY UserTable DEF Stands, R
<1>12. Ladder(k3, C, g3, b3)
  <2> HIDE DEF g2, b2
  <2>1. Ladder(k3, C, {R("bar")} \cup g2, {R("bar")} \cup b2)
    BY <1>1, <1>10, <1>11, <1>a3, LadderDrop DEF x3
  <2> QED BY <2>1
<1>13. R("mmio") \notin g3 /\ \A u \in g3 : ~Uses(u, R("mmio"))
  BY UserTable DEF Stands, R
<1>14. Ladder(k4, C, g4, b4)
  <2> HIDE DEF g3, b3
  <2>1. Ladder(k4, C, {R("mmio")} \cup g3, {R("mmio")} \cup b3)
    BY <1>1, <1>12, <1>13, <1>a4, LadderDrop DEF x4
  <2> QED BY <2>1
<1>15. R("msi") \notin g4 /\ \A u \in g4 : ~Uses(u, R("msi"))
  BY UserTable DEF Stands, R
<1>16. Ladder(k5, C, g5, b5)
  <2> HIDE DEF g4, b4
  <2>1. Ladder(k5, C, {R("msi")} \cup g4, b4)
    BY <1>1, <1>14, <1>15, <1>a5, LadderDrop DEF x5
  <2> QED BY <2>1
<1>17. R("irq") \notin g5 /\ \A u \in g5 : ~Uses(u, R("irq"))
  BY UserTable DEF Stands, R
<1>18. Ladder(k6, C, g6, b6)
  <2> HIDE DEF g5, b5
  <2>1. Ladder(k6, C, {R("irq")} \cup g5, {R("irq")} \cup b5)
    BY <1>1, <1>16, <1>17, <1>a6, LadderDrop DEF x6
  <2> QED BY <2>1
<1>19. g6 = PciGone /\ b6 = PciAsks
  BY DEF PciGone, PciAsks, I2cs
<1> HIDE DEF g0, g1, g2, g3, g4, g5, g6, b0, b1, b2, b3, b4, b5, b6
<1> QED BY <1>3, <1>18, <1>19

\* The label fail0 of saa716x_pci_init() and what its caller runs then.
LEMMA PciFail0Ladder ==
  ASSUME NEW C
  PROVE  Ladder(PciFail0, C, {R("drvdata"), R("dev")}, {R("dev")})
<1>1. Ladder(Fail1, C, {R("dev")}, {R("dev")})
  BY Fail1Ladder
<1>2. R("drvdata") \in Resources
  BY ResourceNames DEF Singles, PerAdapter
<1>3. R("drvdata") \notin {R("dev")} /\ \A u \in {R("dev")} : ~Uses(u, R("drvdata"))
  BY UserTable DEF Stands, R
<1>4. Ladder(<<DropIf(R("drvdata"))>> \o Fail1, C, {R("drvdata")} \cup {R("dev")}, {R("dev")})
  BY <1>1, <1>2, <1>3, LadderDrop
<1>5. {R("drvdata")} \cup {R("dev")} = {R("drvdata"), R("dev")}
  BY DEF R
<1> QED BY <1>4, <1>5 DEF PciFail0

\* The label fail1 of saa716x_pci_init(), with the labels below it.
LEMMA PciFail1Ladder ==
  ASSUME NEW C
  PROVE  Ladder(PciFail1, C, {R("pci"), R("drvdata"), R("dev")}, {R("pci"), R("dev")})
<1>1. Ladder(PciFail0, C, {R("drvdata"), R("dev")}, {R("dev")})
  BY PciFail0Ladder
<1>2. R("pci") \in Resources
  BY ResourceNames DEF Singles, PerAdapter
<1>3. R("pci") \notin {R("drvdata"), R("dev")} /\ \A u \in {R("drvdata"), R("dev")} : ~Uses(u, R("pci"))
  BY UserTable DEF Stands, R
<1>4. Ladder(<<Drop(R("pci"))>> \o PciFail0, C, {R("pci")} \cup {R("drvdata"), R("dev")},
        {R("pci")} \cup {R("dev")})
  BY <1>1, <1>2, <1>3, LadderDrop
<1>5. {R("pci")} \cup {R("drvdata"), R("dev")} = {R("pci"), R("drvdata"), R("dev")}
        /\ {R("pci")} \cup {R("dev")} = {R("pci"), R("dev")}
  BY DEF R
<1> QED BY <1>4, <1>5 DEF PciFail1

\* The label fail2 of saa716x_pci_init(), with the labels below it.
LEMMA PciFail2Ladder ==
  ASSUME NEW C
  PROVE  Ladder(PciFail2, C, {R("bar"), R("pci"), R("drvdata"), R("dev")}, {R("bar"), R("pci"), R("dev")})
<1>1. Ladder(PciFail1, C, {R("pci"), R("drvdata"), R("dev")}, {R("pci"), R("dev")})
  BY PciFail1Ladder
<1>2. R("bar") \in Resources
  BY ResourceNames DEF Singles, PerAdapter
<1>3. R("bar") \notin {R("pci"), R("drvdata"), R("dev")}
        /\ \A u \in {R("pci"), R("drvdata"), R("dev")} : ~Uses(u, R("bar"))
  BY UserTable DEF Stands, R
<1>4. Ladder(<<Drop(R("bar"))>> \o PciFail1, C, {R("bar")} \cup {R("pci"), R("drvdata"),
        R("dev")}, {R("bar")} \cup {R("pci"), R("dev")})
  BY <1>1, <1>2, <1>3, LadderDrop
<1>5. {R("bar")} \cup {R("pci"), R("drvdata"), R("dev")} = {R("bar"), R("pci"), R("drvdata"),
        R("dev")} /\ {R("bar")} \cup {R("pci"), R("dev")} = {R("bar"), R("pci"), R("dev")}
  BY DEF R
<1> QED BY <1>4, <1>5 DEF PciFail2

\* The label fail3 of saa716x_pci_init(), with the labels below it.
LEMMA PciFail3Ladder ==
  ASSUME NEW C
  PROVE  Ladder(PciFail3, C, {R("mmio"), R("bar"), R("pci"), R("drvdata"), R("dev")},
           {R("mmio"), R("bar"), R("pci"), R("dev")})
<1>1. Ladder(PciFail2, C, {R("bar"), R("pci"), R("drvdata"), R("dev")}, {R("bar"), R("pci"), R("dev")})
  BY PciFail2Ladder
<1>2. R("mmio") \in Resources
  BY ResourceNames DEF Singles, PerAdapter
<1>3. R("mmio") \notin {R("bar"), R("pci"), R("drvdata"), R("dev")}
        /\ \A u \in {R("bar"), R("pci"), R("drvdata"), R("dev")} : ~Uses(u, R("mmio"))
  BY UserTable DEF Stands, R
<1>4. Ladder(<<Drop(R("mmio"))>> \o PciFail2, C, {R("mmio")} \cup {R("bar"), R("pci"),
        R("drvdata"), R("dev")}, {R("mmio")} \cup {R("bar"), R("pci"), R("dev")})
  BY <1>1, <1>2, <1>3, LadderDrop
<1>5. {R("mmio")} \cup {R("bar"), R("pci"), R("drvdata"), R("dev")} = {R("mmio"), R("bar"),
        R("pci"), R("drvdata"), R("dev")} /\ {R("mmio")} \cup {R("bar"), R("pci"),
        R("dev")} = {R("mmio"), R("bar"), R("pci"), R("dev")}
  BY DEF R
<1> QED BY <1>4, <1>5 DEF PciFail3

\* The label fail2 of the probe functions.
LEMMA Fail2Ladder ==
  ASSUME NEW C
  PROVE  Ladder(Fail2, C, Fail2Gone, Fail2Asks)
<1>1. Ladder(PciExit, C, PciGone, PciAsks) /\ Ladder(Fail1, C, {R("dev")}, {R("dev")})
  BY PciExitLadder, Fail1Ladder
<1>2. PciGone \cap {R("dev")} = {} /\ \A u \in {R("dev")}, d \in PciGone : ~Uses(u, d)
  BY UserTable DEF Stands, R, PciGone, PciAsks, Fail2Gone, Fail2Asks
<1>3. Ladder(PciExit \o Fail1, C, PciGone \cup {R("dev")}, PciAsks \cup {R("dev")})
  BY <1>1, <1>2, LadderConcat
<1>4. PciGone \cup {R("dev")} = Fail2Gone /\ PciAsks \cup {R("dev")} = Fail2Asks
  BY DEF R, PciGone, PciAsks, Fail2Gone, Fail2Asks
<1> QED BY <1>3, <1>4 DEF Fail2

\* saa716x_i2c_init() takes back the first adapter.
LEMMA I2cFailLadder ==
  ASSUME NEW C
  PROVE  Ladder((<<Drop(<<"i2c", 0>>)>> \o Fail2), C, ({<<"i2c", 0>>} \cup Fail2Gone),
           ({<<"i2c", 0>>} \cup Fail2Asks))
<1>1. Ladder(Fail2, C, Fail2Gone, Fail2Asks)
  BY Fail2Ladder
<1>2. <<"i2c", 0>> \in Resources
  BY ResourceNames DEF Singles, PerAdapter
<1>3. <<"i2c", 0>> \notin Fail2Gone /\ \A u \in Fail2Gone : ~Uses(u, <<"i2c", 0>>)
  BY UserTable DEF Stands, R, Fail2Gone, PciGone
<1>4. Ladder(<<Drop(<<"i2c", 0>>)>> \o Fail2, C, {<<"i2c", 0>>} \cup Fail2Gone, {<<"i2c", 0>>} \cup Fail2Asks)
  BY <1>1, <1>2, <1>3, LadderDrop
<1>5. {<<"i2c", 0>>} \cup Fail2Gone = ({<<"i2c", 0>>} \cup Fail2Gone)
        /\ {<<"i2c", 0>>} \cup Fail2Asks = ({<<"i2c", 0>>} \cup Fail2Asks)
  BY DEF R, Fail2Gone, PciGone
<1> QED BY <1>4, <1>5

\* saa716x_i2c_exit().
LEMMA I2cExitLadder ==
  ASSUME NEW C
  PROVE  Ladder(I2cExit, C, I2cs, I2cs)
<1> DEFINE x1 == Drop(<<"i2c", 1>>)
           x2 == Drop(<<"i2c", 0>>)
           k1 == <<x1>>
           k2 == <<x2, x1>>
<1>1. /\ <<"i2c", 0>> \in Resources
      /\ <<"i2c", 1>> \in Resources
  BY ResourceNames DEF Singles, PerAdapter
<1>2. x1 \in Releases /\ x2 \in Releases
  BY <1>1, DropStep
<1>3. I2cExit = k2
  BY DEF I2cExit
<1> HIDE DEF x1, x2
<1>a1. k1 = <<x1>> \o <<>>
  BY <1>2
<1>a2. k2 = <<x2>> \o k1
  BY <1>2, Pair
<1> HIDE DEF k1, k2
<1> DEFINE g0 == {}
           b0 == {}
           g1 == {<<"i2c", 1>>} \cup g0
           b1 == {<<"i2c", 1>>} \cup b0
           g2 == {<<"i2c", 0>>} \cup g1
           b2 == {<<"i2c", 0>>} \cup b1
<1>6. Ladder(<<>>, C, g0, b0)
  BY EmptyLadder
<1>7. <<"i2c", 1>> \notin g0 /\ \A u \in g0 : ~Uses(u, <<"i2c", 1>>)
  BY UserTable DEF Stands, R
<1>8. Ladder(k1, C, g1, b1)
  <2> HIDE DEF g0, b0
  <2>1. Ladder(k1, C, {<<"i2c", 1>>} \cup g0, {<<"i2c", 1>>} \cup b0)
    BY <1>1, <1>6, <1>7, <1>a1, LadderDrop DEF x1
  <2> QED BY <2>1
<1>9. <<"i2c", 0>> \notin g1 /\ \A u \in g1 : ~Uses(u, <<"i2c", 0>>)
  BY UserTable DEF Stands, R
<1>10. Ladder(k2, C, g2, b2)
  <2> HIDE DEF g1, b1
  <2>1. Ladder(k2, C, {<<"i2c", 0>>} \cup g1, {<<"i2c", 0>>} \cup b1)
    BY <1>1, <1>8, <1>9, <1>a2, LadderDrop DEF x2
  <2> QED BY <2>1
<1>11. g2 = I2cs /\ b2 = I2cs
  BY DEF PciGone, PciAsks, I2cs
<1> HIDE DEF g0, g1, g2, b0, b1, b2
<1> QED BY <1>3, <1>10, <1>11

\* The label fail3 of the capture card and of the full-featured card, with
\* the labels below it.
LEMMA Fail3Ladder ==
  ASSUME NEW C
  PROVE  Ladder(CapFail3, C, Fail3Gone, Fail3Asks)
<1>1. Ladder(I2cExit, C, I2cs, I2cs) /\ Ladder(Fail2, C, Fail2Gone, Fail2Asks)
  BY I2cExitLadder, Fail2Ladder
<1>2. I2cs \cap Fail2Gone = {} /\ \A u \in Fail2Gone, d \in I2cs : ~Uses(u, d)
  BY UserTable DEF Stands, R, I2cs, PciGone, PciAsks, Fail2Gone, Fail2Asks, Fail3Gone, Fail3Asks
<1>3. Ladder(I2cExit \o Fail2, C, I2cs \cup Fail2Gone, I2cs \cup Fail2Asks)
  BY <1>1, <1>2, LadderConcat
<1>4. I2cs \cup Fail2Gone = Fail3Gone /\ I2cs \cup Fail2Asks = Fail3Asks
  BY DEF R, I2cs, PciGone, PciAsks, Fail2Gone, Fail2Asks, Fail3Gone, Fail3Asks
<1> QED BY <1>3, <1>4 DEF CapFail3

-----------------------------------------------------------------------------
(* The labels and the exit functions of the capture card.                  *)

\* The page tables of a unit.
Tables(unit) == {"page", "ptab"} \X {unit} \X (1 .. DmaBuffers)

\* What the exit functions and the labels of the capture card give back, and
\* what of it must be there.
VipGone   == {R("vip")} \cup Tables("vip")
VipAsks   == {R("vip")}
AipGone   == {R("aip")} \cup (Parts \X {"aip"} \X (1 .. DmaBuffers))
AipAsks   == {R("aip")} \cup ({"sgmap"} \X {"aip"} \X (1 .. DmaBuffers))
V4l2Gone  == {R("video"), R("ctrl"), R("subdev"), R("v4l2")}
V4l2Asks  == {R("video"), R("ctrl"), R("v4l2")}
HdlGone   == {R("ctrl"), R("v4l2")}
Fail4Gone == VipGone \cup Fail3Gone
Fail4Asks == VipAsks \cup Fail3Asks
Fail5Gone == AipGone \cup Fail4Gone
Fail5Asks == AipAsks \cup Fail4Asks
Fail6Gone == V4l2Gone \cup Fail5Gone
Fail6Asks == V4l2Asks \cup Fail5Asks
HdlsGone  == HdlGone \cup Fail5Gone
HdlsAsks  == {R("v4l2")} \cup Fail5Asks

\* The parts of a DMA buffer are five resources.
LEMMA PartNames ==
  ASSUME NEW unit \in {"vip", "aip"}, NEW n \in 1 .. DmaBuffers
  PROVE  LET b == Buf(unit, n) IN
         /\ b["page"] = <<"page", unit, n>> /\ b["ptab"] = <<"ptab", unit, n>>
         /\ b["list"] = <<"list", unit, n>> /\ b["mem"] = <<"mem", unit, n>>
         /\ b["sgmap"] = <<"sgmap", unit, n>>
         /\ \A p \in Parts : <<p, unit, n>> \in Resources
BY DEF Buf, Parts, Resources

\* A loop of ladders, where saa716x_dvb_exit() is not called.
LEMMA InTurnLadder ==
  ASSUME NEW C, NEW N, NEW m, NEW rounds, NEW G, NEW A,
         RungsLoop(rounds, N, m, C, G, A), \A p \in 1 .. N : NoUncount(rounds[p])
  PROVE  Ladder(InTurn(rounds), C, UNION {G[p] : p \in 1 .. N}, UNION {A[p] : p \in 1 .. N})
<1>1. Loop(rounds, Releases, N, m)
  BY DEF RungsLoop
<1>2. /\ Len(InTurn(rounds)) = N * m
      /\ \A k \in 1 .. N * m : InTurn(rounds)[k] = rounds[Round(m, k)][Turn(m, k)]
  BY <1>1, InTurnSteps
<1>3. /\ N \in Nat /\ m \in Nat \ {0}
      /\ \A p \in 1 .. N : Len(rounds[p]) = m
  BY <1>1 DEF Loop
<1>4. \A k \in 1 .. N * m : Round(m, k) \in 1 .. N /\ Turn(m, k) \in 1 .. m
  BY <1>3, RoundAndTurn
<1>5. \A p \in 1 .. N, j \in 1 .. m : rounds[p][j].op # "uncount"
  BY <1>3 DEF NoUncount
<1> DEFINE y == N * m
<1>6. /\ Len(InTurn(rounds)) = y
      /\ \A k \in 1 .. y : /\ InTurn(rounds)[k] = rounds[Round(m, k)][Turn(m, k)]
                           /\ Round(m, k) \in 1 .. N /\ Turn(m, k) \in 1 .. m
  BY <1>2, <1>4
<1> HIDE DEF y
<1>7. NoUncount(InTurn(rounds))
  BY <1>5, <1>6 DEF NoUncount
<1>8. Rungs(InTurn(rounds), C, UNION {G[p] : p \in 1 .. N}, UNION {A[p] : p \in 1 .. N})
  BY InTurnRungs
<1> QED BY <1>7, <1>8 DEF Ladder

\* saa716x_free_ptable() gives back the mapping, then the page.
LEMMA FreePtableLadder ==
  ASSUME NEW unit \in {"vip", "aip"}, NEW n \in 1 .. DmaBuffers, NEW C
  PROVE  Ladder(FreePtable(Buf(unit, n)), C, ({"page", "ptab"} \X {unit} \X {n}), {})
<1> DEFINE x1 == DropIf(<<"page", unit, n>>)
           x2 == DropIf(<<"ptab", unit, n>>)
           k1 == <<x1>>
           k2 == <<x2, x1>>
<1>1. /\ <<"page", unit, n>> \in Resources
      /\ <<"ptab", unit, n>> \in Resources
  BY PartNames DEF Parts
<1>2. x1 \in Releases /\ x2 \in Releases
  BY <1>1, DropStep
<1>3. FreePtable(Buf(unit, n)) = k2
  BY PartNames DEF FreePtable
<1> HIDE DEF x1, x2
<1>a1. k1 = <<x1>> \o <<>>
  BY <1>2
<1>a2. k2 = <<x2>> \o k1
  BY <1>2, Pair
<1> HIDE DEF k1, k2
<1> DEFINE g0 == {}
           b0 == {}
           g1 == {<<"page", unit, n>>} \cup g0
           b1 == b0
           g2 == {<<"ptab", unit, n>>} \cup g1
           b2 == b1
<1>6. Ladder(<<>>, C, g0, b0)
  BY EmptyLadder
<1>7. <<"page", unit, n>> \notin g0 /\ \A u \in g0 : ~Uses(u, <<"page", unit, n>>)
  BY UserTable DEF Stands, R
<1>8. Ladder(k1, C, g1, b1)
  <2> HIDE DEF g0, b0
  <2>1. Ladder(k1, C, {<<"page", unit, n>>} \cup g0, b0)
    BY <1>1, <1>6, <1>7, <1>a1, LadderDrop DEF x1
  <2> QED BY <2>1
<1>9. <<"ptab", unit, n>> \notin g1 /\ \A u \in g1 : ~Uses(u, <<"ptab", unit, n>>)
  BY UserTable DEF Stands, R
<1>10. Ladder(k2, C, g2, b2)
  <2> HIDE DEF g1, b1
  <2>1. Ladder(k2, C, {<<"ptab", unit, n>>} \cup g1, b1)
    BY <1>1, <1>8, <1>9, <1>a2, LadderDrop DEF x2
  <2> QED BY <2>1
<1>11. g2 = ({"page", "ptab"} \X {unit} \X {n}) /\ b2 = {}
  BY DEF Parts
<1> HIDE DEF g0, g1, g2, b0, b1, b2
<1> QED BY <1>3, <1>10, <1>11

\* saa716x_dmabuf_free() gives back the five parts, the mapping of the memory
\* first.
LEMMA DmabufFreeLadder ==
  ASSUME NEW unit \in {"vip", "aip"}, NEW n \in 1 .. DmaBuffers, NEW C
  PROVE  Ladder(DmabufFree(Buf(unit, n)), C, (Parts \X {unit} \X {n}), ({"sgmap"} \X {unit} \X {n}))
<1> DEFINE x1 == DropIf(<<"page", unit, n>>)
           x2 == DropIf(<<"ptab", unit, n>>)
           x3 == DropIf(<<"list", unit, n>>)
           x4 == DropIf(<<"mem", unit, n>>)
           x5 == Drop(<<"sgmap", unit, n>>)
           k1 == <<x1>>
           k2 == <<x2, x1>>
           k3 == <<x3, x2, x1>>
           k4 == <<x4, x3, x2, x1>>
           k5 == <<x5, x4, x3, x2, x1>>
<1>1. /\ <<"list", unit, n>> \in Resources
      /\ <<"mem", unit, n>> \in Resources
      /\ <<"page", unit, n>> \in Resources
      /\ <<"ptab", unit, n>> \in Resources
      /\ <<"sgmap", unit, n>> \in Resources
  BY PartNames DEF Parts
<1>2. x1 \in Releases /\ x2 \in Releases /\ x3 \in Releases /\ x4 \in Releases /\ x5 \in Releases
  BY <1>1, DropStep
<1>3. DmabufFree(Buf(unit, n)) = k5
  <2> DEFINE b == Buf(unit, n)
  <2>1. SgFree(b) = <<x4, x3>>
    BY PartNames DEF SgFree
  <2>2. FreePtable(b) = <<x2, x1>>
    BY PartNames DEF FreePtable
  <2>3. Drop(b["sgmap"]) = x5
    BY PartNames
  <2>4. DmabufFree(b) = <<Drop(b["sgmap"])>> \o SgFree(b) \o FreePtable(b)
    BY DEF DmabufFree
  <2> HIDE DEF b, x1, x2, x3, x4, x5
  <2> DEFINE y == <<x2, x1>>
             z == <<x3, x2, x1>>
             w == <<x4, x3, x2, x1>>
  <2>a. y \in Seq(Releases) /\ z \in Seq(Releases) /\ <<x4, x3>> = <<x4>> \o <<x3>>
    BY <1>2, Pair
  <2>f. z = <<x3>> \o y
    BY <1>2
  <2>g. w = <<x4>> \o z
    BY <1>2
  <2>h. <<x3>> \in Seq(Releases) /\ <<x4>> \in Seq(Releases) /\ <<x5>> \in Seq(Releases)
    BY <1>2
  <2>c. <<x5, x4, x3, x2, x1>> = <<x5>> \o w
    BY <1>2
  <2> HIDE DEF y, z, w
  <2>d. (<<x4>> \o <<x3>>) \o y = <<x4>> \o (<<x3>> \o y)
    BY <2>a, <2>h, ConcatAssociative
  <2>e. <<x5>> \o <<x4, x3>> \o y = <<x5>> \o (<<x4, x3>> \o y)
    BY <2>a, <2>h, ConcatAssociative, ConcatProperties
  <2>5. <<x5>> \o <<x4, x3>> \o <<x2, x1>> = <<x5, x4, x3, x2, x1>>
    BY <2>a, <2>c, <2>d, <2>e, <2>f, <2>g DEF y
  <2>6. DmabufFree(b) = <<x5, x4, x3, x2, x1>>
    BY <2>1, <2>2, <2>3, <2>4, <2>5
  <2> QED BY <2>6 DEF b
<1> HIDE DEF x1, x2, x3, x4, x5
<1>a1. k1 = <<x1>> \o <<>>
  BY <1>2
<1>a2. k2 = <<x2>> \o k1
  BY <1>2, Pair
<1>a3. k3 = <<x3>> \o k2
  BY <1>2
<1>a4. k4 = <<x4>> \o k3
  BY <1>2
<1>a5. k5 = <<x5>> \o k4
  BY <1>2
<1> HIDE DEF k1, k2, k3, k4, k5
<1> DEFINE g0 == {}
           b0 == {}
           g1 == {<<"page", unit, n>>} \cup g0
           b1 == b0
           g2 == {<<"ptab", unit, n>>} \cup g1
           b2 == b1
           g3 == {<<"list", unit, n>>} \cup g2
           b3 == b2
           g4 == {<<"mem", unit, n>>} \cup g3
           b4 == b3
           g5 == {<<"sgmap", unit, n>>} \cup g4
           b5 == {<<"sgmap", unit, n>>} \cup b4
<1>6. Ladder(<<>>, C, g0, b0)
  BY EmptyLadder
<1>7. <<"page", unit, n>> \notin g0 /\ \A u \in g0 : ~Uses(u, <<"page", unit, n>>)
  BY UserTable DEF Stands, R
<1>8. Ladder(k1, C, g1, b1)
  <2> HIDE DEF g0, b0
  <2>1. Ladder(k1, C, {<<"page", unit, n>>} \cup g0, b0)
    BY <1>1, <1>6, <1>7, <1>a1, LadderDrop DEF x1
  <2> QED BY <2>1
<1>9. <<"ptab", unit, n>> \notin g1 /\ \A u \in g1 : ~Uses(u, <<"ptab", unit, n>>)
  BY UserTable DEF Stands, R
<1>10. Ladder(k2, C, g2, b2)
  <2> HIDE DEF g1, b1
  <2>1. Ladder(k2, C, {<<"ptab", unit, n>>} \cup g1, b1)
    BY <1>1, <1>8, <1>9, <1>a2, LadderDrop DEF x2
  <2> QED BY <2>1
<1>11. <<"list", unit, n>> \notin g2 /\ \A u \in g2 : ~Uses(u, <<"list", unit, n>>)
  BY UserTable DEF Stands, R
<1>12. Ladder(k3, C, g3, b3)
  <2> HIDE DEF g2, b2
  <2>1. Ladder(k3, C, {<<"list", unit, n>>} \cup g2, b2)
    BY <1>1, <1>10, <1>11, <1>a3, LadderDrop DEF x3
  <2> QED BY <2>1
<1>13. <<"mem", unit, n>> \notin g3 /\ \A u \in g3 : ~Uses(u, <<"mem", unit, n>>)
  BY UserTable DEF Stands, R
<1>14. Ladder(k4, C, g4, b4)
  <2> HIDE DEF g3, b3
  <2>1. Ladder(k4, C, {<<"mem", unit, n>>} \cup g3, b3)
    BY <1>1, <1>12, <1>13, <1>a4, LadderDrop DEF x4
  <2> QED BY <2>1
<1>15. <<"sgmap", unit, n>> \notin g4 /\ \A u \in g4 : ~Uses(u, <<"sgmap", unit, n>>)
  BY UserTable DEF Stands, R
<1>16. Ladder(k5, C, g5, b5)
  <2> HIDE DEF g4, b4
  <2>1. Ladder(k5, C, {<<"sgmap", unit, n>>} \cup g4, {<<"sgmap", unit, n>>} \cup b4)
    BY <1>1, <1>14, <1>15, <1>a5, LadderDrop DEF x5
  <2> QED BY <2>1
<1>17. g5 = (Parts \X {unit} \X {n}) /\ b5 = ({"sgmap"} \X {unit} \X {n})
  BY DEF Parts
<1> HIDE DEF g0, g1, g2, g3, g4, g5, b0, b1, b2, b3, b4, b5
<1> QED BY <1>3, <1>16, <1>17

\* saa716x_vip_exit2() gives back the unit, then all its tables.
LEMMA VipExit2Ladder ==
  ASSUME NEW C
  PROVE  Ladder(VipExit2, C, VipGone, VipAsks)
<1> DEFINE rounds == [n \in 1 .. DmaBuffers |-> FreePtable(Buf("vip", n))]
           G == [n \in 1 .. DmaBuffers |-> {"page", "ptab"} \X {"vip"} \X {n}]
           A == [n \in 1 .. DmaBuffers |-> {}]
<1>1. DmaBuffers \in Nat /\ 2 \in Nat \ {0}
  BY DmaBuffersAssumption
<1>2. \A n \in 1 .. DmaBuffers :
        /\ rounds[n] = FreePtable(Buf("vip", n)) /\ G[n] = {"page", "ptab"} \X {"vip"} \X {n}
        /\ A[n] = {}
  OBVIOUS
<1>3. \A n \in 1 .. DmaBuffers : Ladder(FreePtable(Buf("vip", n)), C, {"page", "ptab"} \X {"vip"} \X {n}, {})
  BY FreePtableLadder
<1>4. DOMAIN rounds = 1 .. DmaBuffers /\ rounds = [n \in 1 .. DmaBuffers |-> rounds[n]]
  OBVIOUS
<1>5. VipExit2 = <<Drop(R("vip"))>> \o InTurn(rounds)
  BY DEF VipExit2
<1>a. \A n \in 1 .. DmaBuffers : Len(rounds[n]) = 2
                     /\ \A j \in 1 .. 2 : rounds[n][j].op = "drop"
  BY PartNames DEF FreePtable, DropIf, Step
<1> HIDE DEF rounds, G, A
<1>6. \A n \in 1 .. DmaBuffers : Ladder(rounds[n], C, G[n], A[n]) /\ rounds[n] \in Seq(Releases)
  BY <1>2, <1>3 DEF Ladder, Rungs
<1>7. rounds \in [1 .. DmaBuffers -> Seq(Releases)]
  BY <1>4, <1>6
<1>8. Loop(rounds, Releases, DmaBuffers, 2)
  BY <1>1, <1>7, <1>a DEF Loop
<1>9. \A p \in 1 .. DmaBuffers, q \in 1 .. DmaBuffers :
         p # q => G[p] \cap G[q] = {} /\ \A u \in G[q], d \in G[p] : ~Uses(u, d)
  <2> SUFFICES ASSUME NEW p \in 1 .. DmaBuffers, NEW q \in 1 .. DmaBuffers, p # q
               PROVE  G[p] \cap G[q] = {} /\ \A u \in G[q], d \in G[p] : ~Uses(u, d)
    OBVIOUS
  <2> DEFINE part(n) == {"page", "ptab"} \X {"vip"} \X {n}
  <2>1. \A u \in part(q), d \in part(p) : ~Stands(u, d)
    BY DEF Stands, Parts
  <2>2. part(p) \cap part(q) = {}
    OBVIOUS
  <2>3. G[p] = part(p) /\ G[q] = part(q)
    BY <1>2
  <2> QED BY <2>1, <2>2, <2>3, UserTable
<1>10. RungsLoop(rounds, DmaBuffers, 2, C, G, A)
  BY <1>6, <1>8, <1>9, <1>a, SMTT(60) DEF RungsLoop, Ladder
<1>11. \A p \in 1 .. DmaBuffers : NoUncount(rounds[p])
  BY <1>6 DEF Ladder
<1> DEFINE GG == UNION {G[p] : p \in 1 .. DmaBuffers}
           AA == UNION {A[p] : p \in 1 .. DmaBuffers}
<1>12. Ladder(InTurn(rounds), C, GG, AA)
  BY <1>10, <1>11, InTurnLadder
<1>13. GG = {"page", "ptab"} \X {"vip"} \X (1 .. DmaBuffers) /\ AA = {}
  BY <1>2
<1> HIDE DEF GG, AA
<1> DEFINE H == {"page", "ptab"} \X {"vip"} \X (1 .. DmaBuffers)
           B == {}
<1>14. R("vip") \in Resources /\ R("vip") \notin H /\ \A u \in H : ~Uses(u, R("vip"))
  BY ResourceNames, UserTable DEF Singles, Stands, R, Parts
<1>15. Ladder(InTurn(rounds), C, H, B)
  BY <1>12, <1>13
<1>16. {R("vip")} \cup H = VipGone /\ {R("vip")} \cup B = VipAsks
  BY DEF VipGone, VipAsks, AipGone, AipAsks, Tables
<1> HIDE DEF H, B
<1>17. Ladder(<<Drop(R("vip"))>> \o InTurn(rounds), C, {R("vip")} \cup H, {R("vip")} \cup B)
  BY <1>14, <1>15, LadderDrop
<1> QED BY <1>5, <1>16, <1>17

\* saa716x_aip_exit2() gives back the unit, then all its buffers.
LEMMA AipExit2Ladder ==
  ASSUME NEW C
  PROVE  Ladder(AipExit2, C, AipGone, AipAsks)
<1> DEFINE rounds == [n \in 1 .. DmaBuffers |-> DmabufFree(Buf("aip", n))]
           G == [n \in 1 .. DmaBuffers |-> Parts \X {"aip"} \X {n}]
           A == [n \in 1 .. DmaBuffers |-> {"sgmap"} \X {"aip"} \X {n}]
<1>1. DmaBuffers \in Nat /\ 5 \in Nat \ {0}
  BY DmaBuffersAssumption
<1>2. \A n \in 1 .. DmaBuffers :
        /\ rounds[n] = DmabufFree(Buf("aip", n)) /\ G[n] = Parts \X {"aip"} \X {n}
        /\ A[n] = {"sgmap"} \X {"aip"} \X {n}
  OBVIOUS
<1>3. \A n \in 1 .. DmaBuffers : Ladder(DmabufFree(Buf("aip", n)), C, Parts \X {"aip"} \X {n},
        {"sgmap"} \X {"aip"} \X {n})
  BY DmabufFreeLadder
<1>4. DOMAIN rounds = 1 .. DmaBuffers /\ rounds = [n \in 1 .. DmaBuffers |-> rounds[n]]
  OBVIOUS
<1>5. AipExit2 = <<Drop(R("aip"))>> \o InTurn(rounds)
  BY DEF AipExit2
<1>a. \A n \in 1 .. DmaBuffers : Len(rounds[n]) = 5
                     /\ \A j \in 1 .. 5 : rounds[n][j].op = "drop"
  BY PartNames DEF DmabufFree, FreePtable, SgFree, DropIf, Drop, Step
<1> HIDE DEF rounds, G, A
<1>6. \A n \in 1 .. DmaBuffers : Ladder(rounds[n], C, G[n], A[n]) /\ rounds[n] \in Seq(Releases)
  BY <1>2, <1>3 DEF Ladder, Rungs
<1>7. rounds \in [1 .. DmaBuffers -> Seq(Releases)]
  BY <1>4, <1>6
<1>8. Loop(rounds, Releases, DmaBuffers, 5)
  BY <1>1, <1>7, <1>a DEF Loop
<1>9. \A p \in 1 .. DmaBuffers, q \in 1 .. DmaBuffers :
         p # q => G[p] \cap G[q] = {} /\ \A u \in G[q], d \in G[p] : ~Uses(u, d)
  <2> SUFFICES ASSUME NEW p \in 1 .. DmaBuffers, NEW q \in 1 .. DmaBuffers, p # q
               PROVE  G[p] \cap G[q] = {} /\ \A u \in G[q], d \in G[p] : ~Uses(u, d)
    OBVIOUS
  <2> DEFINE part(n) == Parts \X {"aip"} \X {n}
  <2>1. \A u \in part(q), d \in part(p) : ~Stands(u, d)
    BY DEF Stands, Parts
  <2>2. part(p) \cap part(q) = {}
    OBVIOUS
  <2>3. G[p] = part(p) /\ G[q] = part(q)
    BY <1>2
  <2> QED BY <2>1, <2>2, <2>3, UserTable
<1>10. RungsLoop(rounds, DmaBuffers, 5, C, G, A)
  BY <1>6, <1>8, <1>9, <1>a, SMTT(60) DEF RungsLoop, Ladder
<1>11. \A p \in 1 .. DmaBuffers : NoUncount(rounds[p])
  BY <1>6 DEF Ladder
<1> DEFINE GG == UNION {G[p] : p \in 1 .. DmaBuffers}
           AA == UNION {A[p] : p \in 1 .. DmaBuffers}
<1>12. Ladder(InTurn(rounds), C, GG, AA)
  BY <1>10, <1>11, InTurnLadder
<1>13. GG = Parts \X {"aip"} \X (1 .. DmaBuffers) /\ AA = {"sgmap"} \X {"aip"} \X (1 .. DmaBuffers)
  BY <1>2
<1> HIDE DEF GG, AA
<1> DEFINE H == Parts \X {"aip"} \X (1 .. DmaBuffers)
           B == {"sgmap"} \X {"aip"} \X (1 .. DmaBuffers)
<1>14. R("aip") \in Resources /\ R("aip") \notin H /\ \A u \in H : ~Uses(u, R("aip"))
  BY ResourceNames, UserTable DEF Singles, Stands, R, Parts
<1>15. Ladder(InTurn(rounds), C, H, B)
  BY <1>12, <1>13
<1>16. {R("aip")} \cup H = AipGone /\ {R("aip")} \cup B = AipAsks
  BY DEF VipGone, VipAsks, AipGone, AipAsks, Tables
<1> HIDE DEF H, B
<1>17. Ladder(<<Drop(R("aip"))>> \o InTurn(rounds), C, {R("aip")} \cup H, {R("aip")} \cup B)
  BY <1>14, <1>15, LadderDrop
<1> QED BY <1>5, <1>16, <1>17

\* Which kinds of resources these ladders give back.
LEMMA GoneNames ==
  /\ \A d \in Fail3Gone : d[1] \in {"i2c", "irq", "msi", "mmio", "bar", "pci", "drvdata", "dev"}
  /\ \A d \in VipGone : d[1] \in {"vip", "page", "ptab"} /\ (d[1] # "vip" => d[2] = "vip")
  /\ \A d \in AipGone : d[1] \in {"aip"} \cup Parts /\ (d[1] # "aip" => d[2] = "aip")
  /\ \A d \in V4l2Gone : d[1] \in {"video", "ctrl", "subdev", "v4l2"}
BY DEF Fail3Gone, I2cs, Fail2Gone, PciGone, VipGone, AipGone, V4l2Gone, Tables, Parts, R

\* The label fail4 of saa716x_cap_pci_probe(), with the labels below it.
LEMMA Fail4Ladder ==
  ASSUME NEW C
  PROVE  Ladder(CapFail4, C, Fail4Gone, Fail4Asks)
<1>1. Ladder(VipExit2, C, VipGone, VipAsks) /\ Ladder(CapFail3, C, Fail3Gone, Fail3Asks)
  BY VipExit2Ladder, Fail3Ladder
<1>2. \A u \in Fail3Gone, d \in VipGone : u # d /\ ~Stands(u, d)
  BY GoneNames DEF Stands, Parts
<1>3. VipGone \cap Fail3Gone = {} /\ \A u \in Fail3Gone, d \in VipGone : ~Uses(u, d)
  BY <1>2, UserTable
<1>4. Ladder(VipExit2 \o CapFail3, C, VipGone \cup Fail3Gone, VipAsks \cup Fail3Asks)
  BY <1>1, <1>3, LadderConcat
<1> QED BY <1>4 DEF CapFail4, Fail4Gone, Fail4Asks

\* The label fail5, with the labels below it.
LEMMA Fail5Ladder ==
  ASSUME NEW C
  PROVE  Ladder(CapFail5, C, Fail5Gone, Fail5Asks)
<1>1. Ladder(AipExit2, C, AipGone, AipAsks) /\ Ladder(CapFail4, C, Fail4Gone, Fail4Asks)
  BY AipExit2Ladder, Fail4Ladder
<1>2. \A u \in Fail4Gone, d \in AipGone : u # d /\ ~Stands(u, d)
  BY GoneNames DEF Stands, Parts, Fail4Gone
<1>3. AipGone \cap Fail4Gone = {} /\ \A u \in Fail4Gone, d \in AipGone : ~Uses(u, d)
  BY <1>2, UserTable
<1>4. Ladder(AipExit2 \o CapFail4, C, AipGone \cup Fail4Gone, AipAsks \cup Fail4Asks)
  BY <1>1, <1>3, LadderConcat
<1> QED BY <1>4 DEF CapFail5, Fail5Gone, Fail5Asks

\* saa716x_v4l2_exit() gives back the video node first and the device last.
LEMMA V4l2ExitLadder ==
  ASSUME NEW C
  PROVE  Ladder(V4l2Exit, C, V4l2Gone, V4l2Asks)
<1> DEFINE x1 == Drop(R("v4l2"))
           x2 == DropIf(R("subdev"))
           x3 == Drop(R("ctrl"))
           x4 == Drop(R("video"))
           k1 == <<x1>>
           k2 == <<x2, x1>>
           k3 == <<x3, x2, x1>>
           k4 == <<x4, x3, x2, x1>>
<1>1. /\ R("ctrl") \in Resources
      /\ R("subdev") \in Resources
      /\ R("v4l2") \in Resources
      /\ R("video") \in Resources
  BY ResourceNames DEF Singles, PerAdapter
<1>2. x1 \in Releases /\ x2 \in Releases /\ x3 \in Releases /\ x4 \in Releases
  BY <1>1, DropStep
<1>3. V4l2Exit = k4
  BY DEF V4l2Exit
<1> HIDE DEF x1, x2, x3, x4
<1>a1. k1 = <<x1>> \o <<>>
  BY <1>2
<1>a2. k2 = <<x2>> \o k1
  BY <1>2, Pair
<1>a3. k3 = <<x3>> \o k2
  BY <1>2
<1>a4. k4 = <<x4>> \o k3
  BY <1>2
<1> HIDE DEF k1, k2, k3, k4
<1> DEFINE g0 == {}
           b0 == {}
           g1 == {R("v4l2")} \cup g0
           b1 == {R("v4l2")} \cup b0
           g2 == {R("subdev")} \cup g1
           b2 == b1
           g3 == {R("ctrl")} \cup g2
           b3 == {R("ctrl")} \cup b2
           g4 == {R("video")} \cup g3
           b4 == {R("video")} \cup b3
<1>6. Ladder(<<>>, C, g0, b0)
  BY EmptyLadder
<1>7. R("v4l2") \notin g0 /\ \A u \in g0 : ~Uses(u, R("v4l2"))
  BY UserTable DEF Stands, R
<1>8. Ladder(k1, C, g1, b1)
  <2> HIDE DEF g0, b0
  <2>1. Ladder(k1, C, {R("v4l2")} \cup g0, {R("v4l2")} \cup b0)
    BY <1>1, <1>6, <1>7, <1>a1, LadderDrop DEF x1
  <2> QED BY <2>1
<1>9. R("subdev") \notin g1 /\ \A u \in g1 : ~Uses(u, R("subdev"))
  BY UserTable DEF Stands, R
<1>10. Ladder(k2, C, g2, b2)
  <2> HIDE DEF g1, b1
  <2>1. Ladder(k2, C, {R("subdev")} \cup g1, b1)
    BY <1>1, <1>8, <1>9, <1>a2, LadderDrop DEF x2
  <2> QED BY <2>1
<1>11. R("ctrl") \notin g2 /\ \A u \in g2 : ~Uses(u, R("ctrl"))
  BY UserTable DEF Stands, R
<1>12. Ladder(k3, C, g3, b3)
  <2> HIDE DEF g2, b2
  <2>1. Ladder(k3, C, {R("ctrl")} \cup g2, {R("ctrl")} \cup b2)
    BY <1>1, <1>10, <1>11, <1>a3, LadderDrop DEF x3
  <2> QED BY <2>1
<1>13. R("video") \notin g3 /\ \A u \in g3 : ~Uses(u, R("video"))
  BY UserTable DEF Stands, R
<1>14. Ladder(k4, C, g4, b4)
  <2> HIDE DEF g3, b3
  <2>1. Ladder(k4, C, {R("video")} \cup g3, {R("video")} \cup b3)
    BY <1>1, <1>12, <1>13, <1>a4, LadderDrop DEF x4
  <2> QED BY <2>1
<1>15. g4 = V4l2Gone /\ b4 = V4l2Asks
  BY DEF V4l2Gone, V4l2Asks, HdlGone
<1> HIDE DEF g0, g1, g2, g3, g4, b0, b1, b2, b3, b4
<1> QED BY <1>3, <1>14, <1>15

\* The label free_hdl of saa716x_v4l2_init().
LEMMA FreeHdlLadder ==
  ASSUME NEW C
  PROVE  Ladder(FreeHdl, C, HdlGone, {R("v4l2")})
<1> DEFINE x1 == Drop(R("v4l2"))
           x2 == DropIf(R("ctrl"))
           k1 == <<x1>>
           k2 == <<x2, x1>>
<1>1. /\ R("ctrl") \in Resources
      /\ R("v4l2") \in Resources
  BY ResourceNames DEF Singles, PerAdapter
<1>2. x1 \in Releases /\ x2 \in Releases
  BY <1>1, DropStep
<1>3. FreeHdl = k2
  BY DEF FreeHdl
<1> HIDE DEF x1, x2
<1>a1. k1 = <<x1>> \o <<>>
  BY <1>2
<1>a2. k2 = <<x2>> \o k1
  BY <1>2, Pair
<1> HIDE DEF k1, k2
<1> DEFINE g0 == {}
           b0 == {}
           g1 == {R("v4l2")} \cup g0
           b1 == {R("v4l2")} \cup b0
           g2 == {R("ctrl")} \cup g1
           b2 == b1
<1>6. Ladder(<<>>, C, g0, b0)
  BY EmptyLadder
<1>7. R("v4l2") \notin g0 /\ \A u \in g0 : ~Uses(u, R("v4l2"))
  BY UserTable DEF Stands, R
<1>8. Ladder(k1, C, g1, b1)
  <2> HIDE DEF g0, b0
  <2>1. Ladder(k1, C, {R("v4l2")} \cup g0, {R("v4l2")} \cup b0)
    BY <1>1, <1>6, <1>7, <1>a1, LadderDrop DEF x1
  <2> QED BY <2>1
<1>9. R("ctrl") \notin g1 /\ \A u \in g1 : ~Uses(u, R("ctrl"))
  BY UserTable DEF Stands, R
<1>10. Ladder(k2, C, g2, b2)
  <2> HIDE DEF g1, b1
  <2>1. Ladder(k2, C, {R("ctrl")} \cup g1, b1)
    BY <1>1, <1>8, <1>9, <1>a2, LadderDrop DEF x2
  <2> QED BY <2>1
<1>11. g2 = HdlGone /\ b2 = {R("v4l2")}
  BY DEF V4l2Gone, V4l2Asks, HdlGone
<1> HIDE DEF g0, g1, g2, b0, b1, b2
<1> QED BY <1>3, <1>10, <1>11

\* The label fail6, with the labels below it.
LEMMA Fail6Ladder ==
  ASSUME NEW C
  PROVE  Ladder(CapFail6, C, Fail6Gone, Fail6Asks)
<1>1. Ladder(V4l2Exit, C, V4l2Gone, V4l2Asks) /\ Ladder(CapFail5, C, Fail5Gone, Fail5Asks)
  BY V4l2ExitLadder, Fail5Ladder
<1>2. \A u \in Fail5Gone, d \in V4l2Gone : u # d /\ ~Stands(u, d)
  BY GoneNames DEF Stands, Parts, Fail4Gone, Fail5Gone
<1>3. V4l2Gone \cap Fail5Gone = {} /\ \A u \in Fail5Gone, d \in V4l2Gone : ~Uses(u, d)
  BY <1>2, UserTable
<1>4. Ladder(V4l2Exit \o CapFail5, C, V4l2Gone \cup Fail5Gone, V4l2Asks \cup Fail5Asks)
  BY <1>1, <1>3, LadderConcat
<1> QED BY <1>4 DEF CapFail6, Fail6Gone, Fail6Asks

\* The label free_hdl, and what its caller runs then.
LEMMA HdlFail5Ladder ==
  ASSUME NEW C
  PROVE  Ladder((FreeHdl \o CapFail5), C, HdlsGone, HdlsAsks)
<1>1. Ladder(FreeHdl, C, HdlGone, {R("v4l2")}) /\ Ladder(CapFail5, C, Fail5Gone, Fail5Asks)
  BY FreeHdlLadder, Fail5Ladder
<1>2. \A u \in Fail5Gone, d \in HdlGone : u # d /\ ~Stands(u, d)
  BY GoneNames DEF Stands, Parts, Fail4Gone, Fail5Gone, HdlGone, R
<1>3. HdlGone \cap Fail5Gone = {} /\ \A u \in Fail5Gone, d \in HdlGone : ~Uses(u, d)
  BY <1>2, UserTable
<1>4. Ladder(FreeHdl \o CapFail5, C, HdlGone \cup Fail5Gone, {R("v4l2")} \cup Fail5Asks)
  BY <1>1, <1>3, LadderConcat
<1> QED BY <1>4 DEF HdlsGone, HdlsAsks

-----------------------------------------------------------------------------
(* The remove function of the capture card.                                *)

\* A sequence that releases the work queue, and then one that may release the
\* structure.
LEMMA QueueFirstConcat ==
  ASSUME NEW s, NEW t, NEW C, NEW G, NEW A, Ladder(s, C, G, A), t \in Seq(Releases),
         R("wq") \in G, R("dev") \notin G
  PROVE  QueueFirst(s \o t, C)
<1>1. s \in Seq(Releases) /\ Gone(s, C) = G
  BY DEF Ladder, Rungs
<1>2. PICK m \in 1 .. Len(s) : R("wq") \in Gives(s[m], C)
  BY <1>1 DEF Gone
<1>3. \A n \in 1 .. Len(s) : R("dev") \notin Gives(s[n], C)
  BY <1>1 DEF Gone
<1> SUFFICES ASSUME NEW n \in 1 .. Len(s \o t), R("dev") \in Gives((s \o t)[n], C)
             PROVE  \E k \in 1 .. n - 1 : R("wq") \in Gives((s \o t)[k], C)
  BY DEF QueueFirst
<1>4. n \notin 1 .. Len(s)
  BY <1>1, <1>3, ConcatParts
<1>5. (s \o t)[m] = s[m] /\ Len(s) \in Nat /\ Len(s \o t) \in Nat
  BY <1>1, ConcatParts
<1>6. m \in 1 .. n - 1
  BY <1>4, <1>5
<1> QED BY <1>2, <1>5, <1>6

\* What saa716x_cap_pci_remove() does first.
LEMMA HeadLadder ==
  ASSUME NEW C
  PROVE  Ladder(<<DropIf(R("debugfs")), Plain("flush", R("wq")), DropIf(R("alsa"))>>, C,
           {R("debugfs"), R("alsa")}, {})
<1> DEFINE x1 == DropIf(R("alsa"))
           x2 == Plain("flush", R("wq"))
           x3 == DropIf(R("debugfs"))
           k1 == <<x1>>
           k2 == <<x2, x1>>
           k3 == <<x3, x2, x1>>
<1>1. /\ R("alsa") \in Resources
      /\ R("debugfs") \in Resources
  BY ResourceNames DEF Singles, PerAdapter
<1>2. x1 \in Releases /\ x2 \in Releases /\ x3 \in Releases
  BY <1>1, DropStep, IdleStep, ResourceNames DEF Singles
<1>3. <<DropIf(R("debugfs")), Plain("flush", R("wq")), DropIf(R("alsa"))>> = k3
  OBVIOUS
<1> HIDE DEF x1, x2, x3
<1>a1. k1 = <<x1>> \o <<>>
  BY <1>2
<1>a2. k2 = <<x2>> \o k1
  BY <1>2, Pair
<1>a3. k3 = <<x3>> \o k2
  BY <1>2
<1> HIDE DEF k1, k2, k3
<1> DEFINE g0 == {}
           b0 == {}
           g1 == {R("alsa")} \cup g0
           b1 == b0
           g2 == g1
           b2 == b1
           g3 == {R("debugfs")} \cup g2
           b3 == b2
<1>6. Ladder(<<>>, C, g0, b0)
  BY EmptyLadder
<1>7. R("alsa") \notin g0 /\ \A u \in g0 : ~Uses(u, R("alsa"))
  BY UserTable DEF Stands, R
<1>8. Ladder(k1, C, g1, b1)
  <2> HIDE DEF g0, b0
  <2>1. Ladder(k1, C, {R("alsa")} \cup g0, b0)
    BY <1>1, <1>6, <1>7, <1>a1, LadderDrop DEF x1
  <2> QED BY <2>1
<1>9. Ladder(k2, C, g2, b2)
  BY <1>8, <1>a2, LadderIdle, ResourceNames DEF x2, Singles
<1>10. R("debugfs") \notin g2 /\ \A u \in g2 : ~Uses(u, R("debugfs"))
  BY UserTable DEF Stands, R
<1>11. Ladder(k3, C, g3, b3)
  <2> HIDE DEF g2, b2
  <2>1. Ladder(k3, C, {R("debugfs")} \cup g2, b2)
    BY <1>1, <1>9, <1>10, <1>a3, LadderDrop DEF x3
  <2> QED BY <2>1
<1>12. g3 = {R("debugfs"), R("alsa")} /\ b3 = {}
  OBVIOUS
<1> HIDE DEF g0, g1, g2, g3, b0, b1, b2, b3
<1> QED BY <1>3, <1>11, <1>12

\* The work queue goes.
LEMMA WqLadder ==
  ASSUME NEW C
  PROVE  Ladder(<<Drop(R("wq"))>>, C, {R("wq")}, {R("wq")})
<1> DEFINE x1 == Drop(R("wq"))
           k1 == <<x1>>
<1>1. /\ R("wq") \in Resources
  BY ResourceNames DEF Singles, PerAdapter
<1>2. x1 \in Releases
  BY <1>1, DropStep
<1>3. <<Drop(R("wq"))>> = k1
  OBVIOUS
<1> HIDE DEF x1
<1>a1. k1 = <<x1>> \o <<>>
  BY <1>2
<1> HIDE DEF k1
<1> DEFINE g0 == {}
           b0 == {}
           g1 == {R("wq")} \cup g0
           b1 == {R("wq")} \cup b0
<1>6. Ladder(<<>>, C, g0, b0)
  BY EmptyLadder
<1>7. R("wq") \notin g0 /\ \A u \in g0 : ~Uses(u, R("wq"))
  BY UserTable DEF Stands, R
<1>8. Ladder(k1, C, g1, b1)
  <2> HIDE DEF g0, b0
  <2>1. Ladder(k1, C, {R("wq")} \cup g0, {R("wq")} \cup b0)
    BY <1>1, <1>6, <1>7, <1>a1, LadderDrop DEF x1
  <2> QED BY <2>1
<1>9. g1 = {R("wq")} /\ b1 = {R("wq")}
  OBVIOUS
<1> HIDE DEF g0, g1, b0, b1
<1> QED BY <1>3, <1>8, <1>9

\* What saa716x_cap_pci_remove() gives back, and what of it must be there.
CapAllGone == {R("debugfs"), R("alsa")} \cup V4l2Gone \cup AipGone \cup VipGone \cup I2cs
              \cup {R("wq")} \cup PciGone \cup {R("dev")}
CapAllAsks == V4l2Asks \cup AipAsks \cup VipAsks \cup I2cs \cup {R("wq")} \cup PciAsks \cup {R("dev")}

\* saa716x_cap_pci_remove() gives back all there can be, the work queue before the structure.
LEMMA CapRemoveLadder ==
  ASSUME NEW C
  PROVE  Ladder(CapRemove, C, CapAllGone, CapAllAsks) /\ QueueFirst(CapRemove, C)
<1> DEFINE s0 == <<DropIf(R("debugfs")), Plain("flush", R("wq")), DropIf(R("alsa"))>>
           s1 == s0 \o V4l2Exit
           s2 == s1 \o AipExit2
           s3 == s2 \o VipExit2
           s4 == s3 \o I2cExit
           s5 == s4 \o <<Drop(R("wq"))>>
           s6 == s5 \o PciExit
           s7 == s6 \o <<Drop(R("dev"))>>
           g0 == {R("debugfs"), R("alsa")}
           a0 == {}
           g1 == g0 \cup V4l2Gone
           a1 == a0 \cup V4l2Asks
           g2 == g1 \cup AipGone
           a2 == a1 \cup AipAsks
           g3 == g2 \cup VipGone
           a3 == a2 \cup VipAsks
           g4 == g3 \cup I2cs
           a4 == a3 \cup I2cs
           g5 == g4 \cup {R("wq")}
           a5 == a4 \cup {R("wq")}
           g6 == g5 \cup PciGone
           a6 == a5 \cup PciAsks
           g7 == g6 \cup {R("dev")}
           a7 == a6 \cup {R("dev")}
<1>1. CapRemove = s7
  BY DEF CapRemove
<1>2. g7 = CapAllGone /\ a7 = CapAllAsks
  BY DEF CapAllGone, CapAllAsks
<1>3. R("wq") \in g6 /\ R("dev") \notin g6
  <2>1. \A d \in g6 : d[1] # "dev"
    BY GoneNames DEF I2cs, PciGone, R, Parts
  <2> QED BY <2>1 DEF R
<1>n1. \A d \in g1 : d[1] \in {"debugfs", "alsa", "video", "ctrl", "subdev", "v4l2"}
  BY GoneNames DEF R
<1>n2. \A d \in g2 : d \in g1 \/ d \in AipGone
  OBVIOUS
<1>n3. \A d \in g3 : d \in g1 \/ d \in AipGone \/ d \in VipGone
  OBVIOUS
<1>n4. \A d \in g4 : d \in g1 \/ d \in AipGone \/ d \in VipGone \/ d[1] = "i2c"
  BY DEF I2cs
<1>n5. \A d \in g5 : d \in g1 \/ d \in AipGone \/ d \in VipGone \/ d[1] = "i2c" \/ d[1] = "wq"
  BY DEF I2cs, R
<1>n6. \A d \in g6 : d \in g1 \/ d \in AipGone \/ d \in VipGone \/ d[1] = "i2c" \/ d[1] = "wq" \/ d \in PciGone
  BY DEF I2cs, R
<1>n0. \A d \in g0 : d[1] \in {"debugfs", "alsa"}
  BY DEF R
<1>p. \A d \in PciGone : d[1] \in {"irq", "msi", "mmio", "bar", "pci", "drvdata"}
  BY DEF PciGone, R
<1>10. Ladder(s0, C, g0, a0)
  BY HeadLadder
<1> HIDE DEF s0, g0, a0
<1>r1. \A u \in V4l2Gone, d \in g0 : u # d /\ ~Stands(u, d)
  BY <1>n0, GoneNames DEF Stands, Parts
<1>r2. \A u \in AipGone, d \in g1 : u # d /\ ~Stands(u, d)
  BY <1>n1, GoneNames DEF Stands, Parts
<1>r3. \A u \in VipGone, d \in g2 : u # d /\ ~Stands(u, d)
  BY <1>n1, <1>n2, GoneNames DEF Stands, Parts
<1>r4. \A u \in I2cs, d \in g3 : u # d /\ ~Stands(u, d)
  BY <1>n1, <1>n3, GoneNames DEF I2cs, Stands, Parts
<1>r5. \A u \in {R("wq")}, d \in g4 : u # d /\ ~Stands(u, d)
  BY <1>n1, <1>n4, GoneNames DEF R, Stands, Parts
<1>r6. \A u \in PciGone, d \in g5 : u # d /\ ~Stands(u, d)
  BY <1>n1, <1>n5, <1>p, GoneNames DEF Stands, Parts
<1>r7. \A u \in {R("dev")}, d \in g6 : u # d /\ ~Stands(u, d)
  BY <1>n1, <1>n6, <1>p, GoneNames DEF R, Stands, Parts
<1> HIDE DEF s1, s2, s3, s4, s5, s6, s7, g1, g2, g3, g4, g5, g6, g7, a1, a2, a3, a4, a5, a6, a7
<1>11. Ladder(s1, C, g1, a1)
  <2>1. Ladder(V4l2Exit, C, V4l2Gone, V4l2Asks)
    BY V4l2ExitLadder
  <2>2. g0 \cap V4l2Gone = {} /\ \A u \in V4l2Gone, d \in g0 : ~Uses(u, d)
    BY <1>r1, UserTable
  <2>3. Ladder(s0 \o V4l2Exit, C, g0 \cup V4l2Gone, a0 \cup V4l2Asks)
    BY <1>10, <2>1, <2>2, LadderConcat
  <2> QED BY <2>3 DEF s1, g1, a1
<1>12. Ladder(s2, C, g2, a2)
  <2>1. Ladder(AipExit2, C, AipGone, AipAsks)
    BY AipExit2Ladder
  <2>2. g1 \cap AipGone = {} /\ \A u \in AipGone, d \in g1 : ~Uses(u, d)
    BY <1>r2, UserTable
  <2>3. Ladder(s1 \o AipExit2, C, g1 \cup AipGone, a1 \cup AipAsks)
    BY <1>11, <2>1, <2>2, LadderConcat
  <2> QED BY <2>3 DEF s2, g2, a2
<1>13. Ladder(s3, C, g3, a3)
  <2>1. Ladder(VipExit2, C, VipGone, VipAsks)
    BY VipExit2Ladder
  <2>2. g2 \cap VipGone = {} /\ \A u \in VipGone, d \in g2 : ~Uses(u, d)
    BY <1>r3, UserTable
  <2>3. Ladder(s2 \o VipExit2, C, g2 \cup VipGone, a2 \cup VipAsks)
    BY <1>12, <2>1, <2>2, LadderConcat
  <2> QED BY <2>3 DEF s3, g3, a3
<1>14. Ladder(s4, C, g4, a4)
  <2>1. Ladder(I2cExit, C, I2cs, I2cs)
    BY I2cExitLadder
  <2>2. g3 \cap I2cs = {} /\ \A u \in I2cs, d \in g3 : ~Uses(u, d)
    BY <1>r4, UserTable
  <2>3. Ladder(s3 \o I2cExit, C, g3 \cup I2cs, a3 \cup I2cs)
    BY <1>13, <2>1, <2>2, LadderConcat
  <2> QED BY <2>3 DEF s4, g4, a4
<1>15. Ladder(s5, C, g5, a5)
  <2>1. Ladder(<<Drop(R("wq"))>>, C, {R("wq")}, {R("wq")})
    BY WqLadder
  <2>2. g4 \cap {R("wq")} = {} /\ \A u \in {R("wq")}, d \in g4 : ~Uses(u, d)
    BY <1>r5, UserTable
  <2>3. Ladder(s4 \o <<Drop(R("wq"))>>, C, g4 \cup {R("wq")}, a4 \cup {R("wq")})
    BY <1>14, <2>1, <2>2, LadderConcat
  <2> QED BY <2>3 DEF s5, g5, a5
<1>16. Ladder(s6, C, g6, a6)
  <2>1. Ladder(PciExit, C, PciGone, PciAsks)
    BY PciExitLadder
  <2>2. g5 \cap PciGone = {} /\ \A u \in PciGone, d \in g5 : ~Uses(u, d)
    BY <1>r6, UserTable
  <2>3. Ladder(s5 \o PciExit, C, g5 \cup PciGone, a5 \cup PciAsks)
    BY <1>15, <2>1, <2>2, LadderConcat
  <2> QED BY <2>3 DEF s6, g6, a6
<1>17. Ladder(s7, C, g7, a7)
  <2>1. Ladder(<<Drop(R("dev"))>>, C, {R("dev")}, {R("dev")})
    BY Fail1Ladder DEF Fail1
  <2>2. g6 \cap {R("dev")} = {} /\ \A u \in {R("dev")}, d \in g6 : ~Uses(u, d)
    BY <1>r7, UserTable
  <2>3. Ladder(s6 \o <<Drop(R("dev"))>>, C, g6 \cup {R("dev")}, a6 \cup {R("dev")})
    BY <1>16, <2>1, <2>2, LadderConcat
  <2> QED BY <2>3 DEF s7, g7, a7
<1>20. QueueFirst(s7, C)
  <2>1. <<Drop(R("dev"))>> \in Seq(Releases)
    BY Fail1Ladder DEF Fail1, Ladder, Rungs
  <2> QED BY <1>3, <1>16, <2>1, QueueFirstConcat DEF s7
<1> QED BY <1>1, <1>2, <1>17, <1>20

-----------------------------------------------------------------------------
(* The labels of the cards with DVB adapters.                              *)

\* What the labels and the remove functions of these cards give back, with
\* the adapters C counted, and what of it must be there.
BudgetGone(C) == (PerAdapter \X C) \cup Fail3Gone
BudgetAsks(C) == (Always \X C) \cup Fail3Asks
FfGone4    == {R("sti")} \cup Fail3Gone
FfAsks4    == {R("sti")} \cup Fail3Asks
FfGone5    == {R("iobuf")} \cup FfGone4
FfAsks5    == {R("iobuf")} \cup FfAsks4
FfGone6(C) == (PerAdapter \X C) \cup FfGone5
FfAsks6(C) == (Always \X C) \cup FfAsks5
FfGone7(C) == {R("vbuf"), R("fifowq"), R("videodev")} \cup FfGone6(C)
FfAsks7(C) == {R("fifowq")} \cup FfAsks6(C)
FfGone8(C) == {R("audio")} \cup FfGone7(C)
FfGone9(C) == {R("osd")} \cup FfGone8(C)
FfGoneAll(C) == {R("ir")} \cup FfGone9(C)
FfAsksAll(C) == {R("ir")} \cup FfAsks7(C)

\* Who uses an adapter or what belongs to it.
LEMMA AdapterUsers ==
  ASSUME NEW u, NEW d, d[1] \in PerAdapter, Uses(u, d)
  PROVE  u[1] \in {"dmx", "frontend", "dmxdev", "fehw", "femem", "fgpi", "videodev", "audio", "osd"}
<1>1. Stands(u, d)
  BY UserTable
<1> QED BY <1>1 DEF Stands, PerAdapter

\* saa716x_dvb_exit() before its loop is entered: all adapters counted.
LEMMA DvbExitLadder ==
  ASSUME NEW C
  PROVE  Ladder(DvbExit, C, PerAdapter \X C, Always \X C)
<1> DEFINE step == Plain("dvb_exit", R("dev"))
<1>1. /\ step \in Releases /\ WellFormed(step) /\ step.op = "dvb_exit"
      /\ Gives(step, C) = PerAdapter \X C /\ Asks(step, C) = Always \X C
  BY ResourceNames DEF Plain, Step, Releases, WellFormed, Gives, Asks, Outcomes, Singles
<1>2. DvbExit = <<step>>
  BY DEF DvbExit
<1> HIDE DEF step
<1>3. Rungs(<<step>>, C, Gives(step, C), Asks(step, C))
  BY <1>1, OneRung
<1>4. NoUncount(<<step>>)
  BY <1>1 DEF NoUncount
<1> QED BY <1>1, <1>2, <1>3, <1>4 DEF Ladder

\* Which kinds of resources the label fail3 gives back.
LEMMA Fail3Names ==
  /\ \A d \in Fail3Gone : d[1] \in {"i2c", "irq", "msi", "mmio", "bar", "pci", "drvdata", "dev"}
  /\ \A d \in PciGone \cup {R("dev")} : d[1] \in {"irq", "msi", "mmio", "bar", "pci", "drvdata", "dev"}
  /\ \A d \in I2cs : d[1] = "i2c"
  /\ \A C : \A d \in PerAdapter \X C : d[1] \in PerAdapter
BY GoneNames DEF I2cs, PciGone, R

\* The label fail3 of the budget and the hybrid card.
LEMMA BudgetFail3Ladder ==
  ASSUME NEW C
  PROVE  Ladder(BudgetFail3, C, BudgetGone(C), BudgetAsks(C))
<1> DEFINE P == PerAdapter \X C
           Q == Always \X C
<1>1. Ladder(DvbExit, C, P, Q) /\ Ladder(I2cExit, C, I2cs, I2cs) /\ Ladder(Fail2, C, Fail2Gone, Fail2Asks)
  BY DvbExitLadder, I2cExitLadder, Fail2Ladder
<1>2. \A u \in I2cs \cup Fail2Gone, d \in P : u # d /\ ~Uses(u, d)
  BY Fail3Names, AdapterUsers DEF Fail2Gone, PerAdapter
<1>3. \A u \in Fail2Gone, d \in I2cs : u # d /\ ~Uses(u, d)
  BY Fail3Names, UserTable DEF Fail2Gone, Stands
<1> HIDE DEF P, Q
<1>4. Ladder(DvbExit \o I2cExit, C, P \cup I2cs, Q \cup I2cs)
  BY <1>1, <1>2, LadderConcat
<1>5. (P \cup I2cs) \cap Fail2Gone = {} /\ \A u \in Fail2Gone, d \in P \cup I2cs : ~Uses(u, d)
  BY <1>2, <1>3
<1>6. Ladder(DvbExit \o I2cExit \o Fail2, C, (P \cup I2cs) \cup Fail2Gone, (Q \cup I2cs) \cup Fail2Asks)
  BY <1>1, <1>4, <1>5, LadderConcat
<1> QED BY <1>6 DEF BudgetFail3, BudgetGone, BudgetAsks, Fail3Gone, Fail3Asks, P, Q

\* The label fail3 of saa716x_ff_pci_probe() is that of the other cards.
LEMMA FfFail3Ladder ==
  ASSUME NEW C
  PROVE  Ladder(FfFail3, C, Fail3Gone, Fail3Asks)
BY Fail3Ladder DEF FfFail3, CapFail3

\* The label fail4 of saa716x_ff_pci_probe(), with the labels below it.
LEMMA FfFail4Ladder ==
  ASSUME NEW C
  PROVE  Ladder(FfFail4, C, FfGone4, FfAsks4)
<1>1. Ladder(FfFail3, C, Fail3Gone, Fail3Asks)
  BY FfFail3Ladder
<1>2. R("sti") \in Resources
  BY ResourceNames DEF Singles
<1>3. \A u \in Fail3Gone : u # R("sti") /\ ~Uses(u, R("sti"))
  BY Fail3Names, UserTable DEF Stands, R
<1>4. R("sti") \notin Fail3Gone /\ \A u \in Fail3Gone : ~Uses(u, R("sti"))
  BY <1>3
<1>5. Ladder(<<Drop(R("sti"))>> \o FfFail3, C, {R("sti")} \cup Fail3Gone, {R("sti")} \cup Fail3Asks)
  BY <1>1, <1>2, <1>4, LadderDrop
<1> QED BY <1>5 DEF FfFail4, FfGone4, FfAsks4

\* The label fail5 of saa716x_ff_pci_probe(), with the labels below it.
LEMMA FfFail5Ladder ==
  ASSUME NEW C
  PROVE  Ladder(FfFail5, C, FfGone5, FfAsks5)
<1>1. Ladder(FfFail4, C, FfGone4, FfAsks4)
  BY FfFail4Ladder
<1>2. R("iobuf") \in Resources
  BY ResourceNames DEF Singles
<1>3. \A u \in FfGone4 : u # R("iobuf") /\ ~Uses(u, R("iobuf"))
  BY Fail3Names, UserTable DEF Stands, R, FfGone4
<1>4. R("iobuf") \notin FfGone4 /\ \A u \in FfGone4 : ~Uses(u, R("iobuf"))
  BY <1>3
<1>5. Ladder(<<Drop(R("iobuf"))>> \o FfFail4, C, {R("iobuf")} \cup FfGone4, {R("iobuf")} \cup FfAsks4)
  BY <1>1, <1>2, <1>4, LadderDrop
<1> QED BY <1>5 DEF FfFail5, FfGone5, FfAsks5

\* Which kinds of resources the label fail5 gives back.
LEMMA FfNames ==
  ASSUME NEW C
  PROVE  /\ \A d \in FfGone5 : d[1] \in {"iobuf", "sti", "i2c", "irq", "msi", "mmio", "bar",
           "pci", "drvdata", "dev"}
         /\ \A d \in FfGone6(C) : d \in FfGone5 \/ d[1] \in PerAdapter
         /\ \A d \in FfGone7(C) : d \in FfGone5 \/ d[1] \in PerAdapter \cup {"vbuf", "fifowq", "videodev"}
         /\ \A d \in FfGone8(C) : d \in FfGone5 \/ d[1] \in PerAdapter \cup {"vbuf", "fifowq",
              "videodev", "audio"}
BY Fail3Names DEF FfGone4, FfGone5, FfGone6, FfGone7, FfGone8, R

\* The label fail6 of saa716x_ff_pci_probe(), with the labels below it.
LEMMA FfFail6Ladder ==
  ASSUME NEW C
  PROVE  Ladder(FfFail6, C, FfGone6(C), FfAsks6(C))
<1>1. Ladder(DvbExit, C, (PerAdapter \X C), (Always \X C)) /\ Ladder(FfFail5, C, FfGone5, FfAsks5)
  BY DvbExitLadder, FfFail5Ladder
<1>2. \A u \in FfGone5, d \in (PerAdapter \X C) : u # d /\ ~Uses(u, d)
  BY FfNames, AdapterUsers DEF PerAdapter
<1>3. (PerAdapter \X C) \cap FfGone5 = {}
  BY <1>2
<1>4. Ladder(DvbExit \o FfFail5, C, (PerAdapter \X C) \cup FfGone5, (Always \X C) \cup FfAsks5)
  BY <1>1, <1>2, <1>3, LadderConcat
<1>5. (PerAdapter \X C) \cup FfGone5 = FfGone6(C) /\ (Always \X C) \cup FfAsks5 = FfAsks6(C)
  BY DEF Fail3Asks, Fail3Gone, FfAsks6, FfGone6
<1> QED BY <1>4, <1>5 DEF FfFail6

\* saa716x_ff_video_exit() gives back the buffers, the work queue and the
\* node.
LEMMA FfVideoExitLadder ==
  ASSUME NEW C
  PROVE  Ladder(FfVideoExit, C, {R("vbuf"), R("fifowq"), R("videodev")}, {R("fifowq")})
<1> DEFINE x1 == DropIf(R("videodev"))
           x2 == Drop(R("fifowq"))
           x3 == DropIf(R("vbuf"))
           k1 == <<x1>>
           k2 == <<x2, x1>>
           k3 == <<x3, x2, x1>>
<1>1. /\ R("fifowq") \in Resources
      /\ R("vbuf") \in Resources
      /\ R("videodev") \in Resources
  BY ResourceNames DEF Singles, PerAdapter
<1>2. x1 \in Releases /\ x2 \in Releases /\ x3 \in Releases
  BY <1>1, DropStep
<1>3. FfVideoExit = k3
  BY DEF FfVideoExit
<1> HIDE DEF x1, x2, x3
<1>a1. k1 = <<x1>> \o <<>>
  BY <1>2
<1>a2. k2 = <<x2>> \o k1
  BY <1>2, Pair
<1>a3. k3 = <<x3>> \o k2
  BY <1>2
<1> HIDE DEF k1, k2, k3
<1> DEFINE g0 == {}
           b0 == {}
           g1 == {R("videodev")} \cup g0
           b1 == b0
           g2 == {R("fifowq")} \cup g1
           b2 == {R("fifowq")} \cup b1
           g3 == {R("vbuf")} \cup g2
           b3 == b2
<1>6. Ladder(<<>>, C, g0, b0)
  BY EmptyLadder
<1>7. R("videodev") \notin g0 /\ \A u \in g0 : ~Uses(u, R("videodev"))
  BY UserTable DEF Stands, R
<1>8. Ladder(k1, C, g1, b1)
  <2> HIDE DEF g0, b0
  <2>1. Ladder(k1, C, {R("videodev")} \cup g0, b0)
    BY <1>1, <1>6, <1>7, <1>a1, LadderDrop DEF x1
  <2> QED BY <2>1
<1>9. R("fifowq") \notin g1 /\ \A u \in g1 : ~Uses(u, R("fifowq"))
  BY UserTable DEF Stands, R
<1>10. Ladder(k2, C, g2, b2)
  <2> HIDE DEF g1, b1
  <2>1. Ladder(k2, C, {R("fifowq")} \cup g1, {R("fifowq")} \cup b1)
    BY <1>1, <1>8, <1>9, <1>a2, LadderDrop DEF x2
  <2> QED BY <2>1
<1>11. R("vbuf") \notin g2 /\ \A u \in g2 : ~Uses(u, R("vbuf"))
  BY UserTable DEF Stands, R
<1>12. Ladder(k3, C, g3, b3)
  <2> HIDE DEF g2, b2
  <2>1. Ladder(k3, C, {R("vbuf")} \cup g2, b2)
    BY <1>1, <1>10, <1>11, <1>a3, LadderDrop DEF x3
  <2> QED BY <2>1
<1>13. g3 = {R("vbuf"), R("fifowq"), R("videodev")} /\ b3 = {R("fifowq")}
  OBVIOUS
<1> HIDE DEF g0, g1, g2, g3, b0, b1, b2, b3
<1> QED BY <1>3, <1>12, <1>13

\* The label fail7 of saa716x_ff_pci_probe(), with the labels below it.
LEMMA FfFail7Ladder ==
  ASSUME NEW C
  PROVE  Ladder(FfFail7, C, FfGone7(C), FfAsks7(C))
<1>1. Ladder(FfVideoExit, C, {R("vbuf"), R("fifowq"), R("videodev")}, {R("fifowq")})
        /\ Ladder(FfFail6, C, FfGone6(C), FfAsks6(C))
  BY FfVideoExitLadder, FfFail6Ladder
<1>2. \A u \in FfGone6(C), d \in {R("vbuf"), R("fifowq"), R("videodev")} : u # d /\ ~Uses(u, d)
  BY FfNames, UserTable DEF Stands, PerAdapter, R
<1>3. {R("vbuf"), R("fifowq"), R("videodev")} \cap FfGone6(C) = {}
  BY <1>2
<1>4. Ladder(FfVideoExit \o FfFail6, C, {R("vbuf"), R("fifowq"), R("videodev")} \cup FfGone6(C),
        {R("fifowq")} \cup FfAsks6(C))
  BY <1>1, <1>2, <1>3, LadderConcat
<1>5. {R("vbuf"), R("fifowq"), R("videodev")} \cup FfGone6(C) = FfGone7(C)
        /\ {R("fifowq")} \cup FfAsks6(C) = FfAsks7(C)
  BY DEF Fail3Asks, Fail3Gone, FfAsks7, FfGone7
<1> QED BY <1>4, <1>5 DEF FfFail7

\* The label fail8 of saa716x_ff_pci_probe(), with the labels below it.
LEMMA FfFail8Ladder ==
  ASSUME NEW C
  PROVE  Ladder(FfFail8, C, FfGone8(C), FfAsks7(C))
<1>1. Ladder(FfFail7, C, FfGone7(C), FfAsks7(C))
  BY FfFail7Ladder
<1>2. R("audio") \in Resources
  BY ResourceNames DEF Singles
<1>3. \A u \in FfGone7(C) : u # R("audio") /\ ~Uses(u, R("audio"))
  BY Fail3Names, UserTable, FfNames DEF Stands, R, PerAdapter
<1>4. R("audio") \notin FfGone7(C) /\ \A u \in FfGone7(C) : ~Uses(u, R("audio"))
  BY <1>3
<1>5. Ladder(<<DropIf(R("audio"))>> \o FfFail7, C, {R("audio")} \cup FfGone7(C), FfAsks7(C))
  BY <1>1, <1>2, <1>4, LadderDrop
<1> QED BY <1>5 DEF FfFail8, FfGone8, FfAsks7

\* The label fail9 of saa716x_ff_pci_probe(), with the labels below it.
LEMMA FfFail9Ladder ==
  ASSUME NEW C
  PROVE  Ladder(FfFail9, C, FfGone9(C), FfAsks7(C))
<1>1. Ladder(FfFail8, C, FfGone8(C), FfAsks7(C))
  BY FfFail8Ladder
<1>2. R("osd") \in Resources
  BY ResourceNames DEF Singles
<1>3. \A u \in FfGone8(C) : u # R("osd") /\ ~Uses(u, R("osd"))
  BY Fail3Names, UserTable, FfNames DEF Stands, R, PerAdapter
<1>4. R("osd") \notin FfGone8(C) /\ \A u \in FfGone8(C) : ~Uses(u, R("osd"))
  BY <1>3
<1>5. Ladder(<<DropIf(R("osd"))>> \o FfFail8, C, {R("osd")} \cup FfGone8(C), FfAsks7(C))
  BY <1>1, <1>2, <1>4, LadderDrop
<1> QED BY <1>5 DEF FfFail9, FfGone9, FfAsks7

-----------------------------------------------------------------------------
(* The remove functions of the cards with DVB adapters.                    *)

\* saa716x_budget_pci_remove() and saa716x_hybrid_pci_remove() give back all
\* there can be.
LEMMA BudgetRemoveLadder ==
  ASSUME NEW C
  PROVE  Ladder(BudgetRemove, C, BudgetGone(C), BudgetAsks(C))
<1> DEFINE P == PerAdapter \X C
           Q == Always \X C
<1>1. /\ Ladder(DvbExit, C, P, Q) /\ Ladder(I2cExit, C, I2cs, I2cs)
      /\ Ladder(PciExit, C, PciGone, PciAsks) /\ Ladder(Fail1, C, {R("dev")}, {R("dev")})
  BY DvbExitLadder, I2cExitLadder, PciExitLadder, Fail1Ladder
<1>2. \A u \in I2cs \cup PciGone \cup {R("dev")}, d \in P : u # d /\ ~Uses(u, d)
  BY Fail3Names, AdapterUsers DEF PerAdapter
<1>3. \A u \in PciGone \cup {R("dev")}, d \in I2cs : u # d /\ ~Uses(u, d)
  BY Fail3Names, UserTable DEF Stands
<1>4. \A d \in PciGone : d # R("dev") /\ ~Uses(R("dev"), d)
  BY UserTable DEF PciGone, R, Stands
<1> HIDE DEF P, Q
<1>5. Ladder(DvbExit \o I2cExit, C, P \cup I2cs, Q \cup I2cs)
  BY <1>1, <1>2, LadderConcat
<1>6. (P \cup I2cs) \cap PciGone = {} /\ \A u \in PciGone, d \in P \cup I2cs : ~Uses(u, d)
  BY <1>2, <1>3
<1>7. Ladder(DvbExit \o I2cExit \o PciExit, C, (P \cup I2cs) \cup PciGone, (Q \cup I2cs) \cup PciAsks)
  BY <1>1, <1>5, <1>6, LadderConcat
<1> DEFINE G == (P \cup I2cs) \cup PciGone
           D == {R("dev")}
<1>8. G \cap D = {} /\ \A u \in D, d \in G : ~Uses(u, d)
  BY <1>2, <1>3, <1>4
<1>9. G \cup D = BudgetGone(C) /\ ((Q \cup I2cs) \cup PciAsks) \cup D = BudgetAsks(C)
  BY DEF BudgetGone, BudgetAsks, Fail3Gone, Fail3Asks, Fail2Gone, Fail2Asks, P, Q
<1> HIDE DEF G, D
<1>10. Ladder(DvbExit \o I2cExit \o PciExit \o Fail1, C, G \cup D, ((Q \cup I2cs) \cup PciAsks) \cup D)
  BY <1>1, <1>7, <1>8, LadderConcat DEF G, D
<1> QED BY <1>9, <1>10 DEF BudgetRemove, Fail1

\* What the second of two ladders clears, the two clear.
LEMMA ClearedConcat ==
  ASSUME NEW s \in Seq(Releases), NEW t \in Seq(Releases)
  PROVE  Cleared(s) \cup Cleared(t) \subseteq Cleared(s \o t)
<1>1. \A n \in 1 .. Len(s) : n \in 1 .. Len(s \o t) /\ (s \o t)[n] = s[n]
  BY ConcatParts
<1>2. \A n \in 1 .. Len(t) : Len(s) + n \in 1 .. Len(s \o t) /\ (s \o t)[Len(s) + n] = t[n]
  BY ConcatParts
<1>3. ASSUME NEW r \in Cleared(s) PROVE r \in Cleared(s \o t)
  <2>1. PICK n \in 1 .. Len(s) : s[n].op = "clear" /\ s[n].res = r
    BY <1>3 DEF Cleared
  <2> QED BY <2>1, <1>1 DEF Cleared
<1>4. ASSUME NEW r \in Cleared(t) PROVE r \in Cleared(s \o t)
  <2>1. PICK n \in 1 .. Len(t) : t[n].op = "clear" /\ t[n].res = r
    BY <1>4 DEF Cleared
  <2>2. Len(s) + n \in 1 .. Len(s \o t) /\ (s \o t)[Len(s) + n] = t[n]
    BY <1>2
  <2> DEFINE k == Len(s) + n
  <2>3. k \in 1 .. Len(s \o t) /\ (s \o t)[k].op = "clear" /\ (s \o t)[k].res = r
    BY <2>1, <2>2
  <2> HIDE DEF k
  <2> QED BY <2>3 DEF Cleared
<1> QED BY <1>3, <1>4

\* saa716x_ir_exit().
LEMMA IrExitLadder ==
  ASSUME NEW C
  PROVE  Ladder(IrExit, C, {R("ir")}, {R("ir")})
<1> DEFINE x1 == Drop(R("ir"))
           x2 == Plain("clear", R("ir"))
           k1 == <<x1>>
           k2 == <<x2, x1>>
<1>1. /\ R("ir") \in Resources
  BY ResourceNames DEF Singles, PerAdapter
<1>2. x1 \in Releases /\ x2 \in Releases
  BY <1>1, DropStep, IdleStep, ResourceNames DEF Singles
<1>3. IrExit = k2
  BY DEF IrExit
<1> HIDE DEF x1, x2
<1>a1. k1 = <<x1>> \o <<>>
  BY <1>2
<1>a2. k2 = <<x2>> \o k1
  BY <1>2, Pair
<1> HIDE DEF k1, k2
<1> DEFINE g0 == {}
           b0 == {}
           g1 == {R("ir")} \cup g0
           b1 == {R("ir")} \cup b0
           g2 == g1
           b2 == b1
<1>6. Ladder(<<>>, C, g0, b0)
  BY EmptyLadder
<1>7. R("ir") \notin g0 /\ \A u \in g0 : ~Uses(u, R("ir"))
  BY UserTable DEF Stands, R
<1>8. Ladder(k1, C, g1, b1)
  <2> HIDE DEF g0, b0
  <2>1. Ladder(k1, C, {R("ir")} \cup g0, {R("ir")} \cup b0)
    BY <1>1, <1>6, <1>7, <1>a1, LadderDrop DEF x1
  <2> QED BY <2>1
<1>9. Ladder(k2, C, g2, b2)
  BY <1>8, <1>a2, LadderIdle, ResourceNames DEF x2, Singles
<1>10. g2 = {R("ir")} /\ b2 = {R("ir")}
  OBVIOUS
<1> HIDE DEF g0, g1, g2, b0, b1, b2
<1> QED BY <1>3, <1>9, <1>10

\* saa716x_ff_pci_remove() gives back OSD and audio.
LEMMA OsdAudioLadder ==
  ASSUME NEW C
  PROVE  Ladder(<<DropIf(R("osd")), DropIf(R("audio"))>>, C, {R("osd"), R("audio")}, {})
<1> DEFINE x1 == DropIf(R("audio"))
           x2 == DropIf(R("osd"))
           k1 == <<x1>>
           k2 == <<x2, x1>>
<1>1. /\ R("audio") \in Resources
      /\ R("osd") \in Resources
  BY ResourceNames DEF Singles, PerAdapter
<1>2. x1 \in Releases /\ x2 \in Releases
  BY <1>1, DropStep
<1>3. <<DropIf(R("osd")), DropIf(R("audio"))>> = k2
  OBVIOUS
<1> HIDE DEF x1, x2
<1>a1. k1 = <<x1>> \o <<>>
  BY <1>2
<1>a2. k2 = <<x2>> \o k1
  BY <1>2, Pair
<1> HIDE DEF k1, k2
<1> DEFINE g0 == {}
           b0 == {}
           g1 == {R("audio")} \cup g0
           b1 == b0
           g2 == {R("osd")} \cup g1
           b2 == b1
<1>6. Ladder(<<>>, C, g0, b0)
  BY EmptyLadder
<1>7. R("audio") \notin g0 /\ \A u \in g0 : ~Uses(u, R("audio"))
  BY UserTable DEF Stands, R
<1>8. Ladder(k1, C, g1, b1)
  <2> HIDE DEF g0, b0
  <2>1. Ladder(k1, C, {R("audio")} \cup g0, b0)
    BY <1>1, <1>6, <1>7, <1>a1, LadderDrop DEF x1
  <2> QED BY <2>1
<1>9. R("osd") \notin g1 /\ \A u \in g1 : ~Uses(u, R("osd"))
  BY UserTable DEF Stands, R
<1>10. Ladder(k2, C, g2, b2)
  <2> HIDE DEF g1, b1
  <2>1. Ladder(k2, C, {R("osd")} \cup g1, b1)
    BY <1>1, <1>8, <1>9, <1>a2, LadderDrop DEF x2
  <2> QED BY <2>1
<1>11. g2 = {R("osd"), R("audio")} /\ b2 = {}
  OBVIOUS
<1> HIDE DEF g0, g1, g2, b0, b1, b2
<1> QED BY <1>3, <1>10, <1>11

\* saa716x_ff_pci_remove() gives back the buffer, clears priv, and gives back
\* the structure of the STi7109.
LEMMA DataLadder ==
  ASSUME NEW C
  PROVE  Ladder(<<Drop(R("iobuf")), Plain("clear", R("sti")), Drop(R("sti"))>>, C, {R("iobuf"),
           R("sti")}, {R("iobuf"), R("sti")})
<1> DEFINE x1 == Drop(R("sti"))
           x2 == Plain("clear", R("sti"))
           x3 == Drop(R("iobuf"))
           k1 == <<x1>>
           k2 == <<x2, x1>>
           k3 == <<x3, x2, x1>>
<1>1. /\ R("iobuf") \in Resources
      /\ R("sti") \in Resources
  BY ResourceNames DEF Singles, PerAdapter
<1>2. x1 \in Releases /\ x2 \in Releases /\ x3 \in Releases
  BY <1>1, DropStep, IdleStep, ResourceNames DEF Singles
<1>3. <<Drop(R("iobuf")), Plain("clear", R("sti")), Drop(R("sti"))>> = k3
  OBVIOUS
<1> HIDE DEF x1, x2, x3
<1>a1. k1 = <<x1>> \o <<>>
  BY <1>2
<1>a2. k2 = <<x2>> \o k1
  BY <1>2, Pair
<1>a3. k3 = <<x3>> \o k2
  BY <1>2
<1> HIDE DEF k1, k2, k3
<1> DEFINE g0 == {}
           b0 == {}
           g1 == {R("sti")} \cup g0
           b1 == {R("sti")} \cup b0
           g2 == g1
           b2 == b1
           g3 == {R("iobuf")} \cup g2
           b3 == {R("iobuf")} \cup b2
<1>6. Ladder(<<>>, C, g0, b0)
  BY EmptyLadder
<1>7. R("sti") \notin g0 /\ \A u \in g0 : ~Uses(u, R("sti"))
  BY UserTable DEF Stands, R
<1>8. Ladder(k1, C, g1, b1)
  <2> HIDE DEF g0, b0
  <2>1. Ladder(k1, C, {R("sti")} \cup g0, {R("sti")} \cup b0)
    BY <1>1, <1>6, <1>7, <1>a1, LadderDrop DEF x1
  <2> QED BY <2>1
<1>9. Ladder(k2, C, g2, b2)
  BY <1>8, <1>a2, LadderIdle, ResourceNames DEF x2, Singles
<1>10. R("iobuf") \notin g2 /\ \A u \in g2 : ~Uses(u, R("iobuf"))
  BY UserTable DEF Stands, R
<1>11. Ladder(k3, C, g3, b3)
  <2> HIDE DEF g2, b2
  <2>1. Ladder(k3, C, {R("iobuf")} \cup g2, {R("iobuf")} \cup b2)
    BY <1>1, <1>9, <1>10, <1>a3, LadderDrop DEF x3
  <2> QED BY <2>1
<1>12. g3 = {R("iobuf"), R("sti")} /\ b3 = {R("iobuf"), R("sti")}
  OBVIOUS
<1> HIDE DEF g0, g1, g2, g3, b0, b1, b2, b3
<1> QED BY <1>3, <1>11, <1>12

\* saa716x_ff_pci_remove() gives back all there can be, and clears both pointers.
LEMMA FfRemoveLadder ==
  ASSUME NEW C
  PROVE  Ladder(FfRemove, C, FfGoneAll(C), FfAsksAll(C)) /\ {R("ir"), R("sti")} \subseteq Cleared(FfRemove)
<1> DEFINE t1 == IrExit
           t2 == <<DropIf(R("osd")), DropIf(R("audio"))>>
           t3 == FfVideoExit
           t4 == DvbExit
           t5 == <<Drop(R("iobuf")), Plain("clear", R("sti")), Drop(R("sti"))>>
           t6 == I2cExit
           t7 == PciExit
           t8 == <<Drop(R("dev"))>>
           s1 == t1
           s2 == s1 \o t2
           s3 == s2 \o t3
           s4 == s3 \o t4
           s5 == s4 \o t5
           s6 == s5 \o t6
           s7 == s6 \o t7
           s8 == s7 \o t8
           h1 == {R("ir")}
           b1 == {R("ir")}
           h2 == {R("osd"), R("audio")}
           b2 == {}
           h3 == {R("vbuf"), R("fifowq"), R("videodev")}
           b3 == {R("fifowq")}
           h4 == (PerAdapter \X C)
           b4 == (Always \X C)
           h5 == {R("iobuf"), R("sti")}
           b5 == {R("iobuf"), R("sti")}
           h6 == I2cs
           b6 == I2cs
           h7 == PciGone
           b7 == PciAsks
           h8 == {R("dev")}
           b8 == {R("dev")}
           g1 == h1
           a1 == b1
           g2 == g1 \cup h2
           a2 == a1 \cup b2
           g3 == g2 \cup h3
           a3 == a2 \cup b3
           g4 == g3 \cup h4
           a4 == a3 \cup b4
           g5 == g4 \cup h5
           a5 == a4 \cup b5
           g6 == g5 \cup h6
           a6 == a5 \cup b6
           g7 == g6 \cup h7
           a7 == a6 \cup b7
           g8 == g7 \cup h8
           a8 == a7 \cup b8
<1>1. FfRemove = s8
  BY DEF FfRemove
<1>2. g8 = FfGoneAll(C)
  BY DEF FfGoneAll, FfGone9, FfGone8, FfGone7, FfGone6, FfGone5, FfGone4, Fail3Gone, Fail2Gone
<1>3. a8 = FfAsksAll(C)
  BY DEF FfAsksAll, FfAsks7, FfAsks6, FfAsks5, FfAsks4, Fail3Asks, Fail2Asks
<1>n1. \A d \in h1 : d[1] \in {"ir"}
  BY DEF R
<1>n2. \A d \in h2 : d[1] \in {"osd", "audio"}
  BY DEF R
<1>n3. \A d \in h3 : d[1] \in {"vbuf", "fifowq", "videodev"}
  BY DEF R
<1>n4. \A d \in h4 : d[1] \in PerAdapter
  OBVIOUS
<1>n5. \A d \in h5 : d[1] \in {"iobuf", "sti"}
  BY DEF R
<1>n6. \A d \in h6 : d[1] \in {"i2c"}
  BY Fail3Names
<1>n7. \A d \in h7 : d[1] \in {"irq", "msi", "mmio", "bar", "pci", "drvdata"}
  BY DEF PciGone, R
<1>n8. \A d \in h8 : d[1] \in {"dev"}
  BY DEF R
<1>u. \A u, d : Uses(u, d) => Stands(u, d) /\ (d[1] \in PerAdapter =>
          u[1] \in {"dmx", "frontend", "dmxdev", "fehw", "femem", "fgpi", "videodev", "audio", "osd"})
  BY UserTable, AdapterUsers
<1>l1. Ladder(t1, C, h1, b1) /\ t1 \in Seq(Releases)
  BY IrExitLadder DEF Ladder, Rungs
<1>l2. Ladder(t2, C, h2, b2) /\ t2 \in Seq(Releases)
  BY OsdAudioLadder DEF Ladder, Rungs
<1>l3. Ladder(t3, C, h3, b3) /\ t3 \in Seq(Releases)
  BY FfVideoExitLadder DEF Ladder, Rungs
<1>l4. Ladder(t4, C, h4, b4) /\ t4 \in Seq(Releases)
  BY DvbExitLadder DEF Ladder, Rungs
<1>l5. Ladder(t5, C, h5, b5) /\ t5 \in Seq(Releases)
  BY DataLadder DEF Ladder, Rungs
<1>l6. Ladder(t6, C, h6, b6) /\ t6 \in Seq(Releases)
  BY I2cExitLadder DEF Ladder, Rungs
<1>l7. Ladder(t7, C, h7, b7) /\ t7 \in Seq(Releases)
  BY PciExitLadder DEF Ladder, Rungs
<1>l8. Ladder(t8, C, h8, b8) /\ t8 \in Seq(Releases)
  BY Fail1Ladder DEF Ladder, Rungs, Fail1
<1>c1. R("ir") \in Cleared(t1)
  <2>1. t1[1] = Plain("clear", R("ir")) /\ 1 \in 1 .. Len(t1)
    BY DEF IrExit
  <2> HIDE DEF t1
  <2> QED BY <2>1 DEF Cleared, Plain, Step
<1>c2. R("sti") \in Cleared(t5)
  <2>1. t5[2] = Plain("clear", R("sti")) /\ 2 \in 1 .. Len(t5)
    OBVIOUS
  <2> HIDE DEF t5
  <2> QED BY <2>1 DEF Cleared, Plain, Step
<1> HIDE DEF t1, s1, h1, b1, g1, a1, t2, s2, h2, b2, g2, a2, t3, s3, h3, b3, g3, a3, t4, s4, h4,
             b4, g4, a4, t5, s5, h5, b5, g5, a5, t6, s6, h6, b6, g6, a6, t7, s7, h7, b7, g7, a7,
             t8, s8, h8, b8, g8, a8
<1>11. Ladder(s1, C, g1, a1)
  BY <1>l1 DEF s1, g1, a1
<1>12. Ladder(s2, C, g2, a2)
  <2>1. \A d \in g1 : d \in h1
    BY DEF g1
  <2>2. \A u \in h2, d \in g1 : u # d /\ ~Uses(u, d)
    BY <2>1, <1>n1, <1>n2, <1>u, SMTT(60) DEF Stands, PerAdapter
  <2>3. g1 \cap h2 = {} /\ \A u \in h2, d \in g1 : ~Uses(u, d)
    BY <2>2
  <2>4. Ladder(s1 \o t2, C, g1 \cup h2, a1 \cup b2)
    BY <1>11, <1>l2, <2>3, LadderConcat
  <2> QED BY <2>4 DEF s2, g2, a2
<1>13. Ladder(s3, C, g3, a3)
  <2>1. \A d \in g2 : d \in h1 \/ d \in h2
    BY DEF g1, g2
  <2>2. \A u \in h3, d \in g2 : u # d /\ ~Uses(u, d)
    BY <2>1, <1>n1, <1>n2, <1>n3, <1>u, SMTT(60) DEF Stands, PerAdapter
  <2>3. g2 \cap h3 = {} /\ \A u \in h3, d \in g2 : ~Uses(u, d)
    BY <2>2
  <2>4. Ladder(s2 \o t3, C, g2 \cup h3, a2 \cup b3)
    BY <1>12, <1>l3, <2>3, LadderConcat
  <2> QED BY <2>4 DEF s3, g3, a3
<1>14. Ladder(s4, C, g4, a4)
  <2>1. \A d \in g3 : d \in h1 \/ d \in h2 \/ d \in h3
    BY DEF g1, g2, g3
  <2>2. \A u \in h4, d \in g3 : u # d /\ ~Uses(u, d)
    BY <2>1, <1>n1, <1>n2, <1>n3, <1>n4, <1>u, SMTT(60) DEF Stands, PerAdapter
  <2>3. g3 \cap h4 = {} /\ \A u \in h4, d \in g3 : ~Uses(u, d)
    BY <2>2
  <2>4. Ladder(s3 \o t4, C, g3 \cup h4, a3 \cup b4)
    BY <1>13, <1>l4, <2>3, LadderConcat
  <2> QED BY <2>4 DEF s4, g4, a4
<1>15. Ladder(s5, C, g5, a5)
  <2>1. \A d \in g4 : d \in h1 \/ d \in h2 \/ d \in h3 \/ d \in h4
    BY DEF g1, g2, g3, g4
  <2>2. \A u \in h5, d \in g4 : u # d /\ ~Uses(u, d)
    BY <2>1, <1>n1, <1>n2, <1>n3, <1>n4, <1>n5, <1>u, SMTT(60) DEF Stands, PerAdapter
  <2>3. g4 \cap h5 = {} /\ \A u \in h5, d \in g4 : ~Uses(u, d)
    BY <2>2
  <2>4. Ladder(s4 \o t5, C, g4 \cup h5, a4 \cup b5)
    BY <1>14, <1>l5, <2>3, LadderConcat
  <2> QED BY <2>4 DEF s5, g5, a5
<1>16. Ladder(s6, C, g6, a6)
  <2>1. \A d \in g5 : d \in h1 \/ d \in h2 \/ d \in h3 \/ d \in h4 \/ d \in h5
    BY DEF g1, g2, g3, g4, g5
  <2>2. \A u \in h6, d \in g5 : u # d /\ ~Uses(u, d)
    BY <2>1, <1>n1, <1>n2, <1>n3, <1>n4, <1>n5, <1>n6, <1>u, SMTT(60) DEF Stands, PerAdapter
  <2>3. g5 \cap h6 = {} /\ \A u \in h6, d \in g5 : ~Uses(u, d)
    BY <2>2
  <2>4. Ladder(s5 \o t6, C, g5 \cup h6, a5 \cup b6)
    BY <1>15, <1>l6, <2>3, LadderConcat
  <2> QED BY <2>4 DEF s6, g6, a6
<1>17. Ladder(s7, C, g7, a7)
  <2>1. \A d \in g6 : d \in h1 \/ d \in h2 \/ d \in h3 \/ d \in h4 \/ d \in h5 \/ d \in h6
    BY DEF g1, g2, g3, g4, g5, g6
  <2>2. \A u \in h7, d \in g6 : u # d /\ ~Uses(u, d)
    BY <2>1, <1>n1, <1>n2, <1>n3, <1>n4, <1>n5, <1>n6, <1>n7, <1>u, SMTT(60) DEF Stands, PerAdapter
  <2>3. g6 \cap h7 = {} /\ \A u \in h7, d \in g6 : ~Uses(u, d)
    BY <2>2
  <2>4. Ladder(s6 \o t7, C, g6 \cup h7, a6 \cup b7)
    BY <1>16, <1>l7, <2>3, LadderConcat
  <2> QED BY <2>4 DEF s7, g7, a7
<1>18. Ladder(s8, C, g8, a8)
  <2>1. \A d \in g7 : d \in h1 \/ d \in h2 \/ d \in h3 \/ d \in h4 \/ d \in h5 \/ d \in h6 \/ d \in h7
    BY DEF g1, g2, g3, g4, g5, g6, g7
  <2>2. \A u \in h8, d \in g7 : u # d /\ ~Uses(u, d)
    BY <2>1, <1>n1, <1>n2, <1>n3, <1>n4, <1>n5, <1>n6, <1>n7, <1>n8, <1>u, SMTT(60) DEF Stands,
       PerAdapter
  <2>3. g7 \cap h8 = {} /\ \A u \in h8, d \in g7 : ~Uses(u, d)
    BY <2>2
  <2>4. Ladder(s7 \o t8, C, g7 \cup h8, a7 \cup b8)
    BY <1>17, <1>l8, <2>3, LadderConcat
  <2> QED BY <2>4 DEF s8, g8, a8
<1>20. s1 \in Seq(Releases) /\ R("ir") \in Cleared(s1)
  BY <1>l1, <1>c1 DEF s1
<1>21. s2 \in Seq(Releases) /\ R("ir") \in Cleared(s2)
  BY <1>20, <1>l2, ClearedConcat DEF s2
<1>22. s3 \in Seq(Releases) /\ R("ir") \in Cleared(s3)
  BY <1>21, <1>l3, ClearedConcat DEF s3
<1>23. s4 \in Seq(Releases) /\ R("ir") \in Cleared(s4)
  BY <1>22, <1>l4, ClearedConcat DEF s4
<1>24. s5 \in Seq(Releases) /\ R("ir") \in Cleared(s5) /\ R("sti") \in Cleared(s5)
  BY <1>23, <1>l5, ClearedConcat, <1>c2 DEF s5
<1>25. s6 \in Seq(Releases) /\ R("ir") \in Cleared(s6) /\ R("sti") \in Cleared(s6)
  BY <1>24, <1>l6, ClearedConcat DEF s6
<1>26. s7 \in Seq(Releases) /\ R("ir") \in Cleared(s7) /\ R("sti") \in Cleared(s7)
  BY <1>25, <1>l7, ClearedConcat DEF s7
<1>27. s8 \in Seq(Releases) /\ R("ir") \in Cleared(s8) /\ R("sti") \in Cleared(s8)
  BY <1>26, <1>l8, ClearedConcat DEF s8
<1> QED BY <1>1, <1>2, <1>3, <1>18, <1>27

-----------------------------------------------------------------------------
(* The labels of saa716x_dvb_init().                                       *)

\* Nothing in G belongs to adapter i or stands on it.
Apart(G, i) ==
  \A u \in G : /\ u \notin PerAdapter \X {i}
               /\ u[1] \in PerAdapter => u[2] # i
               /\ u[1] \notin {"videodev", "audio", "osd"}

\* The labels of saa716x_dvb_init() for adapter i, on top of those of its
\* caller: each gives back what of adapter i has come up, and what the
\* caller's label does.
LEMMA ErrLadders ==
  ASSUME NEW i \in 0 .. Adapters - 1, NEW undo, NEW C, NEW G, NEW A,
         Ladder(undo, C, G, A), Apart(G, i)
  PROVE  /\ Ladder(Err0(i, undo), C, ({"adapter"} \X {i}) \cup G, ({"adapter"} \X {i}) \cup A)
         /\ Ladder(Err1(i, undo), C, ({"adapter", "dmx"} \X {i}) \cup G, ({"adapter", "dmx"} \X {i}) \cup A)
         /\ Ladder(Err2(i, undo), C, ({"adapter", "dmx", "dmxdev"} \X {i}) \cup G, ({"adapter",
              "dmx", "dmxdev"} \X {i}) \cup A)
         /\ Ladder(Err3(i, undo), C, ({"adapter", "dmx", "dmxdev", "fehw"} \X {i}) \cup G,
              ({"adapter", "dmx", "dmxdev", "fehw"} \X {i}) \cup A)
         /\ Ladder(Err4(i, undo), C, ({"adapter", "dmx", "dmxdev", "fehw",
              "femem"} \X {i}) \cup G, ({"adapter", "dmx", "dmxdev", "fehw",
              "femem"} \X {i}) \cup A)
         /\ Ladder(Err6(i, undo), C, ({"adapter", "dmx", "dmxdev", "fehw", "femem",
              "fe"} \X {i}) \cup G, ({"adapter", "dmx", "dmxdev", "fehw", "femem"} \X {i}) \cup A)
<1> DEFINE r(x) == <<x, i>>
           g0 == G
           a0 == A
           g1 == {r("adapter")} \cup g0
           a1 == {r("adapter")} \cup a0
           g2 == {r("dmx")} \cup g1
           a2 == {r("dmx")} \cup a1
           g3 == {r("dmxdev")} \cup g2
           a3 == {r("dmxdev")} \cup a2
           g4 == {r("fehw")} \cup g3
           a4 == {r("fehw")} \cup a3
           g5 == {r("femem")} \cup g4
           a5 == {r("femem")} \cup a4
           g6 == {r("fe")} \cup g5
           a6 == a5
<1>1. \A x \in PerAdapter : r(x) \in Resources
  BY AdapterResources
<1>2. \A x \in PerAdapter : r(x) \notin G /\ \A u \in G : ~Uses(u, r(x))
  <2>1. \A x \in PerAdapter : \A u \in G : ~Stands(u, r(x))
    BY DEF Apart, Stands, PerAdapter
  <2> QED BY <2>1, UserTable DEF Apart
<1>3. \A x, y : /\ r(x) = r(y) => x = y
                /\ Uses(r(x), r(y)) =>
                     \/ y = "adapter" /\ x \in {"dmx", "frontend", "videodev", "audio", "osd"}
                     \/ y = "dmx" /\ x \in {"dmxdev", "fehw", "femem", "fgpi"}
                     \/ y = "fe" /\ x = "frontend"
                     \/ y \notin PerAdapter
  BY UserTable DEF Stands, r, PerAdapter
<1>e1. /\ g1 = ({"adapter"} \X {i}) \cup G
      /\ a1 = ({"adapter"} \X {i}) \cup A
  OBVIOUS
<1>e2. /\ g2 = ({"adapter", "dmx"} \X {i}) \cup G
      /\ a2 = ({"adapter", "dmx"} \X {i}) \cup A
  OBVIOUS
<1>e3. /\ g3 = ({"adapter", "dmx", "dmxdev"} \X {i}) \cup G
      /\ a3 = ({"adapter", "dmx", "dmxdev"} \X {i}) \cup A
  OBVIOUS
<1>e4. /\ g4 = ({"adapter", "dmx", "dmxdev", "fehw"} \X {i}) \cup G
      /\ a4 = ({"adapter", "dmx", "dmxdev", "fehw"} \X {i}) \cup A
  OBVIOUS
<1>e5. /\ g5 = ({"adapter", "dmx", "dmxdev", "fehw", "femem"} \X {i}) \cup G
      /\ a5 = ({"adapter", "dmx", "dmxdev", "fehw", "femem"} \X {i}) \cup A
  OBVIOUS
<1>e6. /\ g6 = ({"adapter", "dmx", "dmxdev", "fehw", "femem", "fe"} \X {i}) \cup G
      /\ a6 = ({"adapter", "dmx", "dmxdev", "fehw", "femem"} \X {i}) \cup A
  OBVIOUS
<1>d1. Err0(i, undo) = <<Drop(r("adapter"))>> \o undo
  BY DEF Err0
<1>d2. Err1(i, undo) = <<Drop(r("dmx"))>> \o Err0(i, undo)
  BY DEF Err1
<1>d3. Err2(i, undo) = <<Drop(r("dmxdev"))>> \o Err1(i, undo)
  BY DEF Err2
<1>d4. Err3(i, undo) = <<Drop(r("fehw"))>> \o Err2(i, undo)
  BY DEF Err3
<1>d5. Err4(i, undo) = <<Drop(r("femem"))>> \o Err3(i, undo)
  BY DEF Err4
<1>d6. Err6(i, undo) = <<DropIf(r("fe"))>> \o Err4(i, undo)
  BY DEF Err6
<1>n1. r("adapter") \in Resources /\ r("adapter") \notin g0 /\ \A u \in g0 : ~Uses(u, r("adapter"))
  <2>1. "adapter" \in PerAdapter
    BY DEF PerAdapter
  <2> HIDE DEF r
  <2> QED BY <1>1, <1>2, <1>3, <2>1
<1>n2. r("dmx") \in Resources /\ r("dmx") \notin g1 /\ \A u \in g1 : ~Uses(u, r("dmx"))
  <2>1. "adapter" \in PerAdapter /\ "dmx" \in PerAdapter
    BY DEF PerAdapter
  <2> HIDE DEF r
  <2> QED BY <1>1, <1>2, <1>3, <2>1
<1>n3. r("dmxdev") \in Resources /\ r("dmxdev") \notin g2 /\ \A u \in g2 : ~Uses(u, r("dmxdev"))
  <2>1. "adapter" \in PerAdapter /\ "dmx" \in PerAdapter /\ "dmxdev" \in PerAdapter
    BY DEF PerAdapter
  <2> HIDE DEF r
  <2> QED BY <1>1, <1>2, <1>3, <2>1
<1>n4. r("fehw") \in Resources /\ r("fehw") \notin g3 /\ \A u \in g3 : ~Uses(u, r("fehw"))
  <2>1. "adapter" \in PerAdapter /\ "dmx" \in PerAdapter /\ "dmxdev" \in PerAdapter /\ "fehw" \in PerAdapter
    BY DEF PerAdapter
  <2> HIDE DEF r
  <2> QED BY <1>1, <1>2, <1>3, <2>1
<1>n5. r("femem") \in Resources /\ r("femem") \notin g4 /\ \A u \in g4 : ~Uses(u, r("femem"))
  <2>1. "adapter" \in PerAdapter /\ "dmx" \in PerAdapter /\ "dmxdev" \in PerAdapter
          /\ "fehw" \in PerAdapter /\ "femem" \in PerAdapter
    BY DEF PerAdapter
  <2> HIDE DEF r
  <2> QED BY <1>1, <1>2, <1>3, <2>1
<1>n6. r("fe") \in Resources /\ r("fe") \notin g5 /\ \A u \in g5 : ~Uses(u, r("fe"))
  <2>1. "adapter" \in PerAdapter /\ "dmx" \in PerAdapter /\ "dmxdev" \in PerAdapter
          /\ "fehw" \in PerAdapter /\ "femem" \in PerAdapter /\ "fe" \in PerAdapter
    BY DEF PerAdapter
  <2> HIDE DEF r
  <2> QED BY <1>1, <1>2, <1>3, <2>1
<1>10. Ladder(undo, C, g0, a0)
  OBVIOUS
<1> HIDE DEF r, g0, g1, g2, g3, g4, g5, g6, a0, a1, a2, a3, a4, a5, a6
<1>11. Ladder(Err0(i, undo), C, g1, a1)
  <2>1. Ladder(<<Drop(r("adapter"))>> \o undo, C, {r("adapter")} \cup g0, {r("adapter")} \cup a0)
    BY <1>n1, <1>10, LadderDrop
  <2> QED BY <2>1, <1>d1 DEF g1, a1
<1>12. Ladder(Err1(i, undo), C, g2, a2)
  <2>1. Ladder(<<Drop(r("dmx"))>> \o Err0(i, undo), C, {r("dmx")} \cup g1, {r("dmx")} \cup a1)
    BY <1>n2, <1>11, LadderDrop
  <2> QED BY <2>1, <1>d2 DEF g2, a2
<1>13. Ladder(Err2(i, undo), C, g3, a3)
  <2>1. Ladder(<<Drop(r("dmxdev"))>> \o Err1(i, undo), C, {r("dmxdev")} \cup g2, {r("dmxdev")} \cup a2)
    BY <1>n3, <1>12, LadderDrop
  <2> QED BY <2>1, <1>d3 DEF g3, a3
<1>14. Ladder(Err3(i, undo), C, g4, a4)
  <2>1. Ladder(<<Drop(r("fehw"))>> \o Err2(i, undo), C, {r("fehw")} \cup g3, {r("fehw")} \cup a3)
    BY <1>n4, <1>13, LadderDrop
  <2> QED BY <2>1, <1>d4 DEF g4, a4
<1>15. Ladder(Err4(i, undo), C, g5, a5)
  <2>1. Ladder(<<Drop(r("femem"))>> \o Err3(i, undo), C, {r("femem")} \cup g4, {r("femem")} \cup a4)
    BY <1>n5, <1>14, LadderDrop
  <2> QED BY <2>1, <1>d5 DEF g5, a5
<1>16. Ladder(Err6(i, undo), C, g6, a6)
  <2>1. Ladder(<<DropIf(r("fe"))>> \o Err4(i, undo), C, {r("fe")} \cup g5, a5)
    BY <1>n6, <1>15, LadderDrop
  <2> QED BY <2>1, <1>d6 DEF g6, a6
<1> QED BY <1>11, <1>e1, <1>12, <1>e2, <1>13, <1>e3, <1>14, <1>e4, <1>15, <1>e5, <1>16, <1>e6

\* Two sequences of steps that fit, their stages spelled out.
LEMMA PathThen ==
  ASSUME NEW crd, NEW s, NEW t, NEW M, NEW X, NEW F, NEW C,
         NEW m, NEW x, NEW f, NEW c, NEW n, NEW y, NEW g, NEW e,
         Path(crd, s, Stage(M, X, F, C), Stage(m, x, f, c)),
         Path(crd, t, Stage(M \cup m, X \cup x, F \cup f, C \cup c), Stage(n, y, g, e))
  PROVE  Path(crd, s \o t, Stage(M, X, F, C), Stage(m \cup n, x \cup y, f \cup g, c \cup e))
<1>1. \A m1, x1, f1, c1, m2, x2, f2, c2 :
        Plus(Stage(m1, x1, f1, c1), Stage(m2, x2, f2, c2))
          = Stage(m1 \cup m2, x1 \cup x2, f1 \cup f2, c1 \cup c2)
  BY DEF Plus, Stage
<1>2. Path(crd, t, Plus(Stage(M, X, F, C), Stage(m, x, f, c)), Stage(n, y, g, e))
  BY <1>1
<1>3. Path(crd, s \o t, Stage(M, X, F, C), Plus(Stage(m, x, f, c), Stage(n, y, g, e)))
  BY <1>2, PathConcat
<1> QED BY <1>1, <1>3

-----------------------------------------------------------------------------
(* What every probe function does first.                                   *)

\* How the resources are named.
LEMMA ResourceShapes ==
  \A d \in Resources :
    /\ d[1] \in Singles => d = <<d[1], 0>>
    /\ d[1] = "i2c" => d \in I2cs
    /\ d[1] \in PerAdapter => d = <<d[1], d[2]>> /\ d[2] \in 0 .. Adapters - 1
    /\ d[1] \in Parts => d = <<d[1], d[2], d[3]>> /\ d \in Buffers
<1> TAKE d \in Resources
<1>1. CASE d \in Parts \X {"vip", "aip"} \X (1 .. DmaBuffers)
  BY <1>1 DEF Singles, PerAdapter, Parts, Buffers
<1>2. CASE d \in Singles \X {0}
  BY <1>2 DEF Singles, PerAdapter, Parts
<1>3. CASE d \in {"i2c"} \X {0, 1}
  BY <1>3 DEF Singles, PerAdapter, Parts, I2cs
<1>4. CASE d \in PerAdapter \X (0 .. Adapters - 1)
  BY <1>4 DEF Singles, PerAdapter, Parts
<1> QED BY <1>1, <1>2, <1>3, <1>4 DEF Resources

\* Which resources are no DMA buffers.
LEMMA NoBuffers ==
  /\ \A x \in Singles : R(x) \in Resources /\ R(x) \notin Buffers
  /\ \A i \in {0, 1} : <<"i2c", i>> \in Resources /\ <<"i2c", i>> \notin Buffers
  /\ \A x \in PerAdapter, i \in 0 .. Adapters - 1 : <<x, i>> \in Resources /\ <<x, i>> \notin Buffers
<1>1. \A x \in Singles : R(x) \notin Buffers
  BY DEF R, Buffers, Singles, Parts
<1>2. \A i \in {0, 1} : <<"i2c", i>> \notin Buffers
  BY DEF Buffers, Parts
<1>3. \A x \in PerAdapter, i \in 0 .. Adapters - 1 : <<x, i>> \notin Buffers
  BY DEF Buffers, Parts, PerAdapter
<1> QED BY <1>1, <1>2, <1>3, ResourceNames, AdapterResources

\* The step of a sequence of one.
LEMMA OneOf ==
  ASSUME NEW S, NEW x, <<x>> \in Seq(S)
  PROVE  x \in S
OBVIOUS

\* The same when the first one counts no adapter.
LEMMA PathNext ==
  ASSUME NEW crd, NEW s, NEW t, NEW M, NEW X, NEW F, NEW C,
         NEW m, NEW x, NEW f, NEW n, NEW y, NEW g, NEW e,
         Path(crd, s, Stage(M, X, F, C), Stage(m, x, f, {})),
         Path(crd, t, Stage(M \cup m, X \cup x, F \cup f, C), Stage(n, y, g, e))
  PROVE  Path(crd, s \o t, Stage(M, X, F, C), Stage(m \cup n, x \cup y, f \cup g, e))
<1> DEFINE c == {}
<1>1. C \cup c = C /\ c \cup e = e
  OBVIOUS
<1>2. Path(crd, s, Stage(M, X, F, C), Stage(m, x, f, c))
  OBVIOUS
<1> HIDE DEF c
<1>3. Path(crd, t, Stage(M \cup m, X \cup x, F \cup f, C \cup c), Stage(n, y, g, e))
  BY <1>1
<1>4. Path(crd, s \o t, Stage(M, X, F, C), Stage(m \cup n, x \cup y, f \cup g, c \cup e))
  BY <1>2, <1>3, PathThen
<1> QED BY <1>1, <1>4

\* What a probe function has at first: the device structure, and the capture card its work queue.
Bases(crd, B) ==
  /\ R("dev") \in B /\ B \subseteq {R("dev"), R("wq")}
  /\ crd = "cap" => R("wq") \in B

\* What saa716x_pci_init() holds for sure, and what the core may hold and
\* holds for sure.
PciFirm == {R("pci"), R("bar"), R("mmio"), R("irq"), R("drvdata")}
CoreMay == PciGone \cup I2cs
CoreFirm == PciFirm \cup I2cs

\* saa716x_pci_init() fits: each of its steps stands on the ones before it,
\* and each jump is to the label that gives back what they took.
LEMMA PciInitPath ==
  ASSUME NEW crd, NEW B, Bases(crd, B), NEW C
  PROVE  Path(crd, PciInit, Stage(B, B, B, C), Stage(PciGone, PciFirm, PciFirm, {}))
<1> DEFINE x1 == Take(R("pci"), PciFail0)
           x2 == Check({"ok", "fail"}, PciFail1)
           x3 == Take(R("bar"), PciFail1)
           x4 == Take(R("mmio"), PciFail2)
           x5 == Step("irq", R("irq"), {}, {"ok", "fail"}, PciFail3)
           x6 == Get(R("drvdata"))
           k6 == <<x6>>
           k5 == <<x5, x6>>
           k4 == <<x4, x5, x6>>
           k3 == <<x3, x4, x5, x6>>
           k2 == <<x2, x3, x4, x5, x6>>
           k1 == <<x1, x2, x3, x4, x5, x6>>
           M1 == B
           X1 == B
           F1 == B
           m1 == {R("pci")}
           y1 == {R("pci")}
           f1 == {R("pci")}
           M2 == M1 \cup m1
           X2 == X1 \cup y1
           F2 == F1 \cup f1
           m2 == {}
           y2 == {}
           f2 == {}
           M3 == M2 \cup m2
           X3 == X2 \cup y2
           F3 == F2 \cup f2
           m3 == {R("bar")}
           y3 == {R("bar")}
           f3 == {R("bar")}
           M4 == M3 \cup m3
           X4 == X3 \cup y3
           F4 == F3 \cup f3
           m4 == {R("mmio")}
           y4 == {R("mmio")}
           f4 == {R("mmio")}
           M5 == M4 \cup m4
           X5 == X4 \cup y4
           F5 == F4 \cup f4
           m5 == {R("irq"), R("msi")}
           y5 == {R("irq")}
           f5 == {R("irq")}
           M6 == M5 \cup m5
           X6 == X5 \cup y5
           F6 == F5 \cup f5
           m6 == {R("drvdata")}
           y6 == {R("drvdata")}
           f6 == {R("drvdata")}
           tm6 == m6
           ty6 == y6
           tf6 == f6
           tm5 == m5 \cup tm6
           ty5 == y5 \cup ty6
           tf5 == f5 \cup tf6
           tm4 == m4 \cup tm5
           ty4 == y4 \cup ty5
           tf4 == f4 \cup tf5
           tm3 == m3 \cup tm4
           ty3 == y3 \cup ty4
           tf3 == f3 \cup tf4
           tm2 == m2 \cup tm3
           ty2 == y2 \cup ty3
           tf2 == f2 \cup tf3
           tm1 == m1 \cup tm2
           ty1 == y1 \cup ty2
           tf1 == f1 \cup tf2
<1>t. PciInit = k1
  BY DEF PciInit
<1> HIDE DEF x1, x2, x3, x4, x5, x6, k6, k5, k4, k3, k2, k1, M1, X1, F1, m1, y1, f1, M2, X2, F2,
             m2, y2, f2, M3, X3, F3, m3, y3, f3, M4, X4, F4, m4, y4, f4, M5, X5, F5, m5, y5, f5,
             M6, X6, F6, m6, y6, f6, tm6, ty6, tf6, tm5, ty5, tf5, tm4, ty4, tf4, tm3, ty3, tf3,
             tm2, ty2, tf2, tm1, ty1, tf1
<1>p1. Path(crd, <<x1>>, Stage(M1, X1, F1, C), Stage(m1, y1, f1, {})) /\ x1 \in Takings
  <2>1. Ladder(PciFail0, C, {R("drvdata"), R("dev")}, {R("dev")}) /\ PciFail0 \in Seq(Releases)
    BY PciFail0Ladder DEF Ladder, Rungs
  <2>2. {R("dev")} \subseteq X1
    BY DEF R, Bases, X1
  <2>3. \A u \in M1 : u \in {R("drvdata"), R("dev")} \/ u[1] \in Idle
    BY DEF R, Bases, Idle, M1
  <2>4. LadderFits(PciFail0, Stage(M1, X1, F1, C))
    BY <2>1, <2>2, <2>3, LadderFitsIdle
  <2>5. R("pci") \in Resources /\ R("pci") # R("irq") /\ R("pci") \notin Buffers
    BY NoBuffers DEF Singles, R
  <2>6. Founded(R("pci"), F1)
    BY UserTable, ResourceShapes DEF Founded, Stands, R, Singles, PerAdapter, Bases, F1
  <2>8. Path(crd, <<x1>>, Stage(M1, X1, F1, C), Stage(m1, y1, f1, {}))
    BY <2>1, <2>4, <2>5, <2>6, TakePath DEF x1, m1, y1, f1
  <2>9. x1 \in Takings
    BY <2>8, OneOf DEF Path
  <2> QED BY <2>8, <2>9
<1>p2. Path(crd, <<x2>>, Stage(M2, X2, F2, C), Stage(m2, y2, f2, {})) /\ x2 \in Takings
  <2>1. Ladder(PciFail1, C, {R("pci"), R("drvdata"), R("dev")}, {R("pci"), R("dev")})
          /\ PciFail1 \in Seq(Releases)
    BY PciFail1Ladder DEF Ladder, Rungs
  <2>2. {R("pci"), R("dev")} \subseteq X2
    BY DEF R, Bases, X1, y1, X2
  <2>3. \A u \in M2 : u \in {R("pci"), R("drvdata"), R("dev")} \/ u[1] \in Idle
    BY DEF R, Bases, Idle, M1, m1, M2
  <2>4. LadderFits(PciFail1, Stage(M2, X2, F2, C))
    BY <2>1, <2>2, <2>3, LadderFitsIdle
  <2>8. Path(crd, <<x2>>, Stage(M2, X2, F2, C), Stage(m2, y2, f2, {}))
    BY <2>1, <2>4, CheckPath DEF x2, m2, y2, f2
  <2>9. x2 \in Takings
    BY <2>8, OneOf DEF Path
  <2> QED BY <2>8, <2>9
<1>p3. Path(crd, <<x3>>, Stage(M3, X3, F3, C), Stage(m3, y3, f3, {})) /\ x3 \in Takings
  <2>1. Ladder(PciFail1, C, {R("pci"), R("drvdata"), R("dev")}, {R("pci"), R("dev")})
          /\ PciFail1 \in Seq(Releases)
    BY PciFail1Ladder DEF Ladder, Rungs
  <2>2. {R("pci"), R("dev")} \subseteq X3
    BY DEF R, Bases, X1, y1, X2, y2, X3
  <2>3. \A u \in M3 : u \in {R("pci"), R("drvdata"), R("dev")} \/ u[1] \in Idle
    BY DEF R, Bases, Idle, M1, m1, M2, m2, M3
  <2>4. LadderFits(PciFail1, Stage(M3, X3, F3, C))
    BY <2>1, <2>2, <2>3, LadderFitsIdle
  <2>5. R("bar") \in Resources /\ R("bar") # R("irq") /\ R("bar") \notin Buffers
    BY NoBuffers DEF Singles, R
  <2>6. Founded(R("bar"), F3)
    BY UserTable, ResourceShapes DEF Founded, Stands, R, Singles, PerAdapter, Bases, F1, f1, F2,
       f2, F3
  <2>8. Path(crd, <<x3>>, Stage(M3, X3, F3, C), Stage(m3, y3, f3, {}))
    BY <2>1, <2>4, <2>5, <2>6, TakePath DEF x3, m3, y3, f3
  <2>9. x3 \in Takings
    BY <2>8, OneOf DEF Path
  <2> QED BY <2>8, <2>9
<1>p4. Path(crd, <<x4>>, Stage(M4, X4, F4, C), Stage(m4, y4, f4, {})) /\ x4 \in Takings
  <2>1. Ladder(PciFail2, C, {R("bar"), R("pci"), R("drvdata"), R("dev")}, {R("bar"), R("pci"),
          R("dev")}) /\ PciFail2 \in Seq(Releases)
    BY PciFail2Ladder DEF Ladder, Rungs
  <2>2. {R("bar"), R("pci"), R("dev")} \subseteq X4
    BY DEF R, Bases, X1, y1, X2, y2, X3, y3, X4
  <2>3. \A u \in M4 : u \in {R("bar"), R("pci"), R("drvdata"), R("dev")} \/ u[1] \in Idle
    BY DEF R, Bases, Idle, M1, m1, M2, m2, M3, m3, M4
  <2>4. LadderFits(PciFail2, Stage(M4, X4, F4, C))
    BY <2>1, <2>2, <2>3, LadderFitsIdle
  <2>5. R("mmio") \in Resources /\ R("mmio") # R("irq") /\ R("mmio") \notin Buffers
    BY NoBuffers DEF Singles, R
  <2>6. Founded(R("mmio"), F4)
    BY UserTable, ResourceShapes DEF Founded, Stands, R, Singles, PerAdapter, Bases, F1, f1, F2,
       f2, F3, f3, F4
  <2>8. Path(crd, <<x4>>, Stage(M4, X4, F4, C), Stage(m4, y4, f4, {}))
    BY <2>1, <2>4, <2>5, <2>6, TakePath DEF x4, m4, y4, f4
  <2>9. x4 \in Takings
    BY <2>8, OneOf DEF Path
  <2> QED BY <2>8, <2>9
<1>p5. Path(crd, <<x5>>, Stage(M5, X5, F5, C), Stage(m5, y5, f5, {})) /\ x5 \in Takings
  <2>1. Ladder(PciFail3, C, {R("mmio"), R("bar"), R("pci"), R("drvdata"), R("dev")}, {R("mmio"),
          R("bar"), R("pci"), R("dev")}) /\ PciFail3 \in Seq(Releases)
    BY PciFail3Ladder DEF Ladder, Rungs
  <2>2. {R("mmio"), R("bar"), R("pci"), R("dev")} \subseteq X5
    BY DEF R, Bases, X1, y1, X2, y2, X3, y3, X4, y4, X5
  <2>3. \A u \in M5 : u \in {R("mmio"), R("bar"), R("pci"), R("drvdata"), R("dev")} \/ u[1] \in Idle
    BY DEF R, Bases, Idle, M1, m1, M2, m2, M3, m3, M4, m4, M5
  <2>4. LadderFits(PciFail3, Stage(M5, X5, F5, C))
    BY <2>1, <2>2, <2>3, LadderFitsIdle
  <2>6. Founded(R("irq"), F5) /\ Founded(R("msi"), F5)
    BY UserTable, ResourceShapes DEF Founded, Stands, R, Singles, Bases, F1, f1, F2, f2, F3, f3,
       F4, f4, F5
  <2>7. crd = "cap" => R("wq") \in F5
    BY DEF Bases, F1, f1, F2, f2, F3, f3, F4, f4, F5
  <2>8. Path(crd, <<x5>>, Stage(M5, X5, F5, C), Stage(m5, y5, f5, {}))
    BY <2>1, <2>4, <2>6, <2>7, IrqPath DEF x5, m5, y5, f5
  <2>9. x5 \in Takings
    BY <2>8, OneOf DEF Path
  <2> QED BY <2>8, <2>9
<1>p6. Path(crd, <<x6>>, Stage(M6, X6, F6, C), Stage(m6, y6, f6, {})) /\ x6 \in Takings
  <2>5. R("drvdata") \in Resources /\ R("drvdata") # R("irq") /\ R("drvdata") \notin Buffers
    BY NoBuffers DEF Singles, R
  <2>6. Founded(R("drvdata"), F6)
    BY UserTable, ResourceShapes DEF Founded, Stands, R, Singles, PerAdapter, Bases, F1, f1, F2,
       f2, F3, f3, F4, f4, F5, f5, F6
  <2>8. Path(crd, <<x6>>, Stage(M6, X6, F6, C), Stage(m6, y6, f6, {}))
    BY <2>5, <2>6, GetPath DEF x6, m6, y6, f6
  <2>9. x6 \in Takings
    BY <2>8, OneOf DEF Path
  <2> QED BY <2>8, <2>9
<1>q6. Path(crd, k6, Stage(M6, X6, F6, C), Stage(tm6, ty6, tf6, {}))
  BY <1>p6 DEF k6, tm6, ty6, tf6
<1>q5. Path(crd, k5, Stage(M5, X5, F5, C), Stage(tm5, ty5, tf5, {}))
  <2>1. k5 = <<x5>> \o k6
    BY <1>p5, <1>p6, Pair DEF k5, k6
  <2>2. Path(crd, k6, Stage(M5 \cup m5, X5 \cup y5, F5 \cup f5, C), Stage(tm6, ty6, tf6, {}))
    BY <1>q6 DEF M6, X6, F6
  <2>3. Path(crd, <<x5>> \o k6, Stage(M5, X5, F5, C), Stage(m5 \cup tm6, y5 \cup ty6, f5 \cup tf6, {}))
    BY <1>p5, <2>2, PathNext
  <2> QED BY <2>1, <2>3 DEF tm5, ty5, tf5
<1>q4. Path(crd, k4, Stage(M4, X4, F4, C), Stage(tm4, ty4, tf4, {}))
  <2>1. k4 = <<x4>> \o k5
    BY <1>p4, <1>p5, <1>p6 DEF k4, k5
  <2>2. Path(crd, k5, Stage(M4 \cup m4, X4 \cup y4, F4 \cup f4, C), Stage(tm5, ty5, tf5, {}))
    BY <1>q5 DEF M5, X5, F5
  <2>3. Path(crd, <<x4>> \o k5, Stage(M4, X4, F4, C), Stage(m4 \cup tm5, y4 \cup ty5, f4 \cup tf5, {}))
    BY <1>p4, <2>2, PathNext
  <2> QED BY <2>1, <2>3 DEF tm4, ty4, tf4
<1>q3. Path(crd, k3, Stage(M3, X3, F3, C), Stage(tm3, ty3, tf3, {}))
  <2>1. k3 = <<x3>> \o k4
    BY <1>p3, <1>p4, <1>p5, <1>p6 DEF k3, k4
  <2>2. Path(crd, k4, Stage(M3 \cup m3, X3 \cup y3, F3 \cup f3, C), Stage(tm4, ty4, tf4, {}))
    BY <1>q4 DEF M4, X4, F4
  <2>3. Path(crd, <<x3>> \o k4, Stage(M3, X3, F3, C), Stage(m3 \cup tm4, y3 \cup ty4, f3 \cup tf4, {}))
    BY <1>p3, <2>2, PathNext
  <2> QED BY <2>1, <2>3 DEF tm3, ty3, tf3
<1>q2. Path(crd, k2, Stage(M2, X2, F2, C), Stage(tm2, ty2, tf2, {}))
  <2>1. k2 = <<x2>> \o k3
    BY <1>p2, <1>p3, <1>p4, <1>p5, <1>p6 DEF k2, k3
  <2>2. Path(crd, k3, Stage(M2 \cup m2, X2 \cup y2, F2 \cup f2, C), Stage(tm3, ty3, tf3, {}))
    BY <1>q3 DEF M3, X3, F3
  <2>3. Path(crd, <<x2>> \o k3, Stage(M2, X2, F2, C), Stage(m2 \cup tm3, y2 \cup ty3, f2 \cup tf3, {}))
    BY <1>p2, <2>2, PathNext
  <2> QED BY <2>1, <2>3 DEF tm2, ty2, tf2
<1>q1. Path(crd, k1, Stage(M1, X1, F1, C), Stage(tm1, ty1, tf1, {}))
  <2>1. k1 = <<x1>> \o k2
    BY <1>p1, <1>p2, <1>p3, <1>p4, <1>p5, <1>p6 DEF k1, k2
  <2>2. Path(crd, k2, Stage(M1 \cup m1, X1 \cup y1, F1 \cup f1, C), Stage(tm2, ty2, tf2, {}))
    BY <1>q2 DEF M2, X2, F2
  <2>3. Path(crd, <<x1>> \o k2, Stage(M1, X1, F1, C), Stage(m1 \cup tm2, y1 \cup ty2, f1 \cup tf2, {}))
    BY <1>p1, <2>2, PathNext
  <2> QED BY <2>1, <2>3 DEF tm1, ty1, tf1
<1>e. tm1 = PciGone /\ ty1 = PciFirm /\ tf1 = PciFirm
  BY DEF PciGone, PciFirm, tm1, ty1, tf1, m1, y1, f1, tm2, ty2, tf2, m2, y2, f2, tm3, ty3, tf3,
     m3, y3, f3, tm4, ty4, tf4, m4, y4, f4, tm5, ty5, tf5, m5, y5, f5, tm6, ty6, tf6, m6, y6, f6
<1> QED BY <1>t, <1>q1, <1>e DEF M1, X1, F1

\* saa716x_msi_init() and saa716x_jetpack_init() fail into fail2.
LEMMA Fail2CheckPath ==
  ASSUME NEW crd, NEW B, Bases(crd, B), NEW C
  PROVE  Path(crd, <<Check({"ok", "fail"}, Fail2)>>, Stage(B \cup PciGone, B \cup PciFirm,
           B \cup PciFirm, C), Stage({}, {}, {}, {}))
<1> DEFINE x1 == Check({"ok", "fail"}, Fail2)
           k1 == <<x1>>
           M1 == B \cup PciGone
           X1 == B \cup PciFirm
           F1 == B \cup PciFirm
           m1 == {}
           y1 == {}
           f1 == {}
           tm1 == m1
           ty1 == y1
           tf1 == f1
<1>t. <<Check({"ok", "fail"}, Fail2)>> = k1
  OBVIOUS
<1> HIDE DEF x1, k1, M1, X1, F1, m1, y1, f1, tm1, ty1, tf1
<1>p1. Path(crd, <<x1>>, Stage(M1, X1, F1, C), Stage(m1, y1, f1, {})) /\ x1 \in Takings
  <2>1. Ladder(Fail2, C, Fail2Gone, Fail2Asks) /\ Fail2 \in Seq(Releases)
    BY Fail2Ladder DEF Ladder, Rungs
  <2>2. Fail2Asks \subseteq X1
    BY DEF R, Bases, Fail2Gone, Fail2Asks, PciGone, PciFirm, PciAsks, X1
  <2>3. \A u \in M1 : u \in Fail2Gone \/ u[1] \in Idle
    BY DEF R, Bases, Fail2Gone, Fail2Asks, PciGone, PciFirm, PciAsks, Idle, M1
  <2>4. LadderFits(Fail2, Stage(M1, X1, F1, C))
    BY <2>1, <2>2, <2>3, LadderFitsIdle
  <2>8. Path(crd, <<x1>>, Stage(M1, X1, F1, C), Stage(m1, y1, f1, {}))
    BY <2>1, <2>4, CheckPath DEF x1, m1, y1, f1
  <2>9. x1 \in Takings
    BY <2>8, OneOf DEF Path
  <2> QED BY <2>8, <2>9
<1>q1. Path(crd, k1, Stage(M1, X1, F1, C), Stage(tm1, ty1, tf1, {}))
  BY <1>p1 DEF k1, tm1, ty1, tf1
<1>e. tm1 = {} /\ ty1 = {} /\ tf1 = {}
  BY DEF tm1, ty1, tf1, m1, y1, f1
<1> QED BY <1>t, <1>q1, <1>e DEF M1, X1, F1

\* saa716x_i2c_init() fits: the second adapter's failure takes back the
\* first.
LEMMA I2cInitPath ==
  ASSUME NEW crd, NEW B, Bases(crd, B), NEW C
  PROVE  Path(crd, I2cInit, Stage(B \cup PciGone, B \cup PciFirm, B \cup PciFirm, C),
           Stage(I2cs, I2cs, I2cs, {}))
<1> DEFINE x1 == Take(<<"i2c", 0>>, Fail2)
           x2 == Take(<<"i2c", 1>>, <<Drop(<<"i2c", 0>>)>> \o Fail2)
           k2 == <<x2>>
           k1 == <<x1, x2>>
           M1 == B \cup PciGone
           X1 == B \cup PciFirm
           F1 == B \cup PciFirm
           m1 == {<<"i2c", 0>>}
           y1 == {<<"i2c", 0>>}
           f1 == {<<"i2c", 0>>}
           M2 == M1 \cup m1
           X2 == X1 \cup y1
           F2 == F1 \cup f1
           m2 == {<<"i2c", 1>>}
           y2 == {<<"i2c", 1>>}
           f2 == {<<"i2c", 1>>}
           tm2 == m2
           ty2 == y2
           tf2 == f2
           tm1 == m1 \cup tm2
           ty1 == y1 \cup ty2
           tf1 == f1 \cup tf2
<1>t. I2cInit = k1
  BY DEF I2cInit
<1> HIDE DEF x1, x2, k2, k1, M1, X1, F1, m1, y1, f1, M2, X2, F2, m2, y2, f2, tm2, ty2, tf2, tm1,
             ty1, tf1
<1>p1. Path(crd, <<x1>>, Stage(M1, X1, F1, C), Stage(m1, y1, f1, {})) /\ x1 \in Takings
  <2>1. Ladder(Fail2, C, Fail2Gone, Fail2Asks) /\ Fail2 \in Seq(Releases)
    BY Fail2Ladder DEF Ladder, Rungs
  <2>2. Fail2Asks \subseteq X1
    BY DEF R, Bases, Fail2Gone, Fail2Asks, PciGone, PciFirm, PciAsks, X1
  <2>3. \A u \in M1 : u \in Fail2Gone \/ u[1] \in Idle
    BY DEF R, Bases, Fail2Gone, Fail2Asks, PciGone, PciFirm, PciAsks, Idle, M1
  <2>4. LadderFits(Fail2, Stage(M1, X1, F1, C))
    BY <2>1, <2>2, <2>3, LadderFitsIdle
  <2>5. <<"i2c", 0>> \in Resources /\ <<"i2c", 0>> # R("irq") /\ <<"i2c", 0>> \notin Buffers
    BY NoBuffers DEF Singles, R
  <2>6. Founded(<<"i2c", 0>>, F1)
    BY UserTable, ResourceShapes DEF Founded, Stands, R, Singles, PerAdapter, PciFirm, Bases, F1
  <2>8. Path(crd, <<x1>>, Stage(M1, X1, F1, C), Stage(m1, y1, f1, {}))
    BY <2>1, <2>4, <2>5, <2>6, TakePath DEF x1, m1, y1, f1
  <2>9. x1 \in Takings
    BY <2>8, OneOf DEF Path
  <2> QED BY <2>8, <2>9
<1>p2. Path(crd, <<x2>>, Stage(M2, X2, F2, C), Stage(m2, y2, f2, {})) /\ x2 \in Takings
  <2>1. Ladder((<<Drop(<<"i2c", 0>>)>> \o Fail2), C, ({<<"i2c", 0>>} \cup Fail2Gone), ({<<"i2c",
          0>>} \cup Fail2Asks)) /\ (<<Drop(<<"i2c", 0>>)>> \o Fail2) \in Seq(Releases)
    BY I2cFailLadder DEF Ladder, Rungs
  <2>2. ({<<"i2c", 0>>} \cup Fail2Asks) \subseteq X2
    BY DEF R, Bases, Fail2Gone, Fail2Asks, PciGone, PciFirm, PciAsks, X1, y1, X2
  <2>3. \A u \in M2 : u \in ({<<"i2c", 0>>} \cup Fail2Gone) \/ u[1] \in Idle
    BY DEF R, Bases, Fail2Gone, Fail2Asks, PciGone, PciFirm, PciAsks, Idle, M1, m1, M2
  <2>4. LadderFits((<<Drop(<<"i2c", 0>>)>> \o Fail2), Stage(M2, X2, F2, C))
    BY <2>1, <2>2, <2>3, LadderFitsIdle
  <2>5. <<"i2c", 1>> \in Resources /\ <<"i2c", 1>> # R("irq") /\ <<"i2c", 1>> \notin Buffers
    BY NoBuffers DEF Singles, R
  <2>6. Founded(<<"i2c", 1>>, F2)
    BY UserTable, ResourceShapes DEF Founded, Stands, R, Singles, PerAdapter, PciFirm, Bases,
       F1, f1, F2
  <2>8. Path(crd, <<x2>>, Stage(M2, X2, F2, C), Stage(m2, y2, f2, {}))
    BY <2>1, <2>4, <2>5, <2>6, TakePath DEF x2, m2, y2, f2
  <2>9. x2 \in Takings
    BY <2>8, OneOf DEF Path
  <2> QED BY <2>8, <2>9
<1>q2. Path(crd, k2, Stage(M2, X2, F2, C), Stage(tm2, ty2, tf2, {}))
  BY <1>p2 DEF k2, tm2, ty2, tf2
<1>q1. Path(crd, k1, Stage(M1, X1, F1, C), Stage(tm1, ty1, tf1, {}))
  <2>1. k1 = <<x1>> \o k2
    BY <1>p1, <1>p2, Pair DEF k1, k2
  <2>2. Path(crd, k2, Stage(M1 \cup m1, X1 \cup y1, F1 \cup f1, C), Stage(tm2, ty2, tf2, {}))
    BY <1>q2 DEF M2, X2, F2
  <2>3. Path(crd, <<x1>> \o k2, Stage(M1, X1, F1, C), Stage(m1 \cup tm2, y1 \cup ty2, f1 \cup tf2, {}))
    BY <1>p1, <2>2, PathNext
  <2> QED BY <2>1, <2>3 DEF tm1, ty1, tf1
<1>e. tm1 = I2cs /\ ty1 = I2cs /\ tf1 = I2cs
  BY DEF I2cs, tm1, ty1, tf1, m1, y1, f1, tm2, ty2, tf2, m2, y2, f2
<1> QED BY <1>t, <1>q1, <1>e DEF M1, X1, F1

\* What every probe function does once it has the device structure fits.
LEMMA CoreInitPath ==
  ASSUME NEW crd, NEW B, Bases(crd, B), NEW C
  PROVE  Path(crd, CoreInit, Stage(B, B, B, C), Stage(CoreMay, CoreFirm, CoreFirm, {}))
<1> DEFINE m == PciGone
           f == PciFirm
           e == {}
           chk == <<Check({"ok", "fail"}, Fail2)>>
<1>1. Path(crd, PciInit, Stage(B, B, B, C), Stage(m, f, f, {}))
  BY PciInitPath
<1>2. Path(crd, chk, Stage(B \cup m, B \cup f, B \cup f, C), Stage(e, e, e, {}))
  BY Fail2CheckPath
<1>3. Path(crd, I2cInit, Stage(B \cup m, B \cup f, B \cup f, C), Stage(I2cs, I2cs, I2cs, {}))
  BY I2cInitPath
<1>4. m \cup e = m /\ f \cup e = f
  OBVIOUS
<1>5. CoreInit = PciInit \o chk \o chk \o I2cInit
  BY DEF CoreInit, MsiInit, JetpackInit
<1> HIDE DEF e, chk
<1>6. Path(crd, PciInit \o chk, Stage(B, B, B, C), Stage(m \cup e, f \cup e, f \cup e, {}))
  BY <1>1, <1>2, PathNext
<1>7. Path(crd, PciInit \o chk, Stage(B, B, B, C), Stage(m, f, f, {}))
  BY <1>4, <1>6
<1>8. Path(crd, PciInit \o chk \o chk, Stage(B, B, B, C), Stage(m \cup e, f \cup e, f \cup e, {}))
  BY <1>2, <1>7, PathNext
<1>9. Path(crd, PciInit \o chk \o chk, Stage(B, B, B, C), Stage(m, f, f, {}))
  BY <1>4, <1>8
<1>10. Path(crd, PciInit \o chk \o chk \o I2cInit, Stage(B, B, B, C), Stage(m \cup I2cs,
         f \cup I2cs, f \cup I2cs, {}))
  BY <1>3, <1>9, PathNext
<1> QED BY <1>5, <1>10 DEF CoreMay, CoreFirm

-----------------------------------------------------------------------------
(* The loop of saa716x_dvb_init().                                         *)

\* What of an adapter is held for sure once it came up.
Five == {"femem", "fehw", "dmxdev", "dmx", "adapter"}

\* A round of the loop of saa716x_dvb_init() up to its frontend fits: each
\* jump is to the label that gives back what of the adapter has come up.
LEMMA AdapterPartPath ==
  ASSUME NEW crd, NEW i \in 0 .. Adapters - 1, NEW undo \in Seq(Releases),
         NEW M, NEW X, NEW F, NEW C, NEW G, NEW A, Ladder(undo, C, G, A), A \subseteq X,
         Apart(G, i), \A u \in M : u \in G \/ u[1] \in Idle, I2cs \subseteq F
  PROVE  Path(crd, <<Take(<<"adapter", i>>, undo),
           Take(<<"dmx", i>>, Err0(i, undo)),
           Take(<<"dmxdev", i>>, Err1(i, undo)),
           Take(<<"fehw", i>>, Err2(i, undo)),
           Take(<<"femem", i>>, Err3(i, undo)),
           Check({"ok", "fail"}, Err4(i, undo)),
           Blind(<<"net", i>>),
           Try(<<"client", i>>),
           Try(<<"fe", i>>),
           Step("take", <<"frontend", i>>, {<<"fe", i>>}, {"ok", "fail"}, Err6(i, undo))>>,
             Stage(M, X, F, C), Stage({"adapter", "dmx", "dmxdev", "fehw", "femem", "net",
             "client", "fe", "frontend"} \X {i}, {"adapter", "dmx", "dmxdev", "fehw", "femem",
             "net"} \X {i}, Five \X {i}, {}))
<1> DEFINE x1 == Take(<<"adapter", i>>, undo)
           x2 == Take(<<"dmx", i>>, Err0(i, undo))
           x3 == Take(<<"dmxdev", i>>, Err1(i, undo))
           x4 == Take(<<"fehw", i>>, Err2(i, undo))
           x5 == Take(<<"femem", i>>, Err3(i, undo))
           x6 == Check({"ok", "fail"}, Err4(i, undo))
           x7 == Blind(<<"net", i>>)
           x8 == Try(<<"client", i>>)
           x9 == Try(<<"fe", i>>)
           x10 == Step("take", <<"frontend", i>>, {<<"fe", i>>}, {"ok", "fail"}, Err6(i, undo))
           k10 == <<x10>>
           k9 == <<x9, x10>>
           k8 == <<x8, x9, x10>>
           k7 == <<x7, x8, x9, x10>>
           k6 == <<x6, x7, x8, x9, x10>>
           k5 == <<x5, x6, x7, x8, x9, x10>>
           k4 == <<x4, x5, x6, x7, x8, x9, x10>>
           k3 == <<x3, x4, x5, x6, x7, x8, x9, x10>>
           k2 == <<x2, x3, x4, x5, x6, x7, x8, x9, x10>>
           k1 == <<x1, x2, x3, x4, x5, x6, x7, x8, x9, x10>>
           M1 == M
           X1 == X
           F1 == F
           m1 == {<<"adapter", i>>}
           y1 == {<<"adapter", i>>}
           f1 == {<<"adapter", i>>}
           M2 == M1 \cup m1
           X2 == X1 \cup y1
           F2 == F1 \cup f1
           m2 == {<<"dmx", i>>}
           y2 == {<<"dmx", i>>}
           f2 == {<<"dmx", i>>}
           M3 == M2 \cup m2
           X3 == X2 \cup y2
           F3 == F2 \cup f2
           m3 == {<<"dmxdev", i>>}
           y3 == {<<"dmxdev", i>>}
           f3 == {<<"dmxdev", i>>}
           M4 == M3 \cup m3
           X4 == X3 \cup y3
           F4 == F3 \cup f3
           m4 == {<<"fehw", i>>}
           y4 == {<<"fehw", i>>}
           f4 == {<<"fehw", i>>}
           M5 == M4 \cup m4
           X5 == X4 \cup y4
           F5 == F4 \cup f4
           m5 == {<<"femem", i>>}
           y5 == {<<"femem", i>>}
           f5 == {<<"femem", i>>}
           M6 == M5 \cup m5
           X6 == X5 \cup y5
           F6 == F5 \cup f5
           m6 == {}
           y6 == {}
           f6 == {}
           M7 == M6 \cup m6
           X7 == X6 \cup y6
           F7 == F6 \cup f6
           m7 == {<<"net", i>>}
           y7 == {<<"net", i>>}
           f7 == {}
           M8 == M7 \cup m7
           X8 == X7 \cup y7
           F8 == F7 \cup f7
           m8 == {<<"client", i>>}
           y8 == {}
           f8 == {}
           M9 == M8 \cup m8
           X9 == X8 \cup y8
           F9 == F8 \cup f8
           m9 == {<<"fe", i>>}
           y9 == {}
           f9 == {}
           M10 == M9 \cup m9
           X10 == X9 \cup y9
           F10 == F9 \cup f9
           m10 == {<<"frontend", i>>}
           y10 == {}
           f10 == {}
           tm10 == m10
           ty10 == y10
           tf10 == f10
           tm9 == m9 \cup tm10
           ty9 == y9 \cup ty10
           tf9 == f9 \cup tf10
           tm8 == m8 \cup tm9
           ty8 == y8 \cup ty9
           tf8 == f8 \cup tf9
           tm7 == m7 \cup tm8
           ty7 == y7 \cup ty8
           tf7 == f7 \cup tf8
           tm6 == m6 \cup tm7
           ty6 == y6 \cup ty7
           tf6 == f6 \cup tf7
           tm5 == m5 \cup tm6
           ty5 == y5 \cup ty6
           tf5 == f5 \cup tf6
           tm4 == m4 \cup tm5
           ty4 == y4 \cup ty5
           tf4 == f4 \cup tf5
           tm3 == m3 \cup tm4
           ty3 == y3 \cup ty4
           tf3 == f3 \cup tf4
           tm2 == m2 \cup tm3
           ty2 == y2 \cup ty3
           tf2 == f2 \cup tf3
           tm1 == m1 \cup tm2
           ty1 == y1 \cup ty2
           tf1 == f1 \cup tf2
<1>b. <<"fe", i>> \in Resources /\ <<"fe", i>> \notin Blinds
  BY NoBuffers DEF PerAdapter, Blinds
<1>l. /\ Ladder(undo, C, G, A)
      /\ Ladder(Err0(i, undo), C, (({"adapter"} \X {i}) \cup G), (({"adapter"} \X {i}) \cup A))
      /\ Ladder(Err1(i, undo), C, (({"adapter", "dmx"} \X {i}) \cup G), (({"adapter", "dmx"} \X {i}) \cup A))
      /\ Ladder(Err2(i, undo), C, (({"adapter", "dmx", "dmxdev"} \X {i}) \cup G), (({"adapter",
           "dmx", "dmxdev"} \X {i}) \cup A))
      /\ Ladder(Err3(i, undo), C, (({"adapter", "dmx", "dmxdev", "fehw"} \X {i}) \cup G),
           (({"adapter", "dmx", "dmxdev", "fehw"} \X {i}) \cup A))
      /\ Ladder(Err4(i, undo), C, (({"adapter", "dmx", "dmxdev", "fehw",
           "femem"} \X {i}) \cup G), (({"adapter", "dmx", "dmxdev", "fehw",
           "femem"} \X {i}) \cup A))
      /\ Ladder(Err6(i, undo), C, (({"adapter", "dmx", "dmxdev", "fehw", "femem",
           "fe"} \X {i}) \cup G), (({"adapter", "dmx", "dmxdev", "fehw", "femem"} \X {i}) \cup A))
  BY ErrLadders
<1>t. <<Take(<<"adapter", i>>, undo),
           Take(<<"dmx", i>>, Err0(i, undo)),
           Take(<<"dmxdev", i>>, Err1(i, undo)),
           Take(<<"fehw", i>>, Err2(i, undo)),
           Take(<<"femem", i>>, Err3(i, undo)),
           Check({"ok", "fail"}, Err4(i, undo)),
           Blind(<<"net", i>>),
           Try(<<"client", i>>),
           Try(<<"fe", i>>),
           Step("take", <<"frontend", i>>, {<<"fe", i>>}, {"ok", "fail"}, Err6(i, undo))>> = k1
  OBVIOUS
<1> HIDE DEF x1, x2, x3, x4, x5, x6, x7, x8, x9, x10, k10, k9, k8, k7, k6, k5, k4, k3, k2, k1,
             M1, X1, F1, m1, y1, f1, M2, X2, F2, m2, y2, f2, M3, X3, F3, m3, y3, f3, M4, X4, F4,
             m4, y4, f4, M5, X5, F5, m5, y5, f5, M6, X6, F6, m6, y6, f6, M7, X7, F7, m7, y7, f7,
             M8, X8, F8, m8, y8, f8, M9, X9, F9, m9, y9, f9, M10, X10, F10, m10, y10, f10, tm10,
             ty10, tf10, tm9, ty9, tf9, tm8, ty8, tf8, tm7, ty7, tf7, tm6, ty6, tf6, tm5, ty5,
             tf5, tm4, ty4, tf4, tm3, ty3, tf3, tm2, ty2, tf2, tm1, ty1, tf1
<1>p1. Path(crd, <<x1>>, Stage(M1, X1, F1, C), Stage(m1, y1, f1, {})) /\ x1 \in Takings
  <2>1. Ladder(undo, C, G, A) /\ undo \in Seq(Releases)
    BY <1>l DEF Ladder, Rungs
  <2>2. A \subseteq X1
    BY DEF R, X1
  <2>3. \A u \in M1 : u \in G \/ u[1] \in Idle
    BY DEF R, Idle, M1
  <2>4. LadderFits(undo, Stage(M1, X1, F1, C))
    BY <2>1, <2>2, <2>3, LadderFitsIdle
  <2>5. <<"adapter", i>> \in Resources /\ <<"adapter", i>> # R("irq") /\ <<"adapter", i>> \notin Buffers
    BY NoBuffers DEF PerAdapter, Blinds, R, Singles
  <2>6. Founded(<<"adapter", i>>, F1)
    BY UserTable, ResourceShapes DEF Founded, Stands, R, Singles, PerAdapter, I2cs, F1
  <2>8. Path(crd, <<x1>>, Stage(M1, X1, F1, C), Stage(m1, y1, f1, {}))
    BY <2>1, <2>4, <2>5, <2>6, TakePath DEF x1, m1, y1, f1
  <2>9. x1 \in Takings
    BY <2>8, OneOf DEF Path
  <2> QED BY <2>8, <2>9
<1>p2. Path(crd, <<x2>>, Stage(M2, X2, F2, C), Stage(m2, y2, f2, {})) /\ x2 \in Takings
  <2>1. Ladder(Err0(i, undo), C, (({"adapter"} \X {i}) \cup G), (({"adapter"} \X {i}) \cup A))
          /\ Err0(i, undo) \in Seq(Releases)
    BY <1>l DEF Ladder, Rungs
  <2>2. (({"adapter"} \X {i}) \cup A) \subseteq X2
    BY DEF R, X1, y1, X2
  <2>3. \A u \in M2 : u \in (({"adapter"} \X {i}) \cup G) \/ u[1] \in Idle
    BY DEF R, Idle, M1, m1, M2
  <2>4. LadderFits(Err0(i, undo), Stage(M2, X2, F2, C))
    BY <2>1, <2>2, <2>3, LadderFitsIdle
  <2>5. <<"dmx", i>> \in Resources /\ <<"dmx", i>> # R("irq") /\ <<"dmx", i>> \notin Buffers
    BY NoBuffers DEF PerAdapter, Blinds, R, Singles
  <2>6. Founded(<<"dmx", i>>, F2)
    BY UserTable, ResourceShapes DEF Founded, Stands, R, Singles, PerAdapter, I2cs, F1, f1, F2
  <2>8. Path(crd, <<x2>>, Stage(M2, X2, F2, C), Stage(m2, y2, f2, {}))
    BY <2>1, <2>4, <2>5, <2>6, TakePath DEF x2, m2, y2, f2
  <2>9. x2 \in Takings
    BY <2>8, OneOf DEF Path
  <2> QED BY <2>8, <2>9
<1>p3. Path(crd, <<x3>>, Stage(M3, X3, F3, C), Stage(m3, y3, f3, {})) /\ x3 \in Takings
  <2>1. Ladder(Err1(i, undo), C, (({"adapter", "dmx"} \X {i}) \cup G), (({"adapter",
          "dmx"} \X {i}) \cup A)) /\ Err1(i, undo) \in Seq(Releases)
    BY <1>l DEF Ladder, Rungs
  <2>2. (({"adapter", "dmx"} \X {i}) \cup A) \subseteq X3
    BY DEF R, X1, y1, X2, y2, X3
  <2>3. \A u \in M3 : u \in (({"adapter", "dmx"} \X {i}) \cup G) \/ u[1] \in Idle
    BY DEF R, Idle, M1, m1, M2, m2, M3
  <2>4. LadderFits(Err1(i, undo), Stage(M3, X3, F3, C))
    BY <2>1, <2>2, <2>3, LadderFitsIdle
  <2>5. <<"dmxdev", i>> \in Resources /\ <<"dmxdev", i>> # R("irq") /\ <<"dmxdev", i>> \notin Buffers
    BY NoBuffers DEF PerAdapter, Blinds, R, Singles
  <2>6. Founded(<<"dmxdev", i>>, F3)
    BY UserTable, ResourceShapes DEF Founded, Stands, R, Singles, PerAdapter, I2cs, F1, f1, F2,
       f2, F3
  <2>8. Path(crd, <<x3>>, Stage(M3, X3, F3, C), Stage(m3, y3, f3, {}))
    BY <2>1, <2>4, <2>5, <2>6, TakePath DEF x3, m3, y3, f3
  <2>9. x3 \in Takings
    BY <2>8, OneOf DEF Path
  <2> QED BY <2>8, <2>9
<1>p4. Path(crd, <<x4>>, Stage(M4, X4, F4, C), Stage(m4, y4, f4, {})) /\ x4 \in Takings
  <2>1. Ladder(Err2(i, undo), C, (({"adapter", "dmx", "dmxdev"} \X {i}) \cup G), (({"adapter",
          "dmx", "dmxdev"} \X {i}) \cup A)) /\ Err2(i, undo) \in Seq(Releases)
    BY <1>l DEF Ladder, Rungs
  <2>2. (({"adapter", "dmx", "dmxdev"} \X {i}) \cup A) \subseteq X4
    BY DEF R, X1, y1, X2, y2, X3, y3, X4
  <2>3. \A u \in M4 : u \in (({"adapter", "dmx", "dmxdev"} \X {i}) \cup G) \/ u[1] \in Idle
    BY DEF R, Idle, M1, m1, M2, m2, M3, m3, M4
  <2>4. LadderFits(Err2(i, undo), Stage(M4, X4, F4, C))
    BY <2>1, <2>2, <2>3, LadderFitsIdle
  <2>5. <<"fehw", i>> \in Resources /\ <<"fehw", i>> # R("irq") /\ <<"fehw", i>> \notin Buffers
    BY NoBuffers DEF PerAdapter, Blinds, R, Singles
  <2>6. Founded(<<"fehw", i>>, F4)
    BY UserTable, ResourceShapes DEF Founded, Stands, R, Singles, PerAdapter, I2cs, F1, f1, F2,
       f2, F3, f3, F4
  <2>8. Path(crd, <<x4>>, Stage(M4, X4, F4, C), Stage(m4, y4, f4, {}))
    BY <2>1, <2>4, <2>5, <2>6, TakePath DEF x4, m4, y4, f4
  <2>9. x4 \in Takings
    BY <2>8, OneOf DEF Path
  <2> QED BY <2>8, <2>9
<1>p5. Path(crd, <<x5>>, Stage(M5, X5, F5, C), Stage(m5, y5, f5, {})) /\ x5 \in Takings
  <2>1. Ladder(Err3(i, undo), C, (({"adapter", "dmx", "dmxdev", "fehw"} \X {i}) \cup G),
          (({"adapter", "dmx", "dmxdev", "fehw"} \X {i}) \cup A)) /\ Err3(i, undo) \in Seq(Releases)
    BY <1>l DEF Ladder, Rungs
  <2>2. (({"adapter", "dmx", "dmxdev", "fehw"} \X {i}) \cup A) \subseteq X5
    BY DEF R, X1, y1, X2, y2, X3, y3, X4, y4, X5
  <2>3. \A u \in M5 : u \in (({"adapter", "dmx", "dmxdev", "fehw"} \X {i}) \cup G) \/ u[1] \in Idle
    BY DEF R, Idle, M1, m1, M2, m2, M3, m3, M4, m4, M5
  <2>4. LadderFits(Err3(i, undo), Stage(M5, X5, F5, C))
    BY <2>1, <2>2, <2>3, LadderFitsIdle
  <2>5. <<"femem", i>> \in Resources /\ <<"femem", i>> # R("irq") /\ <<"femem", i>> \notin Buffers
    BY NoBuffers DEF PerAdapter, Blinds, R, Singles
  <2>6. Founded(<<"femem", i>>, F5)
    BY UserTable, ResourceShapes DEF Founded, Stands, R, Singles, PerAdapter, I2cs, F1, f1, F2,
       f2, F3, f3, F4, f4, F5
  <2>8. Path(crd, <<x5>>, Stage(M5, X5, F5, C), Stage(m5, y5, f5, {}))
    BY <2>1, <2>4, <2>5, <2>6, TakePath DEF x5, m5, y5, f5
  <2>9. x5 \in Takings
    BY <2>8, OneOf DEF Path
  <2> QED BY <2>8, <2>9
<1>p6. Path(crd, <<x6>>, Stage(M6, X6, F6, C), Stage(m6, y6, f6, {})) /\ x6 \in Takings
  <2>1. Ladder(Err4(i, undo), C, (({"adapter", "dmx", "dmxdev", "fehw",
          "femem"} \X {i}) \cup G), (({"adapter", "dmx", "dmxdev", "fehw",
          "femem"} \X {i}) \cup A)) /\ Err4(i, undo) \in Seq(Releases)
    BY <1>l DEF Ladder, Rungs
  <2>2. (({"adapter", "dmx", "dmxdev", "fehw", "femem"} \X {i}) \cup A) \subseteq X6
    BY DEF R, X1, y1, X2, y2, X3, y3, X4, y4, X5, y5, X6
  <2>3. \A u \in M6 : u \in (({"adapter", "dmx", "dmxdev", "fehw", "femem"} \X {i}) \cup G) \/ u[1] \in Idle
    BY DEF R, Idle, M1, m1, M2, m2, M3, m3, M4, m4, M5, m5, M6
  <2>4. LadderFits(Err4(i, undo), Stage(M6, X6, F6, C))
    BY <2>1, <2>2, <2>3, LadderFitsIdle
  <2>8. Path(crd, <<x6>>, Stage(M6, X6, F6, C), Stage(m6, y6, f6, {}))
    BY <2>1, <2>4, CheckPath DEF x6, m6, y6, f6
  <2>9. x6 \in Takings
    BY <2>8, OneOf DEF Path
  <2> QED BY <2>8, <2>9
<1>p7. Path(crd, <<x7>>, Stage(M7, X7, F7, C), Stage(m7, y7, f7, {})) /\ x7 \in Takings
  <2>5. <<"net", i>> \in Resources /\ <<"net", i>> # R("irq") /\ <<"net", i>> \notin Buffers
          /\ <<"net", i>> \in Blinds
    BY NoBuffers DEF PerAdapter, Blinds, R, Singles
  <2>6. Founded(<<"net", i>>, F7)
    BY UserTable, ResourceShapes DEF Founded, Stands, R, Singles, PerAdapter, I2cs, F1, f1, F2,
       f2, F3, f3, F4, f4, F5, f5, F6, f6, F7
  <2>8. Path(crd, <<x7>>, Stage(M7, X7, F7, C), Stage(m7, y7, f7, {}))
    BY <2>5, <2>6, BlindPath DEF x7, m7, y7, f7
  <2>9. x7 \in Takings
    BY <2>8, OneOf DEF Path
  <2> QED BY <2>8, <2>9
<1>p8. Path(crd, <<x8>>, Stage(M8, X8, F8, C), Stage(m8, y8, f8, {})) /\ x8 \in Takings
  <2>5. <<"client", i>> \in Resources /\ <<"client", i>> # R("irq") /\ <<"client", i>> \notin Buffers
    BY NoBuffers DEF PerAdapter, Blinds, R, Singles
  <2>6. Founded(<<"client", i>>, F8)
    BY UserTable, ResourceShapes DEF Founded, Stands, R, Singles, PerAdapter, I2cs, F1, f1, F2,
       f2, F3, f3, F4, f4, F5, f5, F6, f6, F7, f7, F8
  <2>8. Path(crd, <<x8>>, Stage(M8, X8, F8, C), Stage(m8, y8, f8, {}))
    BY <2>5, <2>6, TryPath DEF x8, m8, y8, f8
  <2>9. x8 \in Takings
    BY <2>8, OneOf DEF Path
  <2> QED BY <2>8, <2>9
<1>p9. Path(crd, <<x9>>, Stage(M9, X9, F9, C), Stage(m9, y9, f9, {})) /\ x9 \in Takings
  <2>5. <<"fe", i>> \in Resources /\ <<"fe", i>> # R("irq") /\ <<"fe", i>> \notin Buffers
    BY NoBuffers DEF PerAdapter, Blinds, R, Singles
  <2>6. Founded(<<"fe", i>>, F9)
    BY UserTable, ResourceShapes DEF Founded, Stands, R, Singles, PerAdapter, I2cs, F1, f1, F2,
       f2, F3, f3, F4, f4, F5, f5, F6, f6, F7, f7, F8, f8, F9
  <2>8. Path(crd, <<x9>>, Stage(M9, X9, F9, C), Stage(m9, y9, f9, {}))
    BY <2>5, <2>6, TryPath DEF x9, m9, y9, f9
  <2>9. x9 \in Takings
    BY <2>8, OneOf DEF Path
  <2> QED BY <2>8, <2>9
<1>p10. Path(crd, <<x10>>, Stage(M10, X10, F10, C), Stage(m10, y10, f10, {})) /\ x10 \in Takings
  <2>1. Ladder(Err6(i, undo), C, (({"adapter", "dmx", "dmxdev", "fehw", "femem",
          "fe"} \X {i}) \cup G), (({"adapter", "dmx", "dmxdev", "fehw", "femem"} \X {i}) \cup A))
          /\ Err6(i, undo) \in Seq(Releases)
    BY <1>l DEF Ladder, Rungs
  <2>2. (({"adapter", "dmx", "dmxdev", "fehw", "femem"} \X {i}) \cup A) \subseteq X10
    BY DEF R, X1, y1, X2, y2, X3, y3, X4, y4, X5, y5, X6, y6, X7, y7, X8, y8, X9, y9, X10
  <2>3. \A u \in M10 : u \in (({"adapter", "dmx", "dmxdev", "fehw", "femem",
          "fe"} \X {i}) \cup G) \/ u[1] \in Idle
    BY DEF R, Idle, M1, m1, M2, m2, M3, m3, M4, m4, M5, m5, M6, m6, M7, m7, M8, m8, M9, m9, M10
  <2>4. LadderFits(Err6(i, undo), Stage(M10, X10, F10, C))
    BY <2>1, <2>2, <2>3, LadderFitsIdle
  <2>5. <<"frontend", i>> \in Resources /\ <<"frontend", i>> # R("irq") /\ <<"frontend", i>> \notin Buffers
    BY NoBuffers DEF PerAdapter, Blinds, R, Singles
  <2>6. Founded(<<"frontend", i>>, F10 \cup {<<"fe", i>>})
    BY UserTable, ResourceShapes DEF Founded, Stands, R, Singles, PerAdapter, I2cs, F1, f1, F2,
       f2, F3, f3, F4, f4, F5, f5, F6, f6, F7, f7, F8, f8, F9, f9, F10
  <2>8. Path(crd, <<x10>>, Stage(M10, X10, F10, C), Stage(m10, y10, f10, {}))
    BY <2>1, <2>4, <2>5, <2>6, <1>b, TakeIfPath DEF x10, m10, y10, f10
  <2>9. x10 \in Takings
    BY <2>8, OneOf DEF Path
  <2> QED BY <2>8, <2>9
<1>q10. Path(crd, k10, Stage(M10, X10, F10, C), Stage(tm10, ty10, tf10, {}))
  BY <1>p10 DEF k10, tm10, ty10, tf10
<1>q9. Path(crd, k9, Stage(M9, X9, F9, C), Stage(tm9, ty9, tf9, {}))
  <2>1. k9 = <<x9>> \o k10
    BY <1>p9, <1>p10, Pair DEF k9, k10
  <2>2. Path(crd, k10, Stage(M9 \cup m9, X9 \cup y9, F9 \cup f9, C), Stage(tm10, ty10, tf10, {}))
    BY <1>q10 DEF M10, X10, F10
  <2>3. Path(crd, <<x9>> \o k10, Stage(M9, X9, F9, C), Stage(m9 \cup tm10, y9 \cup ty10, f9 \cup tf10, {}))
    BY <1>p9, <2>2, PathNext
  <2> QED BY <2>1, <2>3 DEF tm9, ty9, tf9
<1>q8. Path(crd, k8, Stage(M8, X8, F8, C), Stage(tm8, ty8, tf8, {}))
  <2>1. k8 = <<x8>> \o k9
    BY <1>p8, <1>p9, <1>p10 DEF k8, k9
  <2>2. Path(crd, k9, Stage(M8 \cup m8, X8 \cup y8, F8 \cup f8, C), Stage(tm9, ty9, tf9, {}))
    BY <1>q9 DEF M9, X9, F9
  <2>3. Path(crd, <<x8>> \o k9, Stage(M8, X8, F8, C), Stage(m8 \cup tm9, y8 \cup ty9, f8 \cup tf9, {}))
    BY <1>p8, <2>2, PathNext
  <2> QED BY <2>1, <2>3 DEF tm8, ty8, tf8
<1>q7. Path(crd, k7, Stage(M7, X7, F7, C), Stage(tm7, ty7, tf7, {}))
  <2>1. k7 = <<x7>> \o k8
    BY <1>p7, <1>p8, <1>p9, <1>p10 DEF k7, k8
  <2>2. Path(crd, k8, Stage(M7 \cup m7, X7 \cup y7, F7 \cup f7, C), Stage(tm8, ty8, tf8, {}))
    BY <1>q8 DEF M8, X8, F8
  <2>3. Path(crd, <<x7>> \o k8, Stage(M7, X7, F7, C), Stage(m7 \cup tm8, y7 \cup ty8, f7 \cup tf8, {}))
    BY <1>p7, <2>2, PathNext
  <2> QED BY <2>1, <2>3 DEF tm7, ty7, tf7
<1>q6. Path(crd, k6, Stage(M6, X6, F6, C), Stage(tm6, ty6, tf6, {}))
  <2>1. k6 = <<x6>> \o k7
    BY <1>p6, <1>p7, <1>p8, <1>p9, <1>p10 DEF k6, k7
  <2>2. Path(crd, k7, Stage(M6 \cup m6, X6 \cup y6, F6 \cup f6, C), Stage(tm7, ty7, tf7, {}))
    BY <1>q7 DEF M7, X7, F7
  <2>3. Path(crd, <<x6>> \o k7, Stage(M6, X6, F6, C), Stage(m6 \cup tm7, y6 \cup ty7, f6 \cup tf7, {}))
    BY <1>p6, <2>2, PathNext
  <2> QED BY <2>1, <2>3 DEF tm6, ty6, tf6
<1>q5. Path(crd, k5, Stage(M5, X5, F5, C), Stage(tm5, ty5, tf5, {}))
  <2>1. k5 = <<x5>> \o k6
    BY <1>p5, <1>p6, <1>p7, <1>p8, <1>p9, <1>p10 DEF k5, k6
  <2>2. Path(crd, k6, Stage(M5 \cup m5, X5 \cup y5, F5 \cup f5, C), Stage(tm6, ty6, tf6, {}))
    BY <1>q6 DEF M6, X6, F6
  <2>3. Path(crd, <<x5>> \o k6, Stage(M5, X5, F5, C), Stage(m5 \cup tm6, y5 \cup ty6, f5 \cup tf6, {}))
    BY <1>p5, <2>2, PathNext
  <2> QED BY <2>1, <2>3 DEF tm5, ty5, tf5
<1>q4. Path(crd, k4, Stage(M4, X4, F4, C), Stage(tm4, ty4, tf4, {}))
  <2>1. k4 = <<x4>> \o k5
    BY <1>p4, <1>p5, <1>p6, <1>p7, <1>p8, <1>p9, <1>p10 DEF k4, k5
  <2>2. Path(crd, k5, Stage(M4 \cup m4, X4 \cup y4, F4 \cup f4, C), Stage(tm5, ty5, tf5, {}))
    BY <1>q5 DEF M5, X5, F5
  <2>3. Path(crd, <<x4>> \o k5, Stage(M4, X4, F4, C), Stage(m4 \cup tm5, y4 \cup ty5, f4 \cup tf5, {}))
    BY <1>p4, <2>2, PathNext
  <2> QED BY <2>1, <2>3 DEF tm4, ty4, tf4
<1>q3. Path(crd, k3, Stage(M3, X3, F3, C), Stage(tm3, ty3, tf3, {}))
  <2>1. k3 = <<x3>> \o k4
    BY <1>p3, <1>p4, <1>p5, <1>p6, <1>p7, <1>p8, <1>p9, <1>p10 DEF k3, k4
  <2>2. Path(crd, k4, Stage(M3 \cup m3, X3 \cup y3, F3 \cup f3, C), Stage(tm4, ty4, tf4, {}))
    BY <1>q4 DEF M4, X4, F4
  <2>3. Path(crd, <<x3>> \o k4, Stage(M3, X3, F3, C), Stage(m3 \cup tm4, y3 \cup ty4, f3 \cup tf4, {}))
    BY <1>p3, <2>2, PathNext
  <2> QED BY <2>1, <2>3 DEF tm3, ty3, tf3
<1>q2. Path(crd, k2, Stage(M2, X2, F2, C), Stage(tm2, ty2, tf2, {}))
  <2>1. k2 = <<x2>> \o k3
    BY <1>p2, <1>p3, <1>p4, <1>p5, <1>p6, <1>p7, <1>p8, <1>p9, <1>p10 DEF k2, k3
  <2>2. Path(crd, k3, Stage(M2 \cup m2, X2 \cup y2, F2 \cup f2, C), Stage(tm3, ty3, tf3, {}))
    BY <1>q3 DEF M3, X3, F3
  <2>3. Path(crd, <<x2>> \o k3, Stage(M2, X2, F2, C), Stage(m2 \cup tm3, y2 \cup ty3, f2 \cup tf3, {}))
    BY <1>p2, <2>2, PathNext
  <2> QED BY <2>1, <2>3 DEF tm2, ty2, tf2
<1>q1. Path(crd, k1, Stage(M1, X1, F1, C), Stage(tm1, ty1, tf1, {}))
  <2>1. k1 = <<x1>> \o k2
    BY <1>p1, <1>p2, <1>p3, <1>p4, <1>p5, <1>p6, <1>p7, <1>p8, <1>p9, <1>p10 DEF k1, k2
  <2>2. Path(crd, k2, Stage(M1 \cup m1, X1 \cup y1, F1 \cup f1, C), Stage(tm2, ty2, tf2, {}))
    BY <1>q2 DEF M2, X2, F2
  <2>3. Path(crd, <<x1>> \o k2, Stage(M1, X1, F1, C), Stage(m1 \cup tm2, y1 \cup ty2, f1 \cup tf2, {}))
    BY <1>p1, <2>2, PathNext
  <2> QED BY <2>1, <2>3 DEF tm1, ty1, tf1
<1>e. tm1 = {"adapter", "dmx", "dmxdev", "fehw", "femem", "net", "client", "fe",
        "frontend"} \X {i} /\ ty1 = {"adapter", "dmx", "dmxdev", "fehw", "femem", "net"} \X {i}
        /\ tf1 = Five \X {i}
  BY DEF Five, tm1, ty1, tf1, m1, y1, f1, tm2, ty2, tf2, m2, y2, f2, tm3, ty3, tf3, m3, y3, f3,
     tm4, ty4, tf4, m4, y4, f4, tm5, ty5, tf5, m5, y5, f5, tm6, ty6, tf6, m6, y6, f6, tm7, ty7,
     tf7, m7, y7, f7, tm8, ty8, tf8, m8, y8, f8, tm9, ty9, tf9, m9, y9, f9, tm10, ty10, tf10,
     m10, y10, f10
<1> QED BY <1>t, <1>q1, <1>e DEF M1, X1, F1

\* A whole round.
LEMMA AdapterInitPath ==
  ASSUME NEW crd, NEW i \in 0 .. Adapters - 1, NEW undo \in Seq(Releases),
         NEW M, NEW X, NEW F, NEW C, NEW G, NEW A, Ladder(undo, C, G, A), A \subseteq X,
         Apart(G, i), \A u \in M : u \in G \/ u[1] \in Idle, I2cs \subseteq F, C = 0 .. i - 1,
         R("mmio") \in F
  PROVE  Path(crd, AdapterInit(i, undo), Stage(M, X, F, C),
              Stage(PerAdapter \X {i}, Always \X {i}, Five \X {i}, {i}))
<1> DEFINE s == <<Take(<<"adapter", i>>, undo),
           Take(<<"dmx", i>>, Err0(i, undo)),
           Take(<<"dmxdev", i>>, Err1(i, undo)),
           Take(<<"fehw", i>>, Err2(i, undo)),
           Take(<<"femem", i>>, Err3(i, undo)),
           Check({"ok", "fail"}, Err4(i, undo)),
           Blind(<<"net", i>>),
           Try(<<"client", i>>),
           Try(<<"fe", i>>),
           Step("take", <<"frontend", i>>, {<<"fe", i>>}, {"ok", "fail"}, Err6(i, undo))>>
           t == <<Blind(<<"fgpi", i>>)>>
           v == <<Plain("count", <<"adapter", i>>)>>
           m == {"adapter", "dmx", "dmxdev", "fehw", "femem", "net", "client", "fe", "frontend"} \X {i}
           x == {"adapter", "dmx", "dmxdev", "fehw", "femem", "net"} \X {i}
           f == Five \X {i}
           g == {<<"fgpi", i>>}
           e == {}
<1>1. Path(crd, s, Stage(M, X, F, C), Stage(m, x, f, {}))
  BY AdapterPartPath
<1>2. Path(crd, t, Stage(M \cup m, X \cup x, F \cup f, C), Stage(g, g, e, {}))
  <2>1. <<"fgpi", i>> \in Resources /\ <<"fgpi", i>> \notin Buffers /\ <<"fgpi", i>> \in Blinds
    BY NoBuffers DEF PerAdapter, Blinds
  <2>2. <<"fgpi", i>> # R("irq") /\ Founded(<<"fgpi", i>>, F \cup f)
    <3>1. \A d \in Resources : Uses(<<"fgpi", i>>, d) => d = R("mmio") \/ d = <<"dmx", i>>
      BY UserTable, ResourceShapes DEF R, Stands, Singles, PerAdapter
    <3>2. R("mmio") \in F \cup f /\ <<"dmx", i>> \in F \cup f
      BY DEF Five
    <3>3. <<"fgpi", i>> # R("irq")
      BY DEF R
    <3> HIDE DEF f
    <3> QED BY <3>1, <3>2, <3>3 DEF Founded
  <2> HIDE DEF m, x, f
  <2> QED BY <2>1, <2>2, BlindPath
<1>3. Path(crd, v, Stage((M \cup m) \cup g, (X \cup x) \cup g, (F \cup f) \cup e, C), Stage(e, e, e, {i}))
  <2> HIDE DEF m, x, f, g
  <2> QED BY CountPath
<1>4. AdapterInit(i, undo) = s \o t \o v
  BY DEF AdapterInit, FgpiInit
<1>5. /\ (m \cup g) \cup e = PerAdapter \X {i} /\ (x \cup g) \cup e = Always \X {i}
      /\ (f \cup e) \cup e = Five \X {i}
  BY DEF PerAdapter, Always
<1> HIDE DEF s, t, v, m, x, f, g, e
<1>6. Path(crd, s \o t, Stage(M, X, F, C), Stage(m \cup g, x \cup g, f \cup e, {}))
  BY <1>1, <1>2, PathNext
<1>7. /\ (M \cup m) \cup g = M \cup (m \cup g) /\ (X \cup x) \cup g = X \cup (x \cup g)
      /\ (F \cup f) \cup e = F \cup (f \cup e)
  OBVIOUS
<1>8. Path(crd, s \o t \o v, Stage(M, X, F, C), Stage((m \cup g) \cup e, (x \cup g) \cup e,
        (f \cup e) \cup e, {i}))
  BY <1>3, <1>6, <1>7, PathNext
<1> QED BY <1>4, <1>5, <1>8

\* The labels of the caller give back the c adapters that are counted, H and
\* no more.
DvbLadder(undo, H, K) ==
  /\ undo \in Seq(Releases)
  /\ \A c \in 0 .. Adapters :
       Ladder(undo, 0 .. c - 1, (PerAdapter \X (0 .. c - 1)) \cup H, (Always \X (0 .. c - 1)) \cup K)

\* Adapters come up on what is there; H are no adapters.
DvbBase(M, X, F, H, K) ==
  /\ \A u \in M : u \in H \/ u[1] \in Idle
  /\ K \subseteq X /\ I2cs \subseteq F /\ R("mmio") \in F
  /\ \A u \in H : u[1] \notin PerAdapter \cup {"videodev", "audio", "osd"}

\* The loop of saa716x_dvb_init() fits.
LEMMA DvbInitPath ==
  ASSUME NEW crd, NEW undo, NEW M, NEW X, NEW F, NEW H, NEW K, NEW C,
         DvbLadder(undo, H, K), DvbBase(M, X, F, H, K), C = {}
  PROVE  Path(crd, DvbInit(undo), Stage(M, X, F, C),
              Stage(PerAdapter \X (0 .. Adapters - 1), Always \X (0 .. Adapters - 1),
                    Five \X (0 .. Adapters - 1), 0 .. Adapters - 1))
<1> DEFINE rounds == [n \in 1 .. Adapters |-> AdapterInit(n - 1, undo)]
           T == [n \in 1 .. Adapters |-> Stage(PerAdapter \X {n - 1}, Always \X {n - 1},
             Five \X {n - 1}, {n - 1})]
           a == Stage(M, X, F, C)
<1>1. Adapters \in Nat /\ \A n \in 1 .. Adapters : n - 1 \in 0 .. Adapters - 1
  BY AdaptersAssumption
<1>2. \A n \in 1 .. Adapters :
        /\ rounds[n] = AdapterInit(n - 1, undo)
        /\ T[n].may = PerAdapter \X {n - 1} /\ T[n].sure = Always \X {n - 1}
        /\ T[n].firm = Five \X {n - 1} /\ T[n].count = {n - 1}
        /\ T[n] = Stage(PerAdapter \X {n - 1}, Always \X {n - 1}, Five \X {n - 1}, {n - 1})
  BY DEF Stage
<1>3. DvbInit(undo) = InTurn(rounds)
  BY DEF DvbInit
<1>4. DOMAIN rounds = 1 .. Adapters /\ rounds = [n \in DOMAIN rounds |-> rounds[n]]
  OBVIOUS
<1>5. \A n \in 1 .. Adapters : Len(rounds[n]) = 12
  <2> TAKE n \in 1 .. Adapters
  <2>1. Len(AdapterInit(n - 1, undo)) = 12
    BY DEF AdapterInit, FgpiInit
  <2> QED BY <2>1, <1>2
<1> HIDE DEF rounds, T
<1>6. ASSUME NEW p \in 0 .. Adapters
      PROVE  Plus(a, Sum(T, p)) = Stage(M \cup (PerAdapter \X (0 .. p - 1)), X \cup (Always \X (0 .. p - 1)),
                                        F \cup (Five \X (0 .. p - 1)), 0 .. p - 1)
             /\ Sum(T, p) = Stage(PerAdapter \X (0 .. p - 1), Always \X (0 .. p - 1),
                                        Five \X (0 .. p - 1), 0 .. p - 1)
  <2>1. \A q \in 1 .. p : q \in 1 .. Adapters /\ q - 1 \in 0 .. p - 1
    BY <1>1
  <2>2. \A i \in 0 .. p - 1 : i + 1 \in 1 .. p /\ (i + 1) - 1 = i
    BY <1>1
  <2> DEFINE m == UNION {T[q].may : q \in 1 .. p}
             x == UNION {T[q].sure : q \in 1 .. p}
             f == UNION {T[q].firm : q \in 1 .. p}
             c == UNION {T[q].count : q \in 1 .. p}
  <2>3. m = PerAdapter \X (0 .. p - 1)
    <3>1. \A q \in 1 .. p : T[q].may = PerAdapter \X {q - 1}
      BY <1>2, <2>1
    <3> QED BY <3>1, <2>1, <2>2
  <2>4. x = Always \X (0 .. p - 1)
    <3>1. \A q \in 1 .. p : T[q].sure = Always \X {q - 1}
      BY <1>2, <2>1
    <3> QED BY <3>1, <2>1, <2>2
  <2>5. f = Five \X (0 .. p - 1)
    <3>1. \A q \in 1 .. p : T[q].firm = Five \X {q - 1}
      BY <1>2, <2>1
    <3> QED BY <3>1, <2>1, <2>2
  <2>6. c = 0 .. p - 1
    <3>1. \A q \in 1 .. p : T[q].count = {q - 1}
      BY <1>2, <2>1
    <3> QED BY <3>1, <2>1, <2>2
  <2>7. Sum(T, p) = Stage(m, x, f, c)
    BY DEF Sum
  <2> HIDE DEF m, x, f, c
  <2>8. Plus(a, Stage(m, x, f, c)) = Stage(M \cup m, X \cup x, F \cup f, c)
    BY DEF Plus, Stage
  <2> QED BY <2>3, <2>4, <2>5, <2>6, <2>7, <2>8
<1>7. ASSUME NEW p \in 1 .. Adapters
      PROVE  Path(crd, rounds[p], Plus(a, Sum(T, p - 1)), T[p])
  <2> DEFINE i == p - 1
             D == 0 .. i - 1
             N == M \cup (PerAdapter \X D)
             Y == X \cup (Always \X D)
             E == F \cup (Five \X D)
             G == (PerAdapter \X D) \cup H
             A == (Always \X D) \cup K
  <2>1. i \in 0 .. Adapters - 1 /\ i \in 0 .. Adapters
    BY <1>1
  <2>2. undo \in Seq(Releases) /\ Ladder(undo, D, G, A)
    BY <2>1 DEF DvbLadder
  <2>3. A \subseteq Y /\ I2cs \subseteq E /\ R("mmio") \in E /\ (\A u \in N : u \in G \/ u[1] \in Idle)
    BY DEF DvbBase
  <2>4. Apart(G, i)
    <3>1. \A u \in PerAdapter \X D : u[1] \in PerAdapter /\ u[2] # i
      BY <2>1
    <3>2. \A u \in PerAdapter \X {i} : u[1] \in PerAdapter /\ u[2] = i
      OBVIOUS
    <3>3. \A u \in H : u[1] \notin PerAdapter /\ u[1] \notin {"videodev", "audio", "osd"}
      BY DEF DvbBase
    <3>4. PerAdapter \cap {"videodev", "audio", "osd"} = {}
      BY DEF PerAdapter
    <3> QED BY <3>1, <3>2, <3>3, <3>4 DEF Apart
  <2>5. Plus(a, Sum(T, i)) = Stage(N, Y, E, D)
    BY <1>6, <2>1
  <2>6. rounds[p] = AdapterInit(i, undo) /\ T[p] = Stage(PerAdapter \X {i}, Always \X {i}, Five \X {i}, {i})
    BY <1>2
  <2>7. D = 0 .. i - 1
    OBVIOUS
  <2> HIDE DEF i, D, N, Y, E, G, A
  <2>8. Path(crd, AdapterInit(i, undo), Stage(N, Y, E, D), Stage(PerAdapter \X {i},
          Always \X {i}, Five \X {i}, {i}))
    BY <2>1, <2>2, <2>3, <2>4, <2>7, AdapterInitPath
  <2> QED BY <2>5, <2>6, <2>8 DEF i
<1>8. rounds \in [1 .. Adapters -> Seq(Takings)]
  <2>1. \A n \in 1 .. Adapters : rounds[n] \in Seq(Takings)
    BY <1>7 DEF Path
  <2> QED BY <1>4, <2>1
<1>9. Loop(rounds, Takings, Adapters, 12)
  BY <1>1, <1>5, <1>8 DEF Loop
<1> HIDE DEF a
<1>10. PathRounds(crd, rounds, Adapters, 12, a, T)
  BY <1>7, <1>9 DEF PathRounds
<1>11. Path(crd, InTurn(rounds), a, Sum(T, Adapters))
  BY <1>10, PathLoop
<1>12. Adapters \in 0 .. Adapters
  BY <1>1
<1> QED BY <1>3, <1>6, <1>11, <1>12 DEF a

-----------------------------------------------------------------------------
(* The probe functions of the cards with DVB adapters.                     *)

\* kzalloc() of the device structure is the first thing every probe function
\* does.
LEMMA FirstStep ==
  ASSUME NEW crd, NEW e, e = {}
  PROVE  Path(crd, <<Take(R("dev"), <<>>)>>, Stage(e, e, e, e), Stage({R("dev")}, {R("dev")}, {R("dev")}, {}))
<1>1. Ladder(<<>>, e, e, e)
  BY EmptyLadder
<1>2. LadderFits(<<>>, Stage(e, e, e, e))
  <2>1. e \subseteq e /\ \A u \in e : u \in e \/ u[1] \in Idle
    OBVIOUS
  <2> QED BY <1>1, <2>1, LadderFitsIdle
<1>3. R("dev") \in Resources /\ R("dev") # R("irq") /\ Founded(R("dev"), e)
  BY ResourceNames, UserTable DEF Singles, R, Founded, Stands
<1>4. <<>> \in Seq(Releases)
  BY EmptySeq
<1> QED BY <1>2, <1>3, <1>4, TakePath

\* A remove function that is a ladder and gives back all there may be fits at
\* the end.
LEMMA EndsWith ==
  ASSUME NEW crd, NEW s, NEW M, NEW X, NEW F, NEW C, NEW G, NEW A,
         RemoveSteps[crd] = s, Ladder(s, C, G, A), A \subseteq X, M \subseteq G,
         crd = "cap" => QueueFirst(s, C)
  PROVE  Ends(crd, Stage(M, X, F, C))
<1>1. /\ NoUncount(s) /\ s \in Seq(Releases) /\ \A n \in 1 .. Len(s) : WellFormed(s[n])
      /\ Orderly(s, C) /\ Gone(s, C) = G /\ Asked(s, C) \subseteq X
  BY DEF Ladder, Rungs
<1>2. Unwinds(s, M, X, C)
  BY <1>1 DEF Unwinds
<1> QED BY <1>1, <1>2 DEF Ends, Stage

\* What may be held, and what is for sure, once the core is up.
CoreGot == {R("dev")} \cup CoreMay
CoreHas == {R("dev")} \cup CoreFirm

\* The label fail3 is for that stage.
LEMMA CoreSets ==
  /\ CoreGot = Fail3Gone /\ Fail3Asks \subseteq CoreHas /\ I2cs \subseteq CoreHas
  /\ R("dev") \in CoreHas /\ R("mmio") \in CoreHas
BY DEF CoreGot, CoreHas, CoreMay, CoreFirm, Fail3Gone, Fail2Gone, Fail3Asks, Fail2Asks, PciAsks,
   PciFirm

\* The beginning of the probe functions of the cards without a work queue.
LEMMA BeginPath ==
  ASSUME NEW crd, crd # "cap", NEW e, e = {}
  PROVE  Path(crd, <<Take(R("dev"), <<>>)>> \o CoreInit, Stage(e, e, e, e), Stage(CoreGot,
           CoreHas, CoreHas, {}))
<1> DEFINE B == {R("dev")}
<1>1. Path(crd, <<Take(R("dev"), <<>>)>>, Stage(e, e, e, e), Stage(B, B, B, {}))
  BY FirstStep
<1>2. Bases(crd, B)
  BY DEF Bases
<1>3. e \cup B = B
  OBVIOUS
<1> HIDE DEF B
<1>4. Path(crd, CoreInit, Stage(B, B, B, e), Stage(CoreMay, CoreFirm, CoreFirm, {}))
  BY <1>2, CoreInitPath
<1>5. Path(crd, CoreInit, Stage(e \cup B, e \cup B, e \cup B, e), Stage(CoreMay, CoreFirm, CoreFirm, {}))
  BY <1>3, <1>4
<1>6. Path(crd, <<Take(R("dev"), <<>>)>> \o CoreInit, Stage(e, e, e, e),
           Stage(B \cup CoreMay, B \cup CoreFirm, B \cup CoreFirm, {}))
  BY <1>1, <1>5, PathNext
<1> QED BY <1>6 DEF B, CoreGot, CoreHas

\* saa716x_budget_pci_probe() and saa716x_hybrid_pci_probe() build.
LEMMA BudgetBuilds ==
  ASSUME NEW crd \in {"budget", "hybrid"}, NEW e, e = {}
  PROVE  BudgetProbe \in Seq(Takings) /\ Builds(crd, BudgetProbe, Stage(e, e, e, e))
<1> DEFINE s == <<Take(R("dev"), <<>>)>> \o CoreInit
           D == 0 .. Adapters - 1
           m == PerAdapter \X D
           x == Always \X D
           f == Five \X D
<1>1. BudgetProbe = s \o DvbInit(BudgetFail3)
  BY DEF BudgetProbe
<1>2. Path(crd, s, Stage(e, e, e, e), Stage(CoreGot, CoreHas, CoreHas, {}))
  BY BeginPath
<1>3. DvbLadder(BudgetFail3, Fail3Gone, Fail3Asks)
  BY BudgetFail3Ladder DEF DvbLadder, BudgetGone, BudgetAsks, Ladder, Rungs
<1>4. DvbBase(CoreGot, CoreHas, CoreHas, Fail3Gone, Fail3Asks)
  BY CoreSets, Fail3Names DEF DvbBase, PerAdapter
<1>5. Path(crd, DvbInit(BudgetFail3), Stage(CoreGot, CoreHas, CoreHas, e), Stage(m, x, f, D))
  BY <1>3, <1>4, DvbInitPath
<1>6. RemoveSteps[crd] = BudgetRemove
  BY DEF RemoveSteps, HybridRemove
<1>7. Ladder(BudgetRemove, D, BudgetGone(D), BudgetAsks(D))
  BY BudgetRemoveLadder
<1>8. /\ CoreGot \cup m \subseteq BudgetGone(D) /\ BudgetAsks(D) \subseteq CoreHas \cup x
  BY CoreSets DEF BudgetGone, BudgetAsks
<1> HIDE DEF s, D, m, x, f
<1>9. e \cup CoreGot = CoreGot /\ e \cup CoreHas = CoreHas /\ e \cup D = D
  OBVIOUS
<1>10. Path(crd, s \o DvbInit(BudgetFail3), Stage(e, e, e, e), Stage(CoreGot \cup m,
         CoreHas \cup x, CoreHas \cup f, D))
  BY <1>2, <1>5, <1>9, PathNext
<1>11. Ends(crd, Stage(CoreGot \cup m, CoreHas \cup x, CoreHas \cup f, D))
  BY <1>6, <1>7, <1>8, EndsWith
<1>12. Plus(Stage(e, e, e, e), Stage(CoreGot \cup m, CoreHas \cup x, CoreHas \cup f, D))
         = Stage(CoreGot \cup m, CoreHas \cup x, CoreHas \cup f, D)
  BY <1>9 DEF Plus, Stage
<1> QED BY <1>1, <1>10, <1>11, <1>12, PathBuilds

\* Its remove function clears both pointers.
LEMMA FfCleared == R("sti") \in Cleared(RemoveSteps["ff"]) /\ R("ir") \in Cleared(RemoveSteps["ff"])
BY FfRemoveLadder DEF RemoveSteps

\* The STi7109's structure and buffer, and the pointer to them.
LEMMA FfDataPath ==
  ASSUME NEW M, NEW X, NEW F, NEW C, M \subseteq Fail3Gone, Fail3Asks \subseteq X,
         R("mmio") \in F
  PROVE  Path("ff", <<TakeQuiet(R("sti"), FfFail3), TakeQuiet(R("iobuf"), FfFail4),
           Plain("point", R("sti"))>>, Stage(M, X, F, C), Stage({R("sti"), R("iobuf")},
           {R("sti"), R("iobuf")}, {R("sti"), R("iobuf")}, {}))
<1> DEFINE x1 == TakeQuiet(R("sti"), FfFail3)
           x2 == TakeQuiet(R("iobuf"), FfFail4)
           x3 == Plain("point", R("sti"))
           k3 == <<x3>>
           k2 == <<x2, x3>>
           k1 == <<x1, x2, x3>>
           M1 == M
           X1 == X
           F1 == F
           m1 == {R("sti")}
           y1 == {R("sti")}
           f1 == {R("sti")}
           M2 == M1 \cup m1
           X2 == X1 \cup y1
           F2 == F1 \cup f1
           m2 == {R("iobuf")}
           y2 == {R("iobuf")}
           f2 == {R("iobuf")}
           M3 == M2 \cup m2
           X3 == X2 \cup y2
           F3 == F2 \cup f2
           m3 == {}
           y3 == {}
           f3 == {}
           tm3 == m3
           ty3 == y3
           tf3 == f3
           tm2 == m2 \cup tm3
           ty2 == y2 \cup ty3
           tf2 == f2 \cup tf3
           tm1 == m1 \cup tm2
           ty1 == y1 \cup ty2
           tf1 == f1 \cup tf2
<1>t. <<TakeQuiet(R("sti"), FfFail3), TakeQuiet(R("iobuf"), FfFail4), Plain("point", R("sti"))>> = k1
  OBVIOUS
<1> HIDE DEF x1, x2, x3, k3, k2, k1, M1, X1, F1, m1, y1, f1, M2, X2, F2, m2, y2, f2, M3, X3, F3,
             m3, y3, f3, tm3, ty3, tf3, tm2, ty2, tf2, tm1, ty1, tf1
<1>p1. Path("ff", <<x1>>, Stage(M1, X1, F1, C), Stage(m1, y1, f1, {})) /\ x1 \in Takings
  <2>1. Ladder(FfFail3, C, Fail3Gone, Fail3Asks) /\ FfFail3 \in Seq(Releases)
    BY FfFail3Ladder DEF Ladder, Rungs
  <2>2. Fail3Asks \subseteq X1
    BY DEF R, FfGone4, FfAsks4, X1
  <2>3. \A u \in M1 : u \in Fail3Gone \/ u[1] \in Idle
    BY DEF R, FfGone4, FfAsks4, Idle, M1
  <2>4. LadderFits(FfFail3, Stage(M1, X1, F1, C))
    BY <2>1, <2>2, <2>3, LadderFitsIdle
  <2>5. R("sti") \in Resources /\ R("sti") # R("irq") /\ R("sti") \notin Buffers
    BY NoBuffers DEF Singles, R, Blinds
  <2>6. Founded(R("sti"), F1)
    <3>1. \A d \in Resources : Uses(R("sti"), d) => d = R("mmio")
      BY UserTable, ResourceShapes DEF Stands, R, Singles
    <3> QED BY <3>1 DEF Founded, F1, R
  <2>8. Path("ff", <<x1>>, Stage(M1, X1, F1, C), Stage(m1, y1, f1, {}))
    BY <2>1, <2>4, <2>5, <2>6, TakeQuietPath DEF x1, m1, y1, f1
  <2>9. x1 \in Takings
    BY <2>8, OneOf DEF Path
  <2> QED BY <2>8, <2>9
<1>p2. Path("ff", <<x2>>, Stage(M2, X2, F2, C), Stage(m2, y2, f2, {})) /\ x2 \in Takings
  <2>1. Ladder(FfFail4, C, FfGone4, FfAsks4) /\ FfFail4 \in Seq(Releases)
    BY FfFail4Ladder DEF Ladder, Rungs
  <2>2. FfAsks4 \subseteq X2
    BY DEF R, FfGone4, FfAsks4, X1, y1, X2
  <2>3. \A u \in M2 : u \in FfGone4 \/ u[1] \in Idle
    BY DEF R, FfGone4, FfAsks4, Idle, M1, m1, M2
  <2>4. LadderFits(FfFail4, Stage(M2, X2, F2, C))
    BY <2>1, <2>2, <2>3, LadderFitsIdle
  <2>5. R("iobuf") \in Resources /\ R("iobuf") # R("irq") /\ R("iobuf") \notin Buffers
    BY NoBuffers DEF Singles, R, Blinds
  <2>6. Founded(R("iobuf"), F2)
    BY UserTable, ResourceShapes DEF Founded, Stands, R, Singles, PerAdapter, I2cs, F1, f1, F2
  <2>8. Path("ff", <<x2>>, Stage(M2, X2, F2, C), Stage(m2, y2, f2, {}))
    BY <2>1, <2>4, <2>5, <2>6, TakeQuietPath DEF x2, m2, y2, f2
  <2>9. x2 \in Takings
    BY <2>8, OneOf DEF Path
  <2> QED BY <2>8, <2>9
<1>p3. Path("ff", <<x3>>, Stage(M3, X3, F3, C), Stage(m3, y3, f3, {})) /\ x3 \in Takings
  <2>5. R("sti") \in Resources /\ R("sti") \notin Buffers
    BY NoBuffers DEF Singles, R, Blinds
  <2>6. R("sti") \in F3
    BY DEF F1, f1, F2, f2, F3
  <2>7. R("sti") \in F3 \cap {R("sti"), R("ir")} \cap Cleared(RemoveSteps["ff"])
    BY <2>6, FfCleared
  <2>8. Path("ff", <<x3>>, Stage(M3, X3, F3, C), Stage(m3, y3, f3, {}))
    BY <2>5, <2>7, PointPath DEF x3, m3, y3, f3
  <2>9. x3 \in Takings
    BY <2>8, OneOf DEF Path
  <2> QED BY <2>8, <2>9
<1>q3. Path("ff", k3, Stage(M3, X3, F3, C), Stage(tm3, ty3, tf3, {}))
  BY <1>p3 DEF k3, tm3, ty3, tf3
<1>q2. Path("ff", k2, Stage(M2, X2, F2, C), Stage(tm2, ty2, tf2, {}))
  <2>1. k2 = <<x2>> \o k3
    BY <1>p2, <1>p3, Pair DEF k2, k3
  <2>2. Path("ff", k3, Stage(M2 \cup m2, X2 \cup y2, F2 \cup f2, C), Stage(tm3, ty3, tf3, {}))
    BY <1>q3 DEF M3, X3, F3
  <2>3. Path("ff", <<x2>> \o k3, Stage(M2, X2, F2, C), Stage(m2 \cup tm3, y2 \cup ty3, f2 \cup tf3, {}))
    BY <1>p2, <2>2, PathNext
  <2> QED BY <2>1, <2>3 DEF tm2, ty2, tf2
<1>q1. Path("ff", k1, Stage(M1, X1, F1, C), Stage(tm1, ty1, tf1, {}))
  <2>1. k1 = <<x1>> \o k2
    BY <1>p1, <1>p2, <1>p3 DEF k1, k2
  <2>2. Path("ff", k2, Stage(M1 \cup m1, X1 \cup y1, F1 \cup f1, C), Stage(tm2, ty2, tf2, {}))
    BY <1>q2 DEF M2, X2, F2
  <2>3. Path("ff", <<x1>> \o k2, Stage(M1, X1, F1, C), Stage(m1 \cup tm2, y1 \cup ty2, f1 \cup tf2, {}))
    BY <1>p1, <2>2, PathNext
  <2> QED BY <2>1, <2>3 DEF tm1, ty1, tf1
<1>e. tm1 = {R("sti"), R("iobuf")} /\ ty1 = {R("sti"), R("iobuf")} /\ tf1 = {R("sti"), R("iobuf")}
  BY DEF tm1, ty1, tf1, m1, y1, f1, tm2, ty2, tf2, m2, y2, f2, tm3, ty3, tf3, m3, y3, f3
<1> QED BY <1>t, <1>q1, <1>e DEF M1, X1, F1

\* saa716x_ff_fpga_init() and saa716x_ff_st7109_init() fail into fail5.
LEMMA FfFirmwarePath ==
  ASSUME NEW M, NEW X, NEW F, NEW C, M \subseteq FfGone5, FfAsks5 \subseteq X
  PROVE  Path("ff", <<Check({"ok", "fail"}, FfFail5)>>, Stage(M, X, F, C), Stage({}, {}, {}, {}))
<1> DEFINE x1 == Check({"ok", "fail"}, FfFail5)
           k1 == <<x1>>
           M1 == M
           X1 == X
           F1 == F
           m1 == {}
           y1 == {}
           f1 == {}
           tm1 == m1
           ty1 == y1
           tf1 == f1
<1>t. <<Check({"ok", "fail"}, FfFail5)>> = k1
  OBVIOUS
<1> HIDE DEF x1, k1, M1, X1, F1, m1, y1, f1, tm1, ty1, tf1
<1>p1. Path("ff", <<x1>>, Stage(M1, X1, F1, C), Stage(m1, y1, f1, {})) /\ x1 \in Takings
  <2>1. Ladder(FfFail5, C, FfGone5, FfAsks5) /\ FfFail5 \in Seq(Releases)
    BY FfFail5Ladder DEF Ladder, Rungs
  <2>2. FfAsks5 \subseteq X1
    BY DEF R, X1
  <2>3. \A u \in M1 : u \in FfGone5 \/ u[1] \in Idle
    BY DEF R, Idle, M1
  <2>4. LadderFits(FfFail5, Stage(M1, X1, F1, C))
    BY <2>1, <2>2, <2>3, LadderFitsIdle
  <2>8. Path("ff", <<x1>>, Stage(M1, X1, F1, C), Stage(m1, y1, f1, {}))
    BY <2>1, <2>4, CheckPath DEF x1, m1, y1, f1
  <2>9. x1 \in Takings
    BY <2>8, OneOf DEF Path
  <2> QED BY <2>8, <2>9
<1>q1. Path("ff", k1, Stage(M1, X1, F1, C), Stage(tm1, ty1, tf1, {}))
  BY <1>p1 DEF k1, tm1, ty1, tf1
<1>e. tm1 = {} /\ ty1 = {} /\ tf1 = {}
  BY DEF tm1, ty1, tf1, m1, y1, f1
<1> QED BY <1>t, <1>q1, <1>e DEF M1, X1, F1

\* The wait for the STi7109's boot fails into fail6.
LEMMA FfBootPath ==
  ASSUME NEW M, NEW X, NEW F, NEW C, M \subseteq FfGone6(C), FfAsks6(C) \subseteq X
  PROVE  Path("ff", <<Check({"ok", "fail", "quiet"}, FfFail6)>>, Stage(M, X, F, C), Stage({}, {}, {}, {}))
<1> DEFINE x1 == Check({"ok", "fail", "quiet"}, FfFail6)
           k1 == <<x1>>
           M1 == M
           X1 == X
           F1 == F
           m1 == {}
           y1 == {}
           f1 == {}
           tm1 == m1
           ty1 == y1
           tf1 == f1
<1>t. <<Check({"ok", "fail", "quiet"}, FfFail6)>> = k1
  OBVIOUS
<1> HIDE DEF x1, k1, M1, X1, F1, m1, y1, f1, tm1, ty1, tf1
<1>p1. Path("ff", <<x1>>, Stage(M1, X1, F1, C), Stage(m1, y1, f1, {})) /\ x1 \in Takings
  <2>1. Ladder(FfFail6, C, FfGone6(C), FfAsks6(C)) /\ FfFail6 \in Seq(Releases)
    BY FfFail6Ladder DEF Ladder, Rungs
  <2>2. FfAsks6(C) \subseteq X1
    BY DEF R, X1
  <2>3. \A u \in M1 : u \in FfGone6(C) \/ u[1] \in Idle
    BY DEF R, Idle, M1
  <2>4. LadderFits(FfFail6, Stage(M1, X1, F1, C))
    BY <2>1, <2>2, <2>3, LadderFitsIdle
  <2>8. Path("ff", <<x1>>, Stage(M1, X1, F1, C), Stage(m1, y1, f1, {}))
    BY <2>1, <2>4, CheckQuietPath DEF x1, m1, y1, f1
  <2>9. x1 \in Takings
    BY <2>8, OneOf DEF Path
  <2> QED BY <2>8, <2>9
<1>q1. Path("ff", k1, Stage(M1, X1, F1, C), Stage(tm1, ty1, tf1, {}))
  BY <1>p1 DEF k1, tm1, ty1, tf1
<1>e. tm1 = {} /\ ty1 = {} /\ tf1 = {}
  BY DEF tm1, ty1, tf1, m1, y1, f1
<1> QED BY <1>t, <1>q1, <1>e DEF M1, X1, F1

\* saa716x_ff_video_init() fits on the STi7109 and the first adapter.
LEMMA FfVideoInitPath ==
  ASSUME NEW M, NEW X, NEW F, NEW C,
         R("sti") \in F, R("iobuf") \in F, <<"adapter", 0>> \in F
  PROVE  Path("ff", FfVideoInit, Stage(M, X, F, C), Stage({R("videodev"), R("fifowq"),
           R("vbuf")}, {R("fifowq")}, {}, {}))
<1> DEFINE x1 == Try(R("videodev"))
           x2 == Blind(R("fifowq"))
           x3 == Step("take", R("vbuf"), {}, {"ok", "skip", "short"}, <<>>)
           k3 == <<x3>>
           k2 == <<x2, x3>>
           k1 == <<x1, x2, x3>>
           M1 == M
           X1 == X
           F1 == F
           m1 == {R("videodev")}
           y1 == {}
           f1 == {}
           M2 == M1 \cup m1
           X2 == X1 \cup y1
           F2 == F1 \cup f1
           m2 == {R("fifowq")}
           y2 == {R("fifowq")}
           f2 == {}
           M3 == M2 \cup m2
           X3 == X2 \cup y2
           F3 == F2 \cup f2
           m3 == {R("vbuf")}
           y3 == {}
           f3 == {}
           tm3 == m3
           ty3 == y3
           tf3 == f3
           tm2 == m2 \cup tm3
           ty2 == y2 \cup ty3
           tf2 == f2 \cup tf3
           tm1 == m1 \cup tm2
           ty1 == y1 \cup ty2
           tf1 == f1 \cup tf2
<1>t. FfVideoInit = k1
  BY DEF FfVideoInit
<1> HIDE DEF x1, x2, x3, k3, k2, k1, M1, X1, F1, m1, y1, f1, M2, X2, F2, m2, y2, f2, M3, X3, F3,
             m3, y3, f3, tm3, ty3, tf3, tm2, ty2, tf2, tm1, ty1, tf1
<1>p1. Path("ff", <<x1>>, Stage(M1, X1, F1, C), Stage(m1, y1, f1, {})) /\ x1 \in Takings
  <2>5. R("videodev") \in Resources /\ R("videodev") # R("irq") /\ R("videodev") \notin Buffers
    BY NoBuffers DEF Singles, R, Blinds
  <2>6. Founded(R("videodev"), F1)
    BY UserTable, ResourceShapes DEF Founded, Stands, R, Singles, PerAdapter, I2cs, F1
  <2>8. Path("ff", <<x1>>, Stage(M1, X1, F1, C), Stage(m1, y1, f1, {}))
    BY <2>5, <2>6, TryPath DEF x1, m1, y1, f1
  <2>9. x1 \in Takings
    BY <2>8, OneOf DEF Path
  <2> QED BY <2>8, <2>9
<1>p2. Path("ff", <<x2>>, Stage(M2, X2, F2, C), Stage(m2, y2, f2, {})) /\ x2 \in Takings
  <2>5. R("fifowq") \in Resources /\ R("fifowq") # R("irq") /\ R("fifowq") \notin Buffers
          /\ R("fifowq") \in Blinds
    BY NoBuffers DEF Singles, R, Blinds
  <2>6. Founded(R("fifowq"), F2)
    BY UserTable, ResourceShapes DEF Founded, Stands, R, Singles, PerAdapter, I2cs, F1, f1, F2
  <2>8. Path("ff", <<x2>>, Stage(M2, X2, F2, C), Stage(m2, y2, f2, {}))
    BY <2>5, <2>6, BlindPath DEF x2, m2, y2, f2
  <2>9. x2 \in Takings
    BY <2>8, OneOf DEF Path
  <2> QED BY <2>8, <2>9
<1>p3. Path("ff", <<x3>>, Stage(M3, X3, F3, C), Stage(m3, y3, f3, {})) /\ x3 \in Takings
  <2>5. R("vbuf") \in Resources /\ R("vbuf") # R("irq") /\ R("vbuf") \notin Buffers /\ R("vbuf") \in Blinds
    BY NoBuffers DEF Singles, R, Blinds
  <2>6. Founded(R("vbuf"), F3)
    BY UserTable, ResourceShapes DEF Founded, Stands, R, Singles, PerAdapter, I2cs, F1, f1, F2,
       f2, F3
  <2>8. Path("ff", <<x3>>, Stage(M3, X3, F3, C), Stage(m3, y3, f3, {}))
    BY <2>5, <2>6, BlindTryPath DEF x3, m3, y3, f3
  <2>9. x3 \in Takings
    BY <2>8, OneOf DEF Path
  <2> QED BY <2>8, <2>9
<1>q3. Path("ff", k3, Stage(M3, X3, F3, C), Stage(tm3, ty3, tf3, {}))
  BY <1>p3 DEF k3, tm3, ty3, tf3
<1>q2. Path("ff", k2, Stage(M2, X2, F2, C), Stage(tm2, ty2, tf2, {}))
  <2>1. k2 = <<x2>> \o k3
    BY <1>p2, <1>p3, Pair DEF k2, k3
  <2>2. Path("ff", k3, Stage(M2 \cup m2, X2 \cup y2, F2 \cup f2, C), Stage(tm3, ty3, tf3, {}))
    BY <1>q3 DEF M3, X3, F3
  <2>3. Path("ff", <<x2>> \o k3, Stage(M2, X2, F2, C), Stage(m2 \cup tm3, y2 \cup ty3, f2 \cup tf3, {}))
    BY <1>p2, <2>2, PathNext
  <2> QED BY <2>1, <2>3 DEF tm2, ty2, tf2
<1>q1. Path("ff", k1, Stage(M1, X1, F1, C), Stage(tm1, ty1, tf1, {}))
  <2>1. k1 = <<x1>> \o k2
    BY <1>p1, <1>p2, <1>p3 DEF k1, k2
  <2>2. Path("ff", k2, Stage(M1 \cup m1, X1 \cup y1, F1 \cup f1, C), Stage(tm2, ty2, tf2, {}))
    BY <1>q2 DEF M2, X2, F2
  <2>3. Path("ff", <<x1>> \o k2, Stage(M1, X1, F1, C), Stage(m1 \cup tm2, y1 \cup ty2, f1 \cup tf2, {}))
    BY <1>p1, <2>2, PathNext
  <2> QED BY <2>1, <2>3 DEF tm1, ty1, tf1
<1>e. tm1 = {R("videodev"), R("fifowq"), R("vbuf")} /\ ty1 = {R("fifowq")} /\ tf1 = {}
  BY DEF tm1, ty1, tf1, m1, y1, f1, tm2, ty2, tf2, m2, y2, f2, tm3, ty3, tf3, m3, y3, f3
<1> QED BY <1>t, <1>q1, <1>e DEF M1, X1, F1

\* saa716x_ff_audio_init() and saa716x_ff_osd_init() fit on the same.
LEMMA FfNodesPath ==
  ASSUME NEW M, NEW X, NEW F, NEW C,
         R("sti") \in F, R("iobuf") \in F, <<"adapter", 0>> \in F
  PROVE  Path("ff", <<Try(R("audio")), Try(R("osd"))>>, Stage(M, X, F, C), Stage({R("audio"),
           R("osd")}, {}, {}, {}))
<1> DEFINE x1 == Try(R("audio"))
           x2 == Try(R("osd"))
           k2 == <<x2>>
           k1 == <<x1, x2>>
           M1 == M
           X1 == X
           F1 == F
           m1 == {R("audio")}
           y1 == {}
           f1 == {}
           M2 == M1 \cup m1
           X2 == X1 \cup y1
           F2 == F1 \cup f1
           m2 == {R("osd")}
           y2 == {}
           f2 == {}
           tm2 == m2
           ty2 == y2
           tf2 == f2
           tm1 == m1 \cup tm2
           ty1 == y1 \cup ty2
           tf1 == f1 \cup tf2
<1>t. <<Try(R("audio")), Try(R("osd"))>> = k1
  OBVIOUS
<1> HIDE DEF x1, x2, k2, k1, M1, X1, F1, m1, y1, f1, M2, X2, F2, m2, y2, f2, tm2, ty2, tf2, tm1,
             ty1, tf1
<1>p1. Path("ff", <<x1>>, Stage(M1, X1, F1, C), Stage(m1, y1, f1, {})) /\ x1 \in Takings
  <2>5. R("audio") \in Resources /\ R("audio") # R("irq") /\ R("audio") \notin Buffers
    BY NoBuffers DEF Singles, R, Blinds
  <2>6. Founded(R("audio"), F1)
    BY UserTable, ResourceShapes DEF Founded, Stands, R, Singles, PerAdapter, I2cs, F1
  <2>8. Path("ff", <<x1>>, Stage(M1, X1, F1, C), Stage(m1, y1, f1, {}))
    BY <2>5, <2>6, TryPath DEF x1, m1, y1, f1
  <2>9. x1 \in Takings
    BY <2>8, OneOf DEF Path
  <2> QED BY <2>8, <2>9
<1>p2. Path("ff", <<x2>>, Stage(M2, X2, F2, C), Stage(m2, y2, f2, {})) /\ x2 \in Takings
  <2>5. R("osd") \in Resources /\ R("osd") # R("irq") /\ R("osd") \notin Buffers
    BY NoBuffers DEF Singles, R, Blinds
  <2>6. Founded(R("osd"), F2)
    BY UserTable, ResourceShapes DEF Founded, Stands, R, Singles, PerAdapter, I2cs, F1, f1, F2
  <2>8. Path("ff", <<x2>>, Stage(M2, X2, F2, C), Stage(m2, y2, f2, {}))
    BY <2>5, <2>6, TryPath DEF x2, m2, y2, f2
  <2>9. x2 \in Takings
    BY <2>8, OneOf DEF Path
  <2> QED BY <2>8, <2>9
<1>q2. Path("ff", k2, Stage(M2, X2, F2, C), Stage(tm2, ty2, tf2, {}))
  BY <1>p2 DEF k2, tm2, ty2, tf2
<1>q1. Path("ff", k1, Stage(M1, X1, F1, C), Stage(tm1, ty1, tf1, {}))
  <2>1. k1 = <<x1>> \o k2
    BY <1>p1, <1>p2, Pair DEF k1, k2
  <2>2. Path("ff", k2, Stage(M1 \cup m1, X1 \cup y1, F1 \cup f1, C), Stage(tm2, ty2, tf2, {}))
    BY <1>q2 DEF M2, X2, F2
  <2>3. Path("ff", <<x1>> \o k2, Stage(M1, X1, F1, C), Stage(m1 \cup tm2, y1 \cup ty2, f1 \cup tf2, {}))
    BY <1>p1, <2>2, PathNext
  <2> QED BY <2>1, <2>3 DEF tm1, ty1, tf1
<1>e. tm1 = {R("audio"), R("osd")} /\ ty1 = {} /\ tf1 = {}
  BY DEF tm1, ty1, tf1, m1, y1, f1, tm2, ty2, tf2, m2, y2, f2
<1> QED BY <1>t, <1>q1, <1>e DEF M1, X1, F1

\* saa716x_ir_init() fails into fail9, and sets its pointer when all is done.
LEMMA FfIrPath ==
  ASSUME NEW M, NEW X, NEW F, NEW C, M \subseteq FfGone9(C), FfAsks7(C) \subseteq X, R("dev") \in F
  PROVE  Path("ff", IrInit(FfFail9), Stage(M, X, F, C), Stage({R("ir")}, {R("ir")}, {R("ir")}, {}))
<1> DEFINE x1 == Take(R("ir"), FfFail9)
           x2 == Plain("point", R("ir"))
           k2 == <<x2>>
           k1 == <<x1, x2>>
           M1 == M
           X1 == X
           F1 == F
           m1 == {R("ir")}
           y1 == {R("ir")}
           f1 == {R("ir")}
           M2 == M1 \cup m1
           X2 == X1 \cup y1
           F2 == F1 \cup f1
           m2 == {}
           y2 == {}
           f2 == {}
           tm2 == m2
           ty2 == y2
           tf2 == f2
           tm1 == m1 \cup tm2
           ty1 == y1 \cup ty2
           tf1 == f1 \cup tf2
<1>t. IrInit(FfFail9) = k1
  BY DEF IrInit
<1> HIDE DEF x1, x2, k2, k1, M1, X1, F1, m1, y1, f1, M2, X2, F2, m2, y2, f2, tm2, ty2, tf2, tm1,
             ty1, tf1
<1>p1. Path("ff", <<x1>>, Stage(M1, X1, F1, C), Stage(m1, y1, f1, {})) /\ x1 \in Takings
  <2>1. Ladder(FfFail9, C, FfGone9(C), FfAsks7(C)) /\ FfFail9 \in Seq(Releases)
    BY FfFail9Ladder DEF Ladder, Rungs
  <2>2. FfAsks7(C) \subseteq X1
    BY DEF R, X1
  <2>3. \A u \in M1 : u \in FfGone9(C) \/ u[1] \in Idle
    BY DEF R, Idle, M1
  <2>4. LadderFits(FfFail9, Stage(M1, X1, F1, C))
    BY <2>1, <2>2, <2>3, LadderFitsIdle
  <2>5. R("ir") \in Resources /\ R("ir") # R("irq") /\ R("ir") \notin Buffers
    BY NoBuffers DEF Singles, R, Blinds
  <2>6. Founded(R("ir"), F1)
    BY UserTable, ResourceShapes DEF Founded, Stands, R, Singles, PerAdapter, I2cs, F1
  <2>8. Path("ff", <<x1>>, Stage(M1, X1, F1, C), Stage(m1, y1, f1, {}))
    BY <2>1, <2>4, <2>5, <2>6, TakePath DEF x1, m1, y1, f1
  <2>9. x1 \in Takings
    BY <2>8, OneOf DEF Path
  <2> QED BY <2>8, <2>9
<1>p2. Path("ff", <<x2>>, Stage(M2, X2, F2, C), Stage(m2, y2, f2, {})) /\ x2 \in Takings
  <2>5. R("ir") \in Resources /\ R("ir") \notin Buffers
    BY NoBuffers DEF Singles, R, Blinds
  <2>6. R("ir") \in F2
    BY DEF F1, f1, F2
  <2>7. R("ir") \in F2 \cap {R("sti"), R("ir")} \cap Cleared(RemoveSteps["ff"])
    BY <2>6, FfCleared
  <2>8. Path("ff", <<x2>>, Stage(M2, X2, F2, C), Stage(m2, y2, f2, {}))
    BY <2>5, <2>7, PointPath DEF x2, m2, y2, f2
  <2>9. x2 \in Takings
    BY <2>8, OneOf DEF Path
  <2> QED BY <2>8, <2>9
<1>q2. Path("ff", k2, Stage(M2, X2, F2, C), Stage(tm2, ty2, tf2, {}))
  BY <1>p2 DEF k2, tm2, ty2, tf2
<1>q1. Path("ff", k1, Stage(M1, X1, F1, C), Stage(tm1, ty1, tf1, {}))
  <2>1. k1 = <<x1>> \o k2
    BY <1>p1, <1>p2, Pair DEF k1, k2
  <2>2. Path("ff", k2, Stage(M1 \cup m1, X1 \cup y1, F1 \cup f1, C), Stage(tm2, ty2, tf2, {}))
    BY <1>q2 DEF M2, X2, F2
  <2>3. Path("ff", <<x1>> \o k2, Stage(M1, X1, F1, C), Stage(m1 \cup tm2, y1 \cup ty2, f1 \cup tf2, {}))
    BY <1>p1, <2>2, PathNext
  <2> QED BY <2>1, <2>3 DEF tm1, ty1, tf1
<1>e. tm1 = {R("ir")} /\ ty1 = {R("ir")} /\ tf1 = {R("ir")}
  BY DEF tm1, ty1, tf1, m1, y1, f1, tm2, ty2, tf2, m2, y2, f2
<1> QED BY <1>t, <1>q1, <1>e DEF M1, X1, F1

\* saa716x_ff_pci_probe() builds.
LEMMA FfBuilds ==
  ASSUME NEW e, e = {}
  PROVE  FfProbe \in Seq(Takings) /\ Builds("ff", FfProbe, Stage(e, e, e, e))
<1> DEFINE D == 0 .. Adapters - 1
           s0 == <<Take(R("dev"), <<>>)>> \o CoreInit
           M0 == CoreGot
           X0 == CoreHas
           F0 == CoreHas
           C0 == e
           t1 == <<TakeQuiet(R("sti"), FfFail3), TakeQuiet(R("iobuf"), FfFail4), Plain("point", R("sti"))>>
           s1 == s0 \o t1
           m1 == {R("sti"), R("iobuf")}
           x1 == {R("sti"), R("iobuf")}
           f1 == {R("sti"), R("iobuf")}
           M1 == M0 \cup m1
           X1 == X0 \cup x1
           F1 == F0 \cup f1
           C1 == e
           t2 == <<Check({"ok", "fail"}, FfFail5)>>
           s2 == s1 \o t2
           m2 == {}
           x2 == {}
           f2 == {}
           M2 == M1 \cup m2
           X2 == X1 \cup x2
           F2 == F1 \cup f2
           C2 == e
           t3 == <<Check({"ok", "fail"}, FfFail5)>>
           s3 == s2 \o t3
           m3 == {}
           x3 == {}
           f3 == {}
           M3 == M2 \cup m3
           X3 == X2 \cup x3
           F3 == F2 \cup f3
           C3 == e
           t4 == DvbInit(FfFail6)
           s4 == s3 \o t4
           m4 == PerAdapter \X D
           x4 == Always \X D
           f4 == Five \X D
           M4 == M3 \cup m4
           X4 == X3 \cup x4
           F4 == F3 \cup f4
           C4 == D
           t5 == <<Check({"ok", "fail", "quiet"}, FfFail6)>>
           s5 == s4 \o t5
           m5 == {}
           x5 == {}
           f5 == {}
           M5 == M4 \cup m5
           X5 == X4 \cup x5
           F5 == F4 \cup f5
           C5 == D
           t6 == FfVideoInit
           s6 == s5 \o t6
           m6 == {R("videodev"), R("fifowq"), R("vbuf")}
           x6 == {R("fifowq")}
           f6 == {}
           M6 == M5 \cup m6
           X6 == X5 \cup x6
           F6 == F5 \cup f6
           C6 == D
           t7 == <<Try(R("audio")), Try(R("osd"))>>
           s7 == s6 \o t7
           m7 == {R("audio"), R("osd")}
           x7 == {}
           f7 == {}
           M7 == M6 \cup m7
           X7 == X6 \cup x7
           F7 == F6 \cup f7
           C7 == D
           t8 == IrInit(FfFail9)
           s8 == s7 \o t8
           m8 == {R("ir")}
           x8 == {R("ir")}
           f8 == {R("ir")}
           M8 == M7 \cup m8
           X8 == X7 \cup x8
           F8 == F7 \cup f8
           C8 == D
<1>1. FfProbe = s8
  BY DEF FfProbe, FpgaInit, St7109Init
<1>2. 0 \in D
  BY AdaptersAssumption
<1>3. Path("ff", s0, Stage(e, e, e, e), Stage(M0, X0, F0, C0))
  BY BeginPath
<1>4. DvbLadder(FfFail6, FfGone5, FfAsks5)
  BY FfFail6Ladder DEF DvbLadder, FfGone6, FfAsks6, Ladder, Rungs
<1>5. RemoveSteps["ff"] = FfRemove
  BY DEF RemoveSteps
<1>6. M0 = Fail3Gone /\ Fail3Asks \subseteq X0 /\ I2cs \subseteq F0 /\ R("dev") \in F0
      /\ R("mmio") \in F0
  BY CoreSets
<1> HIDE DEF M0, X0, F0
<1>h1. M0 \subseteq Fail3Gone /\ Fail3Asks \subseteq X0 /\ R("mmio") \in F0
  BY <1>6
<1>h2. M1 \subseteq FfGone5 /\ FfAsks5 \subseteq X1
  BY <1>6 DEF FfGone5, FfGone4, FfAsks5, FfAsks4
<1>h3. M2 \subseteq FfGone5 /\ FfAsks5 \subseteq X2
  BY <1>h2
<1>h4. DvbBase(M3, X3, F3, FfGone5, FfAsks5)
  <2>1. M3 \subseteq FfGone5 /\ FfAsks5 \subseteq X3 /\ I2cs \subseteq F3 /\ R("mmio") \in F3
    BY <1>h3, <1>6
  <2> HIDE DEF M3, X3, F3
  <2>2. \A u \in FfGone5 : u[1] \notin PerAdapter \cup {"videodev", "audio", "osd"}
    BY FfNames DEF PerAdapter
  <2> QED BY <2>1, <2>2 DEF DvbBase
<1>h5. M4 \subseteq FfGone6(D) /\ FfAsks6(D) \subseteq X4
  BY <1>h3 DEF FfGone6, FfAsks6
<1>h6. R("sti") \in F5 /\ R("iobuf") \in F5 /\ <<"adapter", 0>> \in F5
  BY <1>2 DEF Five
<1>h7. R("sti") \in F6 /\ R("iobuf") \in F6 /\ <<"adapter", 0>> \in F6
  BY <1>h6
<1>h8. M7 \subseteq FfGone9(D) /\ FfAsks7(D) \subseteq X7 /\ R("dev") \in F7
  <2>1. M7 \subseteq FfGone9(D)
    BY <1>h5 DEF FfGone9, FfGone8, FfGone7
  <2>2. FfAsks7(D) \subseteq X7
    BY <1>h5 DEF FfAsks7
  <2>3. R("dev") \in F7
    BY <1>6
  <2> QED BY <2>1, <2>2, <2>3
<1>h9. M8 \subseteq FfGoneAll(D) /\ FfAsksAll(D) \subseteq X8
  BY <1>h8 DEF FfGoneAll, FfAsksAll
<1> HIDE DEF D, s0, C0, t1, s1, M1, X1, F1, C1, t2, s2, M2, X2, F2, C2, t3, s3, M3, X3, F3, C3,
             t4, s4, M4, X4, F4, C4, t5, s5, M5, X5, F5, C5, t6, s6, M6, X6, F6, C6, t7, s7, M7,
             X7, F7, C7, t8, s8, M8, X8, F8, C8
<1>p1. Path("ff", t1, Stage(M0, X0, F0, C0), Stage(m1, x1, f1, {}))
  BY <1>h1, FfDataPath DEF t1, C0
<1>p2. Path("ff", t2, Stage(M1, X1, F1, C1), Stage(m2, x2, f2, {}))
  BY <1>h2, FfFirmwarePath DEF t2, C1
<1>p3. Path("ff", t3, Stage(M2, X2, F2, C2), Stage(m3, x3, f3, {}))
  BY <1>h3, FfFirmwarePath DEF t3, C2
<1>p4. Path("ff", t4, Stage(M3, X3, F3, C3), Stage(m4, x4, f4, D))
  BY <1>4, <1>h4, DvbInitPath DEF t4, C3, D
<1>p5. Path("ff", t5, Stage(M4, X4, F4, C4), Stage(m5, x5, f5, {}))
  BY <1>h5, FfBootPath DEF t5, C4
<1>p6. Path("ff", t6, Stage(M5, X5, F5, C5), Stage(m6, x6, f6, {}))
  BY <1>h6, FfVideoInitPath DEF t6, C5
<1>p7. Path("ff", t7, Stage(M6, X6, F6, C6), Stage(m7, x7, f7, {}))
  BY <1>h7, FfNodesPath DEF t7, C6
<1>p8. Path("ff", t8, Stage(M7, X7, F7, C7), Stage(m8, x8, f8, {}))
  BY <1>h8, FfIrPath DEF t8, C7
<1> HIDE DEF m1, x1, f1, m2, x2, f2, m3, x3, f3, m4, x4, f4, m5, x5, f5, m6, x6, f6, m7, x7, f7,
             m8, x8, f8
<1>7. e \cup M0 = M0 /\ e \cup X0 = X0 /\ e \cup F0 = F0
  OBVIOUS
<1>q1. Path("ff", s1, Stage(e, e, e, e), Stage(M1, X1, F1, C1))
  <2>1. e \cup M0 = M0 /\ e \cup X0 = X0 /\ e \cup F0 = F0 /\ e \cup C0 = C0
    OBVIOUS
  <2> DEFINE c == {}
  <2>2. Path("ff", t1, Stage(e \cup M0, e \cup X0, e \cup F0, e \cup C0), Stage(m1, x1, f1, c))
    BY <1>p1, <2>1
  <2>3. C0 \cup c = C1
    BY DEF C0, C1
  <2> HIDE DEF c
  <2>4. Path("ff", s0 \o t1, Stage(e, e, e, e), Stage(M0 \cup m1, X0 \cup x1, F0 \cup f1, C0 \cup c))
    BY <1>3, <2>2, PathThen
  <2> QED BY <2>3, <2>4 DEF s1, M1, X1, F1
<1>q2. Path("ff", s2, Stage(e, e, e, e), Stage(M2, X2, F2, C2))
  <2>1. e \cup M1 = M1 /\ e \cup X1 = X1 /\ e \cup F1 = F1 /\ e \cup C1 = C1
    OBVIOUS
  <2> DEFINE c == {}
  <2>2. Path("ff", t2, Stage(e \cup M1, e \cup X1, e \cup F1, e \cup C1), Stage(m2, x2, f2, c))
    BY <1>p2, <2>1
  <2>3. C1 \cup c = C2
    BY DEF C1, C2
  <2> HIDE DEF c
  <2>4. Path("ff", s1 \o t2, Stage(e, e, e, e), Stage(M1 \cup m2, X1 \cup x2, F1 \cup f2, C1 \cup c))
    BY <1>q1, <2>2, PathThen
  <2> QED BY <2>3, <2>4 DEF s2, M2, X2, F2
<1>q3. Path("ff", s3, Stage(e, e, e, e), Stage(M3, X3, F3, C3))
  <2>1. e \cup M2 = M2 /\ e \cup X2 = X2 /\ e \cup F2 = F2 /\ e \cup C2 = C2
    OBVIOUS
  <2> DEFINE c == {}
  <2>2. Path("ff", t3, Stage(e \cup M2, e \cup X2, e \cup F2, e \cup C2), Stage(m3, x3, f3, c))
    BY <1>p3, <2>1
  <2>3. C2 \cup c = C3
    BY DEF C2, C3
  <2> HIDE DEF c
  <2>4. Path("ff", s2 \o t3, Stage(e, e, e, e), Stage(M2 \cup m3, X2 \cup x3, F2 \cup f3, C2 \cup c))
    BY <1>q2, <2>2, PathThen
  <2> QED BY <2>3, <2>4 DEF s3, M3, X3, F3
<1>q4. Path("ff", s4, Stage(e, e, e, e), Stage(M4, X4, F4, C4))
  <2>1. e \cup M3 = M3 /\ e \cup X3 = X3 /\ e \cup F3 = F3 /\ e \cup C3 = C3
    OBVIOUS
  <2> DEFINE c == D
  <2>2. Path("ff", t4, Stage(e \cup M3, e \cup X3, e \cup F3, e \cup C3), Stage(m4, x4, f4, c))
    BY <1>p4, <2>1
  <2>3. C3 \cup c = C4
    BY DEF C3, C4
  <2> HIDE DEF c
  <2>4. Path("ff", s3 \o t4, Stage(e, e, e, e), Stage(M3 \cup m4, X3 \cup x4, F3 \cup f4, C3 \cup c))
    BY <1>q3, <2>2, PathThen
  <2> QED BY <2>3, <2>4 DEF s4, M4, X4, F4
<1>q5. Path("ff", s5, Stage(e, e, e, e), Stage(M5, X5, F5, C5))
  <2>1. e \cup M4 = M4 /\ e \cup X4 = X4 /\ e \cup F4 = F4 /\ e \cup C4 = C4
    OBVIOUS
  <2> DEFINE c == {}
  <2>2. Path("ff", t5, Stage(e \cup M4, e \cup X4, e \cup F4, e \cup C4), Stage(m5, x5, f5, c))
    BY <1>p5, <2>1
  <2>3. C4 \cup c = C5
    BY DEF C4, C5
  <2> HIDE DEF c
  <2>4. Path("ff", s4 \o t5, Stage(e, e, e, e), Stage(M4 \cup m5, X4 \cup x5, F4 \cup f5, C4 \cup c))
    BY <1>q4, <2>2, PathThen
  <2> QED BY <2>3, <2>4 DEF s5, M5, X5, F5
<1>q6. Path("ff", s6, Stage(e, e, e, e), Stage(M6, X6, F6, C6))
  <2>1. e \cup M5 = M5 /\ e \cup X5 = X5 /\ e \cup F5 = F5 /\ e \cup C5 = C5
    OBVIOUS
  <2> DEFINE c == {}
  <2>2. Path("ff", t6, Stage(e \cup M5, e \cup X5, e \cup F5, e \cup C5), Stage(m6, x6, f6, c))
    BY <1>p6, <2>1
  <2>3. C5 \cup c = C6
    BY DEF C5, C6
  <2> HIDE DEF c
  <2>4. Path("ff", s5 \o t6, Stage(e, e, e, e), Stage(M5 \cup m6, X5 \cup x6, F5 \cup f6, C5 \cup c))
    BY <1>q5, <2>2, PathThen
  <2> QED BY <2>3, <2>4 DEF s6, M6, X6, F6
<1>q7. Path("ff", s7, Stage(e, e, e, e), Stage(M7, X7, F7, C7))
  <2>1. e \cup M6 = M6 /\ e \cup X6 = X6 /\ e \cup F6 = F6 /\ e \cup C6 = C6
    OBVIOUS
  <2> DEFINE c == {}
  <2>2. Path("ff", t7, Stage(e \cup M6, e \cup X6, e \cup F6, e \cup C6), Stage(m7, x7, f7, c))
    BY <1>p7, <2>1
  <2>3. C6 \cup c = C7
    BY DEF C6, C7
  <2> HIDE DEF c
  <2>4. Path("ff", s6 \o t7, Stage(e, e, e, e), Stage(M6 \cup m7, X6 \cup x7, F6 \cup f7, C6 \cup c))
    BY <1>q6, <2>2, PathThen
  <2> QED BY <2>3, <2>4 DEF s7, M7, X7, F7
<1>q8. Path("ff", s8, Stage(e, e, e, e), Stage(M8, X8, F8, C8))
  <2>1. e \cup M7 = M7 /\ e \cup X7 = X7 /\ e \cup F7 = F7 /\ e \cup C7 = C7
    OBVIOUS
  <2> DEFINE c == {}
  <2>2. Path("ff", t8, Stage(e \cup M7, e \cup X7, e \cup F7, e \cup C7), Stage(m8, x8, f8, c))
    BY <1>p8, <2>1
  <2>3. C7 \cup c = C8
    BY DEF C7, C8
  <2> HIDE DEF c
  <2>4. Path("ff", s7 \o t8, Stage(e, e, e, e), Stage(M7 \cup m8, X7 \cup x8, F7 \cup f8, C7 \cup c))
    BY <1>q7, <2>2, PathThen
  <2> QED BY <2>3, <2>4 DEF s8, M8, X8, F8
<1>8. Ends("ff", Stage(M8, X8, F8, C8))
  <2>1. Ladder(FfRemove, C8, FfGoneAll(D), FfAsksAll(D))
    BY FfRemoveLadder DEF C8
  <2> QED BY <1>5, <1>h9, <2>1, EndsWith
<1>9. Plus(Stage(e, e, e, e), Stage(M8, X8, F8, C8)) = Stage(M8, X8, F8, C8)
  BY DEF Plus, Stage
<1> QED BY <1>1, <1>q8, <1>8, <1>9, PathBuilds

-----------------------------------------------------------------------------
(* The DMA buffers of the capture card.                                    *)

\* All that a DMA buffer of a unit consists of.
Full(unit) == IF unit = "vip" THEN {"page", "ptab"} ELSE Parts

\* All of the buffers before p, and a page or a list of buffer p, are what
\* the labels forget of a unit.
LEMMA ForgottenBuffers ==
  ASSUME NEW S, NEW unit \in {"vip", "aip"}, NEW p \in 1 .. DmaBuffers,
         NEW L \in {{}, {"page"}, {"list"}}, NEW H,
         H = (Full(unit) \X {unit} \X (1 .. p - 1)) \cup (L \X {unit} \X {p}),
         H \subseteq S, \A u \in S : u[1] \in Idle \/ u \in H
  PROVE  Forgotten(S)
<1>1. DmaBuffers \in Nat
  BY DmaBuffersAssumption
<1>2. Full(unit) \subseteq Parts /\ L \subseteq Parts
  BY DEF Full, Parts
<1>3. \A r \in S : r[1] \in {"wq", "net", "client", "msix"} \cup Parts
  <2>1. \A r \in H : r[1] \in Parts
    BY <1>2
  <2> QED BY <2>1 DEF Idle
<1>4. \A q \in Parts : \A u, n : <<q, u, n>> \in S <=> <<q, u, n>> \in H
  <2>1. \A q \in Parts : \A u, n : <<q, u, n>>[1] \notin Idle
    BY DEF Parts, Idle
  <2> QED BY <2>1
<1>5. \A q \in Parts : \A u, n : <<q, u, n>> \in H <=>
         u = unit /\ ((n \in 1 .. p - 1 /\ q \in Full(unit)) \/ (n = p /\ q \in L))
  OBVIOUS
<1>6. ASSUME NEW n \in 1 .. DmaBuffers
      PROVE  /\ \A u \in {"vip", "aip"} \ {unit} : {q \in Parts : <<q, u, n>> \in S} = {}
             /\ {q \in Parts : <<q, unit, n>> \in S}
                  \in {{}, {"page"}, {"list"}, IF unit = "vip" THEN {"page", "ptab"} ELSE Parts}
  <2>1. \A u \in {"vip", "aip"} \ {unit} : {q \in Parts : <<q, u, n>> \in S} = {}
    BY <1>4, <1>5
  <2> DEFINE left == {q \in Parts : <<q, unit, n>> \in S}
  <2>2. left = {q \in Parts : (n \in 1 .. p - 1 /\ q \in Full(unit)) \/ (n = p /\ q \in L)}
    BY <1>4, <1>5
  <2> HIDE DEF left
  <2>3. CASE n \in 1 .. p - 1
    <3>1. n # p
      BY <2>3
    <3>2. left = Full(unit)
      BY <1>2, <2>2, <2>3, <3>1
    <3> QED BY <2>1, <3>2 DEF Full, left
  <2>4. CASE n = p
    <3>1. n \notin 1 .. p - 1
      BY <2>4
    <3>2. left = L
      BY <1>2, <2>2, <2>4, <3>1
    <3> QED BY <2>1, <3>2 DEF left
  <2>5. CASE n \notin 1 .. p
    <3>1. n # p /\ n \notin 1 .. p - 1
      BY <2>5
    <3>2. left = {}
      BY <2>2, <3>1
    <3> QED BY <2>1, <3>2 DEF left
  <2> QED BY <1>1, <2>3, <2>4, <2>5
<1> QED BY <1>3, <1>6 DEF Forgotten

\* A failure at buffer p, after which a ladder that gives back G leaves H.
BufferStop(M, G, H, unit, p, L) ==
  /\ unit \in {"vip", "aip"} /\ p \in 1 .. DmaBuffers /\ L \in {{}, {"page"}, {"list"}}
  /\ H = (Full(unit) \X {unit} \X (1 .. p - 1)) \cup (L \X {unit} \X {p})
  /\ H \subseteq M
  /\ \A u \in H : u \notin G
  /\ \A u \in M : u \in G \/ u[1] \in Idle \/ u \in H
  /\ \A u \in H, d \in G : ~Uses(u, d)

\* Such a ladder fits.
LEMMA LadderFitsBuffers ==
  ASSUME NEW s, NEW G, NEW A, NEW M, NEW X, NEW F, NEW C, Ladder(s, C, G, A), A \subseteq X,
         NEW unit, NEW p, NEW L, NEW H, BufferStop(M, G, H, unit, p, L)
  PROVE  LadderFits(s, Stage(M, X, F, C))
<1>1. /\ NoUncount(s) /\ s \in Seq(Releases) /\ \A n \in 1 .. Len(s) : WellFormed(s[n])
      /\ Orderly(s, C) /\ Gone(s, C) = G /\ Asked(s, C) \subseteq X
  BY DEF Ladder, Rungs
<1>2. Unwinds(s, M, X, C)
  <2>1. ASSUME NEW u \in M, NEW d \in G, Uses(u, d) PROVE u \in G
    BY <2>1, IdleUses DEF BufferStop
  <2> QED BY <1>1, <2>1 DEF Unwinds
<1>3. Forgotten(M \ G)
  <2>1. H \subseteq M \ G /\ \A u \in M \ G : u[1] \in Idle \/ u \in H
    BY DEF BufferStop
  <2> QED BY <2>1, ForgottenBuffers DEF BufferStop
<1> QED BY <1>1, <1>2, <1>3 DEF LadderFits, Stage

\* saa716x_allocate_ptable() for buffer p fits: the buffers before it stay
\* when it fails, and so does the page.
LEMMA AllocatePtablePath ==
  ASSUME NEW crd, NEW unit \in {"vip", "aip"}, NEW p \in 1 .. DmaBuffers, NEW undo \in Seq(Releases),
         NEW M, NEW X, NEW F, NEW C, NEW G, NEW A, Ladder(undo, C, G, A), A \subseteq X,
         NEW H, H = Full(unit) \X {unit} \X (1 .. p - 1), H \subseteq M,
         \A u \in M : u \in G \/ u[1] \in Idle \/ u \in H,
         \A u \in Parts \X {unit} \X (1 .. DmaBuffers), d \in G : u # d /\ ~Uses(u, d)
  PROVE  Path(crd, AllocatePtable(Buf(unit, p), undo), Stage(M, X, F, C), Stage(({"page",
           "ptab"} \X {unit} \X {p}), ({"page", "ptab"} \X {unit} \X {p}), ({"page",
           "ptab"} \X {unit} \X {p}), {}))
<1> DEFINE x1 == Take(<<"page", unit, p>>, undo)
           x2 == Take(<<"ptab", unit, p>>, undo)
           k2 == <<x2>>
           k1 == <<x1, x2>>
           M1 == M
           X1 == X
           F1 == F
           m1 == {<<"page", unit, p>>}
           y1 == {<<"page", unit, p>>}
           f1 == {<<"page", unit, p>>}
           M2 == M1 \cup m1
           X2 == X1 \cup y1
           F2 == F1 \cup f1
           m2 == {<<"ptab", unit, p>>}
           y2 == {<<"ptab", unit, p>>}
           f2 == {<<"ptab", unit, p>>}
           tm2 == m2
           ty2 == y2
           tf2 == f2
           tm1 == m1 \cup tm2
           ty1 == y1 \cup ty2
           tf1 == f1 \cup tf2
<1> DEFINE Z == Parts \X {unit} \X (1 .. DmaBuffers)
<1>z. \A u \in Z, d \in G : u # d /\ ~Uses(u, d)
  OBVIOUS
<1> HIDE DEF Z
<1>t. AllocatePtable(Buf(unit, p), undo) = k1
  BY PartNames DEF AllocatePtable
<1> HIDE DEF x1, x2, k2, k1, M1, X1, F1, m1, y1, f1, M2, X2, F2, m2, y2, f2, tm2, ty2, tf2, tm1,
             ty1, tf1
<1>p1. Path(crd, <<x1>>, Stage(M1, X1, F1, C), Stage(m1, y1, f1, {})) /\ x1 \in Takings
  <2>1. Ladder(undo, C, G, A) /\ undo \in Seq(Releases)
    BY PartNames DEF Ladder, Rungs
  <2>2. A \subseteq X1
    BY DEF R, X1
  <2> DEFINE L == {}
             K == H \cup (L \X {unit} \X {p})
             Q == G
  <2>a. L \in {{}, {"page"}, {"list"}} /\ K \subseteq M1
    BY DEF M1
  <2>p. DmaBuffers \in Nat
    BY DmaBuffersAssumption
  <2>b. \A u \in K : u \in Z
    BY <2>p DEF Full, Parts, Z
  <2>g. (\A u \in K : u \notin G) /\ \A u \in K, d \in G : ~Uses(u, d)
    <3> HIDE DEF K
    <3> QED BY <2>b, <1>z
  <2>c. (\A u \in K : u \notin Q) /\ \A u \in K, d \in Q : ~Uses(u, d)
    BY <2>g
  <2>3. \A u \in M1 : u \in Q \/ u[1] \in Idle \/ u \in K
    BY DEF M1
  <2>e. K = (Full(unit) \X {unit} \X (1 .. p - 1)) \cup (L \X {unit} \X {p})
    OBVIOUS
  <2>f. Ladder(undo, C, Q, A)
    BY <2>1
  <2> HIDE DEF L, Q, K
  <2>4. LadderFits(undo, Stage(M1, X1, F1, C))
    <3>1. BufferStop(M1, Q, K, unit, p, L)
      BY <2>3, <2>a, <2>c, <2>e DEF BufferStop
    <3> QED BY <2>2, <2>f, <3>1, LadderFitsBuffers
  <2>5. <<"page", unit, p>> \in Resources /\ <<"page", unit, p>> # R("irq")
    BY PartNames DEF Parts, R
  <2>6. Founded(<<"page", unit, p>>, F1)
    BY UserTable, ResourceShapes DEF Founded, Stands, R, Singles, PerAdapter, I2cs, Parts, F1
  <2>8. Path(crd, <<x1>>, Stage(M1, X1, F1, C), Stage(m1, y1, f1, {}))
    BY <2>1, <2>4, <2>5, <2>6, TakePath DEF x1, m1, y1, f1
  <2>9. x1 \in Takings
    BY <2>8, OneOf DEF Path
  <2> QED BY <2>8, <2>9
<1>p2. Path(crd, <<x2>>, Stage(M2, X2, F2, C), Stage(m2, y2, f2, {})) /\ x2 \in Takings
  <2>1. Ladder(undo, C, G, A) /\ undo \in Seq(Releases)
    BY PartNames DEF Ladder, Rungs
  <2>2. A \subseteq X2
    BY DEF R, X1, y1, X2
  <2> DEFINE L == {"page"}
             K == H \cup (L \X {unit} \X {p})
             Q == G
  <2>a. L \in {{}, {"page"}, {"list"}} /\ K \subseteq M2
    BY DEF M1, m1, M2
  <2>p. DmaBuffers \in Nat
    BY DmaBuffersAssumption
  <2>b. \A u \in K : u \in Z
    BY <2>p DEF Full, Parts, Z
  <2>g. (\A u \in K : u \notin G) /\ \A u \in K, d \in G : ~Uses(u, d)
    <3> HIDE DEF K
    <3> QED BY <2>b, <1>z
  <2>c. (\A u \in K : u \notin Q) /\ \A u \in K, d \in Q : ~Uses(u, d)
    BY <2>g
  <2>3. \A u \in M2 : u \in Q \/ u[1] \in Idle \/ u \in K
    BY DEF M1, m1, M2
  <2>e. K = (Full(unit) \X {unit} \X (1 .. p - 1)) \cup (L \X {unit} \X {p})
    OBVIOUS
  <2>f. Ladder(undo, C, Q, A)
    BY <2>1
  <2> HIDE DEF L, Q, K
  <2>4. LadderFits(undo, Stage(M2, X2, F2, C))
    <3>1. BufferStop(M2, Q, K, unit, p, L)
      BY <2>3, <2>a, <2>c, <2>e DEF BufferStop
    <3> QED BY <2>2, <2>f, <3>1, LadderFitsBuffers
  <2>5. <<"ptab", unit, p>> \in Resources /\ <<"ptab", unit, p>> # R("irq")
    BY PartNames DEF Parts, R
  <2>6. Founded(<<"ptab", unit, p>>, F2)
    BY UserTable, ResourceShapes DEF Founded, Stands, R, Singles, PerAdapter, I2cs, Parts, F1,
       f1, F2
  <2>8. Path(crd, <<x2>>, Stage(M2, X2, F2, C), Stage(m2, y2, f2, {}))
    BY <2>1, <2>4, <2>5, <2>6, TakePath DEF x2, m2, y2, f2
  <2>9. x2 \in Takings
    BY <2>8, OneOf DEF Path
  <2> QED BY <2>8, <2>9
<1>q2. Path(crd, k2, Stage(M2, X2, F2, C), Stage(tm2, ty2, tf2, {}))
  BY <1>p2 DEF k2, tm2, ty2, tf2
<1>q1. Path(crd, k1, Stage(M1, X1, F1, C), Stage(tm1, ty1, tf1, {}))
  <2>1. k1 = <<x1>> \o k2
    BY <1>p1, <1>p2, Pair DEF k1, k2
  <2>2. Path(crd, k2, Stage(M1 \cup m1, X1 \cup y1, F1 \cup f1, C), Stage(tm2, ty2, tf2, {}))
    BY <1>q2 DEF M2, X2, F2
  <2>3. Path(crd, <<x1>> \o k2, Stage(M1, X1, F1, C), Stage(m1 \cup tm2, y1 \cup ty2, f1 \cup tf2, {}))
    BY <1>p1, <2>2, PathNext
  <2> QED BY <2>1, <2>3 DEF tm1, ty1, tf1
<1>e. tm1 = ({"page", "ptab"} \X {unit} \X {p}) /\ ty1 = ({"page", "ptab"} \X {unit} \X {p})
        /\ tf1 = ({"page", "ptab"} \X {unit} \X {p})
  BY DEF tm1, ty1, tf1, m1, y1, f1, tm2, ty2, tf2, m2, y2, f2
<1> QED BY <1>t, <1>q1, <1>e DEF M1, X1, F1

\* saa716x_dmabuf_sgalloc() for buffer p fits: its page tables go when it
\* fails, the list and the buffers before it stay.
LEMMA SgAllocPath ==
  ASSUME NEW crd, NEW unit \in {"vip", "aip"}, NEW p \in 1 .. DmaBuffers, NEW undo \in Seq(Releases),
         NEW M, NEW X, NEW F, NEW C, NEW G, NEW A, Ladder(undo, C, G, A), A \subseteq X,
         unit = "aip",
         NEW H, H = Full(unit) \X {unit} \X (1 .. p - 1), H \subseteq M,
         {"page", "ptab"} \X {unit} \X {p} \subseteq M,
         \A u \in M : u \in G \/ u[1] \in Idle \/ u \in H \/ u \in {"page", "ptab"} \X {unit} \X {p},
         \A u \in Parts \X {unit} \X (1 .. DmaBuffers), d \in G : u # d /\ ~Uses(u, d),
         \A u \in G, d \in {"page", "ptab"} \X {unit} \X {p} : ~Uses(u, d)
  PROVE  Path(crd, SgAlloc(Buf(unit, p), FreePtable(Buf(unit, p)) \o undo), Stage(M, X, F, C),
           Stage(({"list", "mem"} \X {unit} \X {p}), ({"list", "mem"} \X {unit} \X {p}),
           ({"list", "mem"} \X {unit} \X {p}), {}))
<1> DEFINE x1 == Take(<<"list", unit, p>>, (FreePtable(Buf(unit, p)) \o undo))
           x2 == Take(<<"mem", unit, p>>, (FreePtable(Buf(unit, p)) \o undo))
           k2 == <<x2>>
           k1 == <<x1, x2>>
           M1 == M
           X1 == X
           F1 == F
           m1 == {<<"list", unit, p>>}
           y1 == {<<"list", unit, p>>}
           f1 == {<<"list", unit, p>>}
           M2 == M1 \cup m1
           X2 == X1 \cup y1
           F2 == F1 \cup f1
           m2 == {<<"mem", unit, p>>}
           y2 == {<<"mem", unit, p>>}
           f2 == {<<"mem", unit, p>>}
           tm2 == m2
           ty2 == y2
           tf2 == f2
           tm1 == m1 \cup tm2
           ty1 == y1 \cup ty2
           tf1 == f1 \cup tf2
<1> DEFINE Z == Parts \X {unit} \X (1 .. DmaBuffers)
<1>z. \A u \in Z, d \in G : u # d /\ ~Uses(u, d)
  OBVIOUS
<1> HIDE DEF Z
<1>l. Ladder((FreePtable(Buf(unit, p)) \o undo), C, (({"page", "ptab"} \X {unit} \X {p}) \cup G), A)
  <2> DEFINE K == {"page", "ptab"} \X {unit} \X {p}
             e == {}
  <2>1. Ladder(FreePtable(Buf(unit, p)), C, K, e)
    BY FreePtableLadder
  <2>2. \A d \in K : d \notin G
    BY DEF Parts
  <2>3. K \cap G = {} /\ \A u \in G, d \in K : ~Uses(u, d)
    BY <2>2
  <2>4. e \cup A = A
    OBVIOUS
  <2> HIDE DEF K, e
  <2>5. Ladder(FreePtable(Buf(unit, p)) \o undo, C, K \cup G, e \cup A)
    BY <2>1, <2>3, LadderConcat
  <2> QED BY <2>4, <2>5 DEF K
<1>t. SgAlloc(Buf(unit, p), FreePtable(Buf(unit, p)) \o undo) = k1
  BY PartNames DEF SgAlloc
<1> HIDE DEF x1, x2, k2, k1, M1, X1, F1, m1, y1, f1, M2, X2, F2, m2, y2, f2, tm2, ty2, tf2, tm1,
             ty1, tf1
<1>p1. Path(crd, <<x1>>, Stage(M1, X1, F1, C), Stage(m1, y1, f1, {})) /\ x1 \in Takings
  <2>1. Ladder((FreePtable(Buf(unit, p)) \o undo), C, (({"page",
          "ptab"} \X {unit} \X {p}) \cup G), A)
          /\ (FreePtable(Buf(unit, p)) \o undo) \in Seq(Releases)
    BY <1>l DEF Ladder, Rungs
  <2>2. A \subseteq X1
    BY DEF R, X1
  <2> DEFINE L == {}
             K == H \cup (L \X {unit} \X {p})
             Q == (({"page", "ptab"} \X {unit} \X {p}) \cup G)
  <2>a. L \in {{}, {"page"}, {"list"}} /\ K \subseteq M1
    BY DEF M1
  <2>p. DmaBuffers \in Nat
    BY DmaBuffersAssumption
  <2>b. \A u \in K : u \in Z
    BY <2>p DEF Full, Parts, Z
  <2>g. (\A u \in K : u \notin G) /\ \A u \in K, d \in G : ~Uses(u, d)
    <3> HIDE DEF K
    <3> QED BY <2>b, <1>z
  <2>h. \A u \in K : u[1] \in Parts
    BY <2>p DEF Full, Parts
  <2>i. \A u \in K : u[1] \in {"page", "ptab"} => u[3] # p
    BY <2>p DEF Full, Parts
  <2>c. (\A u \in K : u \notin Q) /\ \A u \in K, d \in Q : ~Uses(u, d)
    <3> DEFINE I == {"page", "ptab"} \X {unit} \X {p}
    <3>1. \A u \in K, d \in I : ~Stands(u, d)
      <4>1. \A d \in I : d[3] = p /\ d[1] \in {"page", "ptab"}
        OBVIOUS
      <4> HIDE DEF K, I
      <4> QED BY <4>1, <2>h, <2>i DEF Stands, Parts
    <3>2. \A u \in K : u \notin I
      <4>1. \A d \in I : d[3] = p /\ d[1] \in {"page", "ptab"}
        OBVIOUS
      <4> HIDE DEF K, I
      <4> QED BY <4>1, <2>i
    <3>4. \A d \in Q : d \in I \/ d \in G
      OBVIOUS
    <3> HIDE DEF Q, K, I
    <3> QED BY <3>1, <3>2, <2>g, <3>4, UserTable
  <2>3. \A u \in M1 : u \in Q \/ u[1] \in Idle \/ u \in K
    BY DEF M1
  <2>e. K = (Full(unit) \X {unit} \X (1 .. p - 1)) \cup (L \X {unit} \X {p})
    OBVIOUS
  <2>f. Ladder((FreePtable(Buf(unit, p)) \o undo), C, Q, A)
    BY <2>1
  <2> HIDE DEF L, Q, K
  <2>4. LadderFits((FreePtable(Buf(unit, p)) \o undo), Stage(M1, X1, F1, C))
    <3>1. BufferStop(M1, Q, K, unit, p, L)
      BY <2>3, <2>a, <2>c, <2>e DEF BufferStop
    <3> QED BY <2>2, <2>f, <3>1, LadderFitsBuffers
  <2>5. <<"list", unit, p>> \in Resources /\ <<"list", unit, p>> # R("irq")
    BY PartNames DEF Parts, R
  <2>6. Founded(<<"list", unit, p>>, F1)
    BY UserTable, ResourceShapes DEF Founded, Stands, R, Singles, PerAdapter, I2cs, Parts, F1
  <2>8. Path(crd, <<x1>>, Stage(M1, X1, F1, C), Stage(m1, y1, f1, {}))
    BY <2>1, <2>4, <2>5, <2>6, TakePath DEF x1, m1, y1, f1
  <2>9. x1 \in Takings
    BY <2>8, OneOf DEF Path
  <2> QED BY <2>8, <2>9
<1>p2. Path(crd, <<x2>>, Stage(M2, X2, F2, C), Stage(m2, y2, f2, {})) /\ x2 \in Takings
  <2>1. Ladder((FreePtable(Buf(unit, p)) \o undo), C, (({"page",
          "ptab"} \X {unit} \X {p}) \cup G), A)
          /\ (FreePtable(Buf(unit, p)) \o undo) \in Seq(Releases)
    BY <1>l DEF Ladder, Rungs
  <2>2. A \subseteq X2
    BY DEF R, X1, y1, X2
  <2> DEFINE L == {"list"}
             K == H \cup (L \X {unit} \X {p})
             Q == (({"page", "ptab"} \X {unit} \X {p}) \cup G)
  <2>a. L \in {{}, {"page"}, {"list"}} /\ K \subseteq M2
    BY DEF M1, m1, M2
  <2>p. DmaBuffers \in Nat
    BY DmaBuffersAssumption
  <2>b. \A u \in K : u \in Z
    BY <2>p DEF Full, Parts, Z
  <2>g. (\A u \in K : u \notin G) /\ \A u \in K, d \in G : ~Uses(u, d)
    <3> HIDE DEF K
    <3> QED BY <2>b, <1>z
  <2>h. \A u \in K : u[1] \in Parts
    BY <2>p DEF Full, Parts
  <2>i. \A u \in K : u[1] \in {"page", "ptab"} => u[3] # p
    BY <2>p DEF Full, Parts
  <2>c. (\A u \in K : u \notin Q) /\ \A u \in K, d \in Q : ~Uses(u, d)
    <3> DEFINE I == {"page", "ptab"} \X {unit} \X {p}
    <3>1. \A u \in K, d \in I : ~Stands(u, d)
      <4>1. \A d \in I : d[3] = p /\ d[1] \in {"page", "ptab"}
        OBVIOUS
      <4> HIDE DEF K, I
      <4> QED BY <4>1, <2>h, <2>i DEF Stands, Parts
    <3>2. \A u \in K : u \notin I
      <4>1. \A d \in I : d[3] = p /\ d[1] \in {"page", "ptab"}
        OBVIOUS
      <4> HIDE DEF K, I
      <4> QED BY <4>1, <2>i
    <3>4. \A d \in Q : d \in I \/ d \in G
      OBVIOUS
    <3> HIDE DEF Q, K, I
    <3> QED BY <3>1, <3>2, <2>g, <3>4, UserTable
  <2>3. \A u \in M2 : u \in Q \/ u[1] \in Idle \/ u \in K
    BY DEF M1, m1, M2
  <2>e. K = (Full(unit) \X {unit} \X (1 .. p - 1)) \cup (L \X {unit} \X {p})
    OBVIOUS
  <2>f. Ladder((FreePtable(Buf(unit, p)) \o undo), C, Q, A)
    BY <2>1
  <2> HIDE DEF L, Q, K
  <2>4. LadderFits((FreePtable(Buf(unit, p)) \o undo), Stage(M2, X2, F2, C))
    <3>1. BufferStop(M2, Q, K, unit, p, L)
      BY <2>3, <2>a, <2>c, <2>e DEF BufferStop
    <3> QED BY <2>2, <2>f, <3>1, LadderFitsBuffers
  <2>5. <<"mem", unit, p>> \in Resources /\ <<"mem", unit, p>> # R("irq")
    BY PartNames DEF Parts, R
  <2>6. Founded(<<"mem", unit, p>>, F2)
    BY UserTable, ResourceShapes DEF Founded, Stands, R, Singles, PerAdapter, I2cs, Parts, F1,
       f1, F2
  <2>8. Path(crd, <<x2>>, Stage(M2, X2, F2, C), Stage(m2, y2, f2, {}))
    BY <2>1, <2>4, <2>5, <2>6, TakePath DEF x2, m2, y2, f2
  <2>9. x2 \in Takings
    BY <2>8, OneOf DEF Path
  <2> QED BY <2>8, <2>9
<1>q2. Path(crd, k2, Stage(M2, X2, F2, C), Stage(tm2, ty2, tf2, {}))
  BY <1>p2 DEF k2, tm2, ty2, tf2
<1>q1. Path(crd, k1, Stage(M1, X1, F1, C), Stage(tm1, ty1, tf1, {}))
  <2>1. k1 = <<x1>> \o k2
    BY <1>p1, <1>p2, Pair DEF k1, k2
  <2>2. Path(crd, k2, Stage(M1 \cup m1, X1 \cup y1, F1 \cup f1, C), Stage(tm2, ty2, tf2, {}))
    BY <1>q2 DEF M2, X2, F2
  <2>3. Path(crd, <<x1>> \o k2, Stage(M1, X1, F1, C), Stage(m1 \cup tm2, y1 \cup ty2, f1 \cup tf2, {}))
    BY <1>p1, <2>2, PathNext
  <2> QED BY <2>1, <2>3 DEF tm1, ty1, tf1
<1>e. tm1 = ({"list", "mem"} \X {unit} \X {p}) /\ ty1 = ({"list", "mem"} \X {unit} \X {p})
        /\ tf1 = ({"list", "mem"} \X {unit} \X {p})
  BY DEF tm1, ty1, tf1, m1, y1, f1, tm2, ty2, tf2, m2, y2, f2
<1> QED BY <1>t, <1>q1, <1>e DEF M1, X1, F1

-----------------------------------------------------------------------------
(* The loops of saa716x_vip_init2() and saa716x_aip_init2().               *)

\* The labels give back nothing of the buffers of the unit that has just failed.
LEMMA BuffersApart ==
  /\ \A u \in Parts \X {"vip"} \X (1 .. DmaBuffers), d \in Fail3Gone : u # d /\ ~Uses(u, d)
  /\ \A u \in Parts \X {"aip"} \X (1 .. DmaBuffers), d \in Fail4Gone : u # d /\ ~Uses(u, d)
  /\ \A u \in Fail4Gone, d \in Parts \X {"aip"} \X (1 .. DmaBuffers) : ~Uses(u, d)
<1>1. \A unit : \A u \in Parts \X {unit} \X (1 .. DmaBuffers) : u[1] \in Parts /\ u[2] = unit
  OBVIOUS
<1>2. \A u \in Parts \X {"vip"} \X (1 .. DmaBuffers), d \in Fail3Gone : u # d /\ ~Stands(u, d)
  BY <1>1, GoneNames DEF Stands, Parts
<1>3. \A u \in Parts \X {"aip"} \X (1 .. DmaBuffers), d \in Fail4Gone : u # d /\ ~Stands(u, d)
  BY <1>1, GoneNames DEF Stands, Parts, Fail4Gone
<1>4. \A u \in Fail4Gone, d \in Parts \X {"aip"} \X (1 .. DmaBuffers) : ~Stands(u, d)
  BY <1>1, GoneNames DEF Stands, Parts, Fail4Gone
<1> QED BY <1>2, <1>3, <1>4, UserTable

\* A round of the loop of saa716x_aip_init2() fits.
LEMMA DmabufAllocPath ==
  ASSUME NEW crd, NEW p \in 1 .. DmaBuffers, NEW M, NEW X, NEW F, NEW C, Fail4Asks \subseteq X,
         NEW H, H = Parts \X {"aip"} \X (1 .. p - 1), H \subseteq M,
         \A u \in M : u \in Fail4Gone \/ u[1] \in Idle \/ u \in H
  PROVE  Path(crd, DmabufAlloc(Buf("aip", p), CapFail4), Stage(M, X, F, C),
              Stage(Parts \X {"aip"} \X {p}, Parts \X {"aip"} \X {p}, Parts \X {"aip"} \X {p}, {}))
<1> DEFINE s == AllocatePtable(Buf("aip", p), CapFail4)
           t == SgAlloc(Buf("aip", p), FreePtable(Buf("aip", p)) \o CapFail4)
           v == <<Get(<<"sgmap", "aip", p>>)>>
           m == {"page", "ptab"} \X {"aip"} \X {p}
           n == {"list", "mem"} \X {"aip"} \X {p}
           o == {<<"sgmap", "aip", p>>}
           unit == "aip"
<1>u. unit \in {"vip", "aip"} /\ unit = "aip"
  OBVIOUS
<1>l. Ladder(CapFail4, C, Fail4Gone, Fail4Asks) /\ CapFail4 \in Seq(Releases)
  BY Fail4Ladder DEF Ladder, Rungs
<1>h. H = Full(unit) \X {unit} \X (1 .. p - 1)
  BY DEF Full
<1>a. /\ \A u \in Parts \X {unit} \X (1 .. DmaBuffers), d \in Fail4Gone : u # d /\ ~Uses(u, d)
      /\ \A u \in Fail4Gone, d \in {"page", "ptab"} \X {unit} \X {p} : ~Uses(u, d)
  <2>1. \A d \in {"page", "ptab"} \X {unit} \X {p} : d \in Parts \X {"aip"} \X (1 .. DmaBuffers)
    BY DEF Parts
  <2> QED BY <2>1, BuffersApart
<1>i. m = {"page", "ptab"} \X {unit} \X {p} /\ n = {"list", "mem"} \X {unit} \X {p}
  OBVIOUS
<1>s. s = AllocatePtable(Buf(unit, p), CapFail4)
        /\ t = SgAlloc(Buf(unit, p), FreePtable(Buf(unit, p)) \o CapFail4)
  OBVIOUS
<1> HIDE DEF unit
<1>1. Path(crd, s, Stage(M, X, F, C), Stage(m, m, m, {}))
  <2> HIDE DEF s, m
  <2>1. Path(crd, AllocatePtable(Buf(unit, p), CapFail4), Stage(M, X, F, C),
             Stage({"page", "ptab"} \X {unit} \X {p}, {"page", "ptab"} \X {unit} \X {p},
                   {"page", "ptab"} \X {unit} \X {p}, {}))
    BY <1>u, <1>l, <1>h, <1>a, AllocatePtablePath
  <2> QED BY <2>1, <1>i, <1>s
<1>2. Path(crd, t, Stage(M \cup m, X \cup m, F \cup m, C), Stage(n, n, n, {}))
  <2> DEFINE N == M \cup m
             Y == X \cup m
             E == F \cup m
  <2>1. /\ H \subseteq N /\ m \subseteq N /\ Fail4Asks \subseteq Y
        /\ \A u \in N : u \in Fail4Gone \/ u[1] \in Idle \/ u \in H \/ u \in m
    OBVIOUS
  <2> HIDE DEF s, t, m, n, N, Y, E
  <2>2. Path(crd, SgAlloc(Buf(unit, p), FreePtable(Buf(unit, p)) \o CapFail4), Stage(N, Y, E, C),
             Stage({"list", "mem"} \X {unit} \X {p}, {"list", "mem"} \X {unit} \X {p},
                   {"list", "mem"} \X {unit} \X {p}, {}))
    BY <2>1, <1>u, <1>l, <1>h, <1>a, <1>i, SgAllocPath
  <2> QED BY <2>2, <1>i, <1>s DEF N, Y, E
<1>3. Path(crd, v, Stage((M \cup m) \cup n, (X \cup m) \cup n, (F \cup m) \cup n, C), Stage(o, o, o, {}))
  <2>1. <<"sgmap", "aip", p>> \in Resources /\ <<"sgmap", "aip", p>> # R("irq")
    BY DEF Resources, Parts, R
  <2>2. Founded(<<"sgmap", "aip", p>>, (F \cup m) \cup n)
    <3>1. ASSUME NEW d \in Resources, Uses(<<"sgmap", "aip", p>>, d)
          PROVE  d \in n
      <4>1. d[1] \in {"list", "mem"} /\ d[2] = "aip" /\ d[3] = p
        BY <3>1, UserTable DEF Stands
      <4>2. d = <<d[1], d[2], d[3]>>
        BY <4>1, ResourceShapes DEF Parts
      <4> QED BY <4>1, <4>2
    <3> QED BY <3>1 DEF Founded
  <2> HIDE DEF s, t, m, n
  <2> QED BY <2>1, <2>2, GetPath
<1>4. DmabufAlloc(Buf("aip", p), CapFail4) = s \o t \o v
  BY PartNames DEF DmabufAlloc
<1>5. (m \cup n) \cup o = Parts \X {"aip"} \X {p}
  BY DEF Parts
<1> HIDE DEF s, t, v, m, n, o
<1>6. Path(crd, s \o t, Stage(M, X, F, C), Stage(m \cup n, m \cup n, m \cup n, {}))
  BY <1>1, <1>2, PathNext
<1>7. /\ (M \cup m) \cup n = M \cup (m \cup n) /\ (X \cup m) \cup n = X \cup (m \cup n)
      /\ (F \cup m) \cup n = F \cup (m \cup n)
  OBVIOUS
<1>8. Path(crd, s \o t \o v, Stage(M, X, F, C), Stage((m \cup n) \cup o, (m \cup n) \cup o,
        (m \cup n) \cup o, {}))
  BY <1>3, <1>6, <1>7, PathNext
<1> QED BY <1>4, <1>5, <1>8

\* The loop of saa716x_vip_init2() fits.
LEMMA VipTablesPath ==
  ASSUME NEW crd, NEW M, NEW X, NEW F, NEW C, Fail3Asks \subseteq X,
         \A u \in M : u \in Fail3Gone \/ u[1] \in Idle
  PROVE  Path(crd, InTurn([n \in 1 .. DmaBuffers |-> AllocatePtable(Buf("vip", n), CapFail3)]),
           Stage(M, X, F, C),
              Stage({"page", "ptab"} \X {"vip"} \X (1 .. DmaBuffers), {"page",
                "ptab"} \X {"vip"} \X (1 .. DmaBuffers), {"page",
                "ptab"} \X {"vip"} \X (1 .. DmaBuffers), {}))
<1> DEFINE rounds == [n \in 1 .. DmaBuffers |-> AllocatePtable(Buf("vip", n), CapFail3)]
           T == [n \in 1 .. DmaBuffers |-> Stage({"page", "ptab"} \X {"vip"} \X {n}, {"page",
             "ptab"} \X {"vip"} \X {n}, {"page", "ptab"} \X {"vip"} \X {n}, {})]
           a == Stage(M, X, F, C)
           e == {}
<1>1. DmaBuffers \in Nat /\ DmaBuffers \in 0 .. DmaBuffers
        /\ \A n \in 1 .. DmaBuffers : n - 1 \in 0 .. DmaBuffers
  BY DmaBuffersAssumption
<1>2. \A n \in 1 .. DmaBuffers :
        /\ rounds[n] = AllocatePtable(Buf("vip", n), CapFail3)
        /\ T[n].may = {"page", "ptab"} \X {"vip"} \X {n}
             /\ T[n].sure = {"page", "ptab"} \X {"vip"} \X {n}
             /\ T[n].firm = {"page", "ptab"} \X {"vip"} \X {n} /\ T[n].count = e
        /\ T[n] = Stage({"page", "ptab"} \X {"vip"} \X {n}, {"page", "ptab"} \X {"vip"} \X {n},
             {"page", "ptab"} \X {"vip"} \X {n}, e)
  BY DEF Stage
<1>4. DOMAIN rounds = 1 .. DmaBuffers /\ rounds = [n \in DOMAIN rounds |-> rounds[n]]
  OBVIOUS
<1>5. \A n \in 1 .. DmaBuffers : Len(rounds[n]) = 2
  <2> TAKE n \in 1 .. DmaBuffers
  <2>1. Len(AllocatePtable(Buf("vip", n), CapFail3)) = 2
    BY DEF AllocatePtable
  <2> QED BY <2>1, <1>2
<1>r. rounds = [n \in 1 .. DmaBuffers |-> AllocatePtable(Buf("vip", n), CapFail3)]
  OBVIOUS
<1> HIDE DEF rounds, T, e
<1>6. ASSUME NEW p \in 0 .. DmaBuffers, NEW V, V = {"page", "ptab"} \X {"vip"} \X (1 .. p)
      PROVE  Plus(a, Sum(T, p)) = Stage(M \cup V, X \cup V, F \cup V, C) /\ Sum(T, p) = Stage(V, V, V, e)
  <2>1. \A q \in 1 .. p : q \in 1 .. DmaBuffers
    BY <1>1
  <2> DEFINE m == UNION {T[q].may : q \in 1 .. p}
             x == UNION {T[q].sure : q \in 1 .. p}
             f == UNION {T[q].firm : q \in 1 .. p}
             c == UNION {T[q].count : q \in 1 .. p}
  <2>3. m = V
    <3>1. \A q \in 1 .. p : T[q].may = {"page", "ptab"} \X {"vip"} \X {q}
      BY <1>2, <2>1
    <3> QED BY <3>1, <1>6
  <2>4. x = V
    <3>1. \A q \in 1 .. p : T[q].sure = {"page", "ptab"} \X {"vip"} \X {q}
      BY <1>2, <2>1
    <3> QED BY <3>1, <1>6
  <2>5. f = V
    <3>1. \A q \in 1 .. p : T[q].firm = {"page", "ptab"} \X {"vip"} \X {q}
      BY <1>2, <2>1
    <3> QED BY <3>1, <1>6
  <2>6. c = e
    <3>1. \A q \in 1 .. p : T[q].count = {}
      BY <1>2, <2>1 DEF e
    <3> QED BY <3>1 DEF e
  <2>7. Sum(T, p) = Stage(m, x, f, c)
    BY DEF Sum
  <2>8. C \cup e = C
    BY DEF e
  <2> HIDE DEF m, x, f, c
  <2>9. Plus(a, Stage(V, V, V, e)) = Stage(M \cup V, X \cup V, F \cup V, C \cup e)
    BY DEF Plus, Stage
  <2> QED BY <2>3, <2>4, <2>5, <2>6, <2>7, <2>8, <2>9
<1>7. ASSUME NEW p \in 1 .. DmaBuffers
      PROVE  Path(crd, rounds[p], Plus(a, Sum(T, p - 1)), T[p])
  <2> DEFINE V == {"page", "ptab"} \X {"vip"} \X (1 .. p - 1)
             i == p - 1
             N == M \cup V
             Y == X \cup V
             E == F \cup V
             unit == "vip"
  <2>1. p - 1 \in 0 .. DmaBuffers
    BY <1>1
  <2>2. Fail3Asks \subseteq Y /\ V \subseteq N /\ \A u \in N : u \in Fail3Gone \/ u[1] \in Idle \/ u \in V
    OBVIOUS
  <2>u. unit \in {"vip", "aip"} /\ unit = "vip"
    OBVIOUS
  <2>3. V = {"page", "ptab"} \X {"vip"} \X (1 .. i) /\ i \in 0 .. DmaBuffers
    BY <2>1
  <2> HIDE DEF V, N, Y, E, i, unit
  <2>4. Plus(a, Sum(T, i)) = Stage(M \cup V, X \cup V, F \cup V, C)
    BY <1>6, <2>3
  <2>5. rounds[p] = AllocatePtable(Buf("vip", p), CapFail3)
          /\ T[p] = Stage({"page", "ptab"} \X {"vip"} \X {p}, {"page",
          "ptab"} \X {"vip"} \X {p}, {"page", "ptab"} \X {"vip"} \X {p}, {})
    BY <1>2 DEF e
  <2>a. Ladder(CapFail3, C, Fail3Gone, Fail3Asks) /\ CapFail3 \in Seq(Releases)
    BY Fail3Ladder DEF Ladder, Rungs
  <2>b. V = Full(unit) \X {unit} \X (1 .. p - 1)
    BY <2>u DEF V, Full
  <2>c. \A u \in Parts \X {unit} \X (1 .. DmaBuffers), d \in Fail3Gone : u # d /\ ~Uses(u, d)
    BY <2>u, BuffersApart
  <2>d. Path(crd, AllocatePtable(Buf(unit, p), CapFail3), Stage(N, Y, E, C),
             Stage({"page", "ptab"} \X {unit} \X {p}, {"page", "ptab"} \X {unit} \X {p},
                   {"page", "ptab"} \X {unit} \X {p}, {}))
    BY <2>a, <2>b, <2>c, <2>2, <2>u, AllocatePtablePath
  <2>6. Path(crd, AllocatePtable(Buf("vip", p), CapFail3), Stage(N, Y, E, C),
             Stage({"page", "ptab"} \X {"vip"} \X {p}, {"page", "ptab"} \X {"vip"} \X {p},
                   {"page", "ptab"} \X {"vip"} \X {p}, {}))
    BY <2>d, <2>u
  <2> QED BY <2>4, <2>5, <2>6 DEF i, N, Y, E
<1>8. rounds \in [1 .. DmaBuffers -> Seq(Takings)]
  <2>1. \A n \in 1 .. DmaBuffers : rounds[n] \in Seq(Takings)
    BY <1>7 DEF Path
  <2> QED BY <1>4, <2>1
<1>9. Loop(rounds, Takings, DmaBuffers, 2)
  BY <1>1, <1>5, <1>8 DEF Loop
<1> HIDE DEF a
<1>10. PathRounds(crd, rounds, DmaBuffers, 2, a, T)
  BY <1>7, <1>9 DEF PathRounds
<1>11. Path(crd, InTurn(rounds), a, Sum(T, DmaBuffers))
  BY <1>10, PathLoop
<1> DEFINE W == {"page", "ptab"} \X {"vip"} \X (1 .. DmaBuffers)
<1>12. W = {"page", "ptab"} \X {"vip"} \X (1 .. DmaBuffers)
  OBVIOUS
<1> HIDE DEF W
<1>13. Sum(T, DmaBuffers) = Stage(W, W, W, e)
  BY <1>1, <1>6, <1>12
<1> QED BY <1>11, <1>12, <1>13, <1>r DEF a, e

\* The loop of saa716x_aip_init2() fits.
LEMMA AipBuffersPath ==
  ASSUME NEW crd, NEW M, NEW X, NEW F, NEW C, Fail4Asks \subseteq X,
         \A u \in M : u \in Fail4Gone \/ u[1] \in Idle
  PROVE  Path(crd, InTurn([n \in 1 .. DmaBuffers |-> DmabufAlloc(Buf("aip", n), CapFail4)]),
           Stage(M, X, F, C),
              Stage(Parts \X {"aip"} \X (1 .. DmaBuffers),
                Parts \X {"aip"} \X (1 .. DmaBuffers), Parts \X {"aip"} \X (1 .. DmaBuffers), {}))
<1> DEFINE rounds == [n \in 1 .. DmaBuffers |-> DmabufAlloc(Buf("aip", n), CapFail4)]
           T == [n \in 1 .. DmaBuffers |-> Stage(Parts \X {"aip"} \X {n},
             Parts \X {"aip"} \X {n}, Parts \X {"aip"} \X {n}, {})]
           a == Stage(M, X, F, C)
           e == {}
<1>1. DmaBuffers \in Nat /\ DmaBuffers \in 0 .. DmaBuffers
        /\ \A n \in 1 .. DmaBuffers : n - 1 \in 0 .. DmaBuffers
  BY DmaBuffersAssumption
<1>2. \A n \in 1 .. DmaBuffers :
        /\ rounds[n] = DmabufAlloc(Buf("aip", n), CapFail4)
        /\ T[n].may = Parts \X {"aip"} \X {n} /\ T[n].sure = Parts \X {"aip"} \X {n}
             /\ T[n].firm = Parts \X {"aip"} \X {n} /\ T[n].count = e
        /\ T[n] = Stage(Parts \X {"aip"} \X {n}, Parts \X {"aip"} \X {n}, Parts \X {"aip"} \X {n}, e)
  BY DEF Stage
<1>4. DOMAIN rounds = 1 .. DmaBuffers /\ rounds = [n \in DOMAIN rounds |-> rounds[n]]
  OBVIOUS
<1>5. \A n \in 1 .. DmaBuffers : Len(rounds[n]) = 5
  <2> TAKE n \in 1 .. DmaBuffers
  <2>1. Len(DmabufAlloc(Buf("aip", n), CapFail4)) = 5
    BY DEF DmabufAlloc, AllocatePtable, SgAlloc
  <2> QED BY <2>1, <1>2
<1>r. rounds = [n \in 1 .. DmaBuffers |-> DmabufAlloc(Buf("aip", n), CapFail4)]
  OBVIOUS
<1> HIDE DEF rounds, T, e
<1>6. ASSUME NEW p \in 0 .. DmaBuffers, NEW V, V = Parts \X {"aip"} \X (1 .. p)
      PROVE  Plus(a, Sum(T, p)) = Stage(M \cup V, X \cup V, F \cup V, C) /\ Sum(T, p) = Stage(V, V, V, e)
  <2>1. \A q \in 1 .. p : q \in 1 .. DmaBuffers
    BY <1>1
  <2> DEFINE m == UNION {T[q].may : q \in 1 .. p}
             x == UNION {T[q].sure : q \in 1 .. p}
             f == UNION {T[q].firm : q \in 1 .. p}
             c == UNION {T[q].count : q \in 1 .. p}
  <2>3. m = V
    <3>1. \A q \in 1 .. p : T[q].may = Parts \X {"aip"} \X {q}
      BY <1>2, <2>1
    <3> QED BY <3>1, <1>6
  <2>4. x = V
    <3>1. \A q \in 1 .. p : T[q].sure = Parts \X {"aip"} \X {q}
      BY <1>2, <2>1
    <3> QED BY <3>1, <1>6
  <2>5. f = V
    <3>1. \A q \in 1 .. p : T[q].firm = Parts \X {"aip"} \X {q}
      BY <1>2, <2>1
    <3> QED BY <3>1, <1>6
  <2>6. c = e
    <3>1. \A q \in 1 .. p : T[q].count = {}
      BY <1>2, <2>1 DEF e
    <3> QED BY <3>1 DEF e
  <2>7. Sum(T, p) = Stage(m, x, f, c)
    BY DEF Sum
  <2>8. C \cup e = C
    BY DEF e
  <2> HIDE DEF m, x, f, c
  <2>9. Plus(a, Stage(V, V, V, e)) = Stage(M \cup V, X \cup V, F \cup V, C \cup e)
    BY DEF Plus, Stage
  <2> QED BY <2>3, <2>4, <2>5, <2>6, <2>7, <2>8, <2>9
<1>7. ASSUME NEW p \in 1 .. DmaBuffers
      PROVE  Path(crd, rounds[p], Plus(a, Sum(T, p - 1)), T[p])
  <2> DEFINE V == Parts \X {"aip"} \X (1 .. p - 1)
             i == p - 1
             N == M \cup V
             Y == X \cup V
             E == F \cup V
             unit == "aip"
  <2>1. p - 1 \in 0 .. DmaBuffers
    BY <1>1
  <2>2. Fail4Asks \subseteq Y /\ V \subseteq N /\ \A u \in N : u \in Fail4Gone \/ u[1] \in Idle \/ u \in V
    OBVIOUS
  <2>u. unit \in {"vip", "aip"} /\ unit = "aip"
    OBVIOUS
  <2>3. V = Parts \X {"aip"} \X (1 .. i) /\ i \in 0 .. DmaBuffers
    BY <2>1
  <2> HIDE DEF V, N, Y, E, i, unit
  <2>4. Plus(a, Sum(T, i)) = Stage(M \cup V, X \cup V, F \cup V, C)
    BY <1>6, <2>3
  <2>5. rounds[p] = DmabufAlloc(Buf("aip", p), CapFail4)
          /\ T[p] = Stage(Parts \X {"aip"} \X {p}, Parts \X {"aip"} \X {p},
          Parts \X {"aip"} \X {p}, {})
    BY <1>2 DEF e
  <2>b. V = Parts \X {"aip"} \X (1 .. p - 1)
    BY DEF V
  <2>6. Path(crd, DmabufAlloc(Buf("aip", p), CapFail4), Stage(N, Y, E, C),
             Stage(Parts \X {"aip"} \X {p}, Parts \X {"aip"} \X {p}, Parts \X {"aip"} \X {p}, {}))
    BY <2>b, <2>2, DmabufAllocPath
  <2> QED BY <2>4, <2>5, <2>6 DEF i, N, Y, E
<1>8. rounds \in [1 .. DmaBuffers -> Seq(Takings)]
  <2>1. \A n \in 1 .. DmaBuffers : rounds[n] \in Seq(Takings)
    BY <1>7 DEF Path
  <2> QED BY <1>4, <2>1
<1>9. Loop(rounds, Takings, DmaBuffers, 5)
  BY <1>1, <1>5, <1>8 DEF Loop
<1> HIDE DEF a
<1>10. PathRounds(crd, rounds, DmaBuffers, 5, a, T)
  BY <1>7, <1>9 DEF PathRounds
<1>11. Path(crd, InTurn(rounds), a, Sum(T, DmaBuffers))
  BY <1>10, PathLoop
<1> DEFINE W == Parts \X {"aip"} \X (1 .. DmaBuffers)
<1>12. W = Parts \X {"aip"} \X (1 .. DmaBuffers)
  OBVIOUS
<1> HIDE DEF W
<1>13. Sum(T, DmaBuffers) = Stage(W, W, W, e)
  BY <1>1, <1>6, <1>12
<1> QED BY <1>11, <1>12, <1>13, <1>r DEF a, e

-----------------------------------------------------------------------------
(* The probe function of the capture card.                                 *)

\* saa716x_vip_init2() fits: the unit is ready once all its tables are there.
LEMMA VipInit2Path ==
  ASSUME NEW crd, NEW M, NEW X, NEW F, NEW C, Fail3Asks \subseteq X,
         R("mmio") \in F, \A u \in M : u \in Fail3Gone \/ u[1] \in Idle
  PROVE  Path(crd, VipInit2(CapFail3), Stage(M, X, F, C), Stage(VipGone, VipGone, VipGone, {}))
<1> DEFINE s == InTurn([n \in 1 .. DmaBuffers |-> AllocatePtable(Buf("vip", n), CapFail3)])
           t == <<Get(R("vip"))>>
           m == {"page", "ptab"} \X {"vip"} \X (1 .. DmaBuffers)
           o == {R("vip")}
<1>1. Path(crd, s, Stage(M, X, F, C), Stage(m, m, m, {}))
  BY VipTablesPath
<1>2. Path(crd, t, Stage(M \cup m, X \cup m, F \cup m, C), Stage(o, o, o, {}))
  <2>1. R("vip") \in Resources /\ R("vip") # R("irq")
    BY NoBuffers DEF Singles, R
  <2>2. Founded(R("vip"), F \cup m)
    <3>1. ASSUME NEW d \in Resources, Uses(R("vip"), d), d # R("mmio")
          PROVE  d \in m
      <4>0. d[1] # "mmio"
        BY <3>1, ResourceShapes DEF Singles, R
      <4>1. d[1] \in {"ptab"} /\ d[2] = "vip"
        BY <3>1, <4>0, UserTable DEF Stands, R
      <4>2. d = <<d[1], d[2], d[3]>> /\ d \in Buffers
        BY <4>1, ResourceShapes DEF Parts
      <4>3. d[3] \in 1 .. DmaBuffers
        BY <4>2 DEF Buffers
      <4> QED BY <4>1, <4>2, <4>3 DEF Parts
    <3> HIDE DEF m
    <3> QED BY <3>1 DEF Founded
  <2> HIDE DEF m
  <2> QED BY <2>1, <2>2, GetPath
<1>3. VipInit2(CapFail3) = s \o t
  BY DEF VipInit2
<1>4. m \cup o = VipGone
  BY DEF VipGone, Tables
<1> HIDE DEF s, t, m, o
<1>5. Path(crd, s \o t, Stage(M, X, F, C), Stage(m \cup o, m \cup o, m \cup o, {}))
  BY <1>1, <1>2, PathNext
<1> QED BY <1>3, <1>4, <1>5

\* saa716x_aip_init2() fits: the unit is ready once all its buffers are
\* there.
LEMMA AipInit2Path ==
  ASSUME NEW crd, NEW M, NEW X, NEW F, NEW C, Fail4Asks \subseteq X,
         R("mmio") \in F, \A u \in M : u \in Fail4Gone \/ u[1] \in Idle
  PROVE  Path(crd, AipInit2(CapFail4), Stage(M, X, F, C), Stage(AipGone, AipGone, AipGone, {}))
<1> DEFINE s == InTurn([n \in 1 .. DmaBuffers |-> DmabufAlloc(Buf("aip", n), CapFail4)])
           t == <<Get(R("aip"))>>
           m == Parts \X {"aip"} \X (1 .. DmaBuffers)
           o == {R("aip")}
<1>1. Path(crd, s, Stage(M, X, F, C), Stage(m, m, m, {}))
  BY AipBuffersPath
<1>2. Path(crd, t, Stage(M \cup m, X \cup m, F \cup m, C), Stage(o, o, o, {}))
  <2>1. R("aip") \in Resources /\ R("aip") # R("irq")
    BY NoBuffers DEF Singles, R
  <2>2. Founded(R("aip"), F \cup m)
    <3>1. ASSUME NEW d \in Resources, Uses(R("aip"), d), d # R("mmio")
          PROVE  d \in m
      <4>0. d[1] # "mmio"
        BY <3>1, ResourceShapes DEF Singles, R
      <4>1. d[1] \in {"ptab", "sgmap"} /\ d[2] = "aip"
        BY <3>1, <4>0, UserTable DEF Stands, R
      <4>2. d = <<d[1], d[2], d[3]>> /\ d \in Buffers
        BY <4>1, ResourceShapes DEF Parts
      <4>3. d[3] \in 1 .. DmaBuffers
        BY <4>2 DEF Buffers
      <4> QED BY <4>1, <4>2, <4>3 DEF Parts
    <3> HIDE DEF m
    <3> QED BY <3>1 DEF Founded
  <2> HIDE DEF m
  <2> QED BY <2>1, <2>2, GetPath
<1>3. AipInit2(CapFail4) = s \o t
  BY DEF AipInit2
<1>4. m \cup o = AipGone
  BY DEF AipGone, Tables
<1> HIDE DEF s, t, m, o
<1>5. Path(crd, s \o t, Stage(M, X, F, C), Stage(m \cup o, m \cup o, m \cup o, {}))
  BY <1>1, <1>2, PathNext
<1> QED BY <1>3, <1>4, <1>5

\* Four steps and one more.
LEMMA FourOne ==
  ASSUME NEW S, NEW a \in S, NEW b \in S, NEW c \in S, NEW d \in S, NEW f \in S
  PROVE  <<a, b, c, d>> \o <<f>> = <<a, b, c, d, f>>
<1> DEFINE s == <<a, b, c, d>>
           t == <<f>>
           u == <<a, b, c, d, f>>
<1>1. s \in Seq(S) /\ t \in Seq(S) /\ u \in Seq(S)
  OBVIOUS
<1>2. Len(s) = 4 /\ Len(t) = 1 /\ Len(u) = 5
  OBVIOUS
<1>3. /\ s[1] = a /\ s[2] = b /\ s[3] = c /\ s[4] = d /\ t[1] = f
      /\ u[1] = a /\ u[2] = b /\ u[3] = c /\ u[4] = d /\ u[5] = f
  OBVIOUS
<1> HIDE DEF s, t, u
<1>4. /\ s \o t \in Seq(S) /\ Len(s \o t) = 5
      /\ \A i \in 1 .. 4 : (s \o t)[i] = s[i]
      /\ (s \o t)[5] = t[1]
  <2>1. /\ s \o t \in Seq(S) /\ Len(s \o t) = Len(s) + Len(t)
        /\ \A i \in 1 .. Len(s) + Len(t) :
             (s \o t)[i] = IF i <= Len(s) THEN s[i] ELSE t[i - Len(s)]
    BY <1>1, ConcatProperties
  <2>2. 4 + 1 = 5 /\ 5 - 4 = 1 /\ ~(5 <= 4) /\ 5 \in 1 .. 5 /\ \A i \in 1 .. 4 : i \in 1 .. 5 /\ i <= 4
    OBVIOUS
  <2> QED BY <2>1, <2>2, <1>2
<1>5. \A i \in 1 .. 5 : (s \o t)[i] = u[i]
  BY <1>3, <1>4
<1>6. s \o t = u
  BY <1>1, <1>2, <1>4, <1>5, SeqEqual
<1> QED BY <1>6 DEF s, t, u

\* saa716x_v4l2_init() fits, with the receiver on the first I2C adapter.
LEMMA V4l2InitPath ==
  ASSUME NEW crd, NEW M, NEW X, NEW F, NEW C, Fail5Asks \subseteq X,
         \A u \in M : u \in Fail5Gone \/ u[1] \in Idle,
         R("vip") \in F, I2cs \subseteq F
  PROVE  Path(crd, V4l2Init(CapFail5), Stage(M, X, F, C), Stage(V4l2Gone, V4l2Asks, V4l2Asks, {}))
<1> DEFINE x1 == Get(R("v4l2"))
           x2 == Take(R("ctrl"), FreeHdl \o CapFail5)
           x3 == Check({"ok", "fail"}, FreeHdl \o CapFail5)
           x4 == Take(R("video"), FreeHdl \o CapFail5)
           x5 == Try(R("subdev"))
           k5 == <<x5>>
           k4 == <<x4, x5>>
           k3 == <<x3, x4, x5>>
           k2 == <<x2, x3, x4, x5>>
           k1 == <<x1, x2, x3, x4, x5>>
           M1 == M
           X1 == X
           F1 == F
           m1 == {R("v4l2")}
           y1 == {R("v4l2")}
           f1 == {R("v4l2")}
           M2 == M1 \cup m1
           X2 == X1 \cup y1
           F2 == F1 \cup f1
           m2 == {R("ctrl")}
           y2 == {R("ctrl")}
           f2 == {R("ctrl")}
           M3 == M2 \cup m2
           X3 == X2 \cup y2
           F3 == F2 \cup f2
           m3 == {}
           y3 == {}
           f3 == {}
           M4 == M3 \cup m3
           X4 == X3 \cup y3
           F4 == F3 \cup f3
           m4 == {R("video")}
           y4 == {R("video")}
           f4 == {R("video")}
           M5 == M4 \cup m4
           X5 == X4 \cup y4
           F5 == F4 \cup f4
           m5 == {R("subdev")}
           y5 == {}
           f5 == {}
           tm5 == m5
           ty5 == y5
           tf5 == f5
           tm4 == m4 \cup tm5
           ty4 == y4 \cup ty5
           tf4 == f4 \cup tf5
           tm3 == m3 \cup tm4
           ty3 == y3 \cup ty4
           tf3 == f3 \cup tf4
           tm2 == m2 \cup tm3
           ty2 == y2 \cup ty3
           tf2 == f2 \cup tf3
           tm1 == m1 \cup tm2
           ty1 == y1 \cup ty2
           tf1 == f1 \cup tf2
<1>t. V4l2Init(CapFail5) = k1
  <2>1. V4l2Init(CapFail5) = <<x1, x2, x3, x4>> \o <<x5>>
    BY DEF V4l2Init, SubdevInit
  <2> DEFINE S == {x1, x2, x3, x4, x5}
  <2>2. x1 \in S /\ x2 \in S /\ x3 \in S /\ x4 \in S /\ x5 \in S
    OBVIOUS
  <2> HIDE DEF x1, x2, x3, x4, x5, S
  <2>3. <<x1, x2, x3, x4>> \o <<x5>> = <<x1, x2, x3, x4, x5>>
    BY <2>2, FourOne
  <2> QED BY <2>1, <2>3 DEF k1
<1> HIDE DEF x1, x2, x3, x4, x5, k5, k4, k3, k2, k1, M1, X1, F1, m1, y1, f1, M2, X2, F2, m2, y2,
             f2, M3, X3, F3, m3, y3, f3, M4, X4, F4, m4, y4, f4, M5, X5, F5, m5, y5, f5, tm5,
             ty5, tf5, tm4, ty4, tf4, tm3, ty3, tf3, tm2, ty2, tf2, tm1, ty1, tf1
<1>p1. Path(crd, <<x1>>, Stage(M1, X1, F1, C), Stage(m1, y1, f1, {})) /\ x1 \in Takings
  <2>5. R("v4l2") \in Resources /\ R("v4l2") # R("irq") /\ R("v4l2") \notin Buffers
    BY NoBuffers DEF Singles, R, Blinds
  <2>6. Founded(R("v4l2"), F1)
    BY UserTable, ResourceShapes DEF Founded, Stands, R, Singles, PerAdapter, I2cs, F1
  <2>8. Path(crd, <<x1>>, Stage(M1, X1, F1, C), Stage(m1, y1, f1, {}))
    BY <2>5, <2>6, GetPath DEF x1, m1, y1, f1
  <2>9. x1 \in Takings
    BY <2>8, OneOf DEF Path
  <2> QED BY <2>8, <2>9
<1>p2. Path(crd, <<x2>>, Stage(M2, X2, F2, C), Stage(m2, y2, f2, {})) /\ x2 \in Takings
  <2>1. Ladder((FreeHdl \o CapFail5), C, HdlsGone, HdlsAsks) /\ (FreeHdl \o CapFail5) \in Seq(Releases)
    BY HdlFail5Ladder DEF Ladder, Rungs
  <2>2. HdlsAsks \subseteq X2
    BY DEF R, HdlsGone, HdlGone, HdlsAsks, X1, y1, X2
  <2>3. \A u \in M2 : u \in HdlsGone \/ u[1] \in Idle
    BY DEF R, HdlsGone, HdlGone, HdlsAsks, Idle, M1, m1, M2
  <2>4. LadderFits((FreeHdl \o CapFail5), Stage(M2, X2, F2, C))
    BY <2>1, <2>2, <2>3, LadderFitsIdle
  <2>5. R("ctrl") \in Resources /\ R("ctrl") # R("irq") /\ R("ctrl") \notin Buffers
    BY NoBuffers DEF Singles, R, Blinds
  <2>6. Founded(R("ctrl"), F2)
    BY UserTable, ResourceShapes DEF Founded, Stands, R, Singles, PerAdapter, I2cs, F1, f1, F2
  <2>8. Path(crd, <<x2>>, Stage(M2, X2, F2, C), Stage(m2, y2, f2, {}))
    BY <2>1, <2>4, <2>5, <2>6, TakePath DEF x2, m2, y2, f2
  <2>9. x2 \in Takings
    BY <2>8, OneOf DEF Path
  <2> QED BY <2>8, <2>9
<1>p3. Path(crd, <<x3>>, Stage(M3, X3, F3, C), Stage(m3, y3, f3, {})) /\ x3 \in Takings
  <2>1. Ladder((FreeHdl \o CapFail5), C, HdlsGone, HdlsAsks) /\ (FreeHdl \o CapFail5) \in Seq(Releases)
    BY HdlFail5Ladder DEF Ladder, Rungs
  <2>2. HdlsAsks \subseteq X3
    BY DEF R, HdlsGone, HdlGone, HdlsAsks, X1, y1, X2, y2, X3
  <2>3. \A u \in M3 : u \in HdlsGone \/ u[1] \in Idle
    BY DEF R, HdlsGone, HdlGone, HdlsAsks, Idle, M1, m1, M2, m2, M3
  <2>4. LadderFits((FreeHdl \o CapFail5), Stage(M3, X3, F3, C))
    BY <2>1, <2>2, <2>3, LadderFitsIdle
  <2>8. Path(crd, <<x3>>, Stage(M3, X3, F3, C), Stage(m3, y3, f3, {}))
    BY <2>1, <2>4, CheckPath DEF x3, m3, y3, f3
  <2>9. x3 \in Takings
    BY <2>8, OneOf DEF Path
  <2> QED BY <2>8, <2>9
<1>p4. Path(crd, <<x4>>, Stage(M4, X4, F4, C), Stage(m4, y4, f4, {})) /\ x4 \in Takings
  <2>1. Ladder((FreeHdl \o CapFail5), C, HdlsGone, HdlsAsks) /\ (FreeHdl \o CapFail5) \in Seq(Releases)
    BY HdlFail5Ladder DEF Ladder, Rungs
  <2>2. HdlsAsks \subseteq X4
    BY DEF R, HdlsGone, HdlGone, HdlsAsks, X1, y1, X2, y2, X3, y3, X4
  <2>3. \A u \in M4 : u \in HdlsGone \/ u[1] \in Idle
    BY DEF R, HdlsGone, HdlGone, HdlsAsks, Idle, M1, m1, M2, m2, M3, m3, M4
  <2>4. LadderFits((FreeHdl \o CapFail5), Stage(M4, X4, F4, C))
    BY <2>1, <2>2, <2>3, LadderFitsIdle
  <2>5. R("video") \in Resources /\ R("video") # R("irq") /\ R("video") \notin Buffers
    BY NoBuffers DEF Singles, R, Blinds
  <2>6. Founded(R("video"), F4)
    BY UserTable, ResourceShapes DEF Founded, Stands, R, Singles, PerAdapter, I2cs, F1, f1, F2,
       f2, F3, f3, F4
  <2>8. Path(crd, <<x4>>, Stage(M4, X4, F4, C), Stage(m4, y4, f4, {}))
    BY <2>1, <2>4, <2>5, <2>6, TakePath DEF x4, m4, y4, f4
  <2>9. x4 \in Takings
    BY <2>8, OneOf DEF Path
  <2> QED BY <2>8, <2>9
<1>p5. Path(crd, <<x5>>, Stage(M5, X5, F5, C), Stage(m5, y5, f5, {})) /\ x5 \in Takings
  <2>5. R("subdev") \in Resources /\ R("subdev") # R("irq") /\ R("subdev") \notin Buffers
    BY NoBuffers DEF Singles, R, Blinds
  <2>6. Founded(R("subdev"), F5)
    BY UserTable, ResourceShapes DEF Founded, Stands, R, Singles, PerAdapter, I2cs, F1, f1, F2,
       f2, F3, f3, F4, f4, F5
  <2>8. Path(crd, <<x5>>, Stage(M5, X5, F5, C), Stage(m5, y5, f5, {}))
    BY <2>5, <2>6, TryPath DEF x5, m5, y5, f5
  <2>9. x5 \in Takings
    BY <2>8, OneOf DEF Path
  <2> QED BY <2>8, <2>9
<1>q5. Path(crd, k5, Stage(M5, X5, F5, C), Stage(tm5, ty5, tf5, {}))
  BY <1>p5 DEF k5, tm5, ty5, tf5
<1>q4. Path(crd, k4, Stage(M4, X4, F4, C), Stage(tm4, ty4, tf4, {}))
  <2>1. k4 = <<x4>> \o k5
    BY <1>p4, <1>p5, Pair DEF k4, k5
  <2>2. Path(crd, k5, Stage(M4 \cup m4, X4 \cup y4, F4 \cup f4, C), Stage(tm5, ty5, tf5, {}))
    BY <1>q5 DEF M5, X5, F5
  <2>3. Path(crd, <<x4>> \o k5, Stage(M4, X4, F4, C), Stage(m4 \cup tm5, y4 \cup ty5, f4 \cup tf5, {}))
    BY <1>p4, <2>2, PathNext
  <2> QED BY <2>1, <2>3 DEF tm4, ty4, tf4
<1>q3. Path(crd, k3, Stage(M3, X3, F3, C), Stage(tm3, ty3, tf3, {}))
  <2>1. k3 = <<x3>> \o k4
    BY <1>p3, <1>p4, <1>p5 DEF k3, k4
  <2>2. Path(crd, k4, Stage(M3 \cup m3, X3 \cup y3, F3 \cup f3, C), Stage(tm4, ty4, tf4, {}))
    BY <1>q4 DEF M4, X4, F4
  <2>3. Path(crd, <<x3>> \o k4, Stage(M3, X3, F3, C), Stage(m3 \cup tm4, y3 \cup ty4, f3 \cup tf4, {}))
    BY <1>p3, <2>2, PathNext
  <2> QED BY <2>1, <2>3 DEF tm3, ty3, tf3
<1>q2. Path(crd, k2, Stage(M2, X2, F2, C), Stage(tm2, ty2, tf2, {}))
  <2>1. k2 = <<x2>> \o k3
    BY <1>p2, <1>p3, <1>p4, <1>p5 DEF k2, k3
  <2>2. Path(crd, k3, Stage(M2 \cup m2, X2 \cup y2, F2 \cup f2, C), Stage(tm3, ty3, tf3, {}))
    BY <1>q3 DEF M3, X3, F3
  <2>3. Path(crd, <<x2>> \o k3, Stage(M2, X2, F2, C), Stage(m2 \cup tm3, y2 \cup ty3, f2 \cup tf3, {}))
    BY <1>p2, <2>2, PathNext
  <2> QED BY <2>1, <2>3 DEF tm2, ty2, tf2
<1>q1. Path(crd, k1, Stage(M1, X1, F1, C), Stage(tm1, ty1, tf1, {}))
  <2>1. k1 = <<x1>> \o k2
    BY <1>p1, <1>p2, <1>p3, <1>p4, <1>p5 DEF k1, k2
  <2>2. Path(crd, k2, Stage(M1 \cup m1, X1 \cup y1, F1 \cup f1, C), Stage(tm2, ty2, tf2, {}))
    BY <1>q2 DEF M2, X2, F2
  <2>3. Path(crd, <<x1>> \o k2, Stage(M1, X1, F1, C), Stage(m1 \cup tm2, y1 \cup ty2, f1 \cup tf2, {}))
    BY <1>p1, <2>2, PathNext
  <2> QED BY <2>1, <2>3 DEF tm1, ty1, tf1
<1>e. tm1 = V4l2Gone /\ ty1 = V4l2Asks /\ tf1 = V4l2Asks
  BY DEF V4l2Gone, V4l2Asks, tm1, ty1, tf1, m1, y1, f1, tm2, ty2, tf2, m2, y2, f2, tm3, ty3,
     tf3, m3, y3, f3, tm4, ty4, tf4, m4, y4, f4, tm5, ty5, tf5, m5, y5, f5
<1> QED BY <1>t, <1>q1, <1>e DEF M1, X1, F1

\* The sound card fits on the AIP, and fails into fail6.
LEMMA AlsaInitPath ==
  ASSUME NEW crd, NEW M, NEW X, NEW F, NEW C, Fail6Asks \subseteq X,
         \A u \in M : u \in Fail6Gone \/ u[1] \in Idle, R("aip") \in F
  PROVE  Path(crd, AlsaInit(CapFail6), Stage(M, X, F, C), Stage({R("alsa")}, {}, {}, {}))
<1> DEFINE x1 == Step("take", R("alsa"), {}, {"ok", "skip", "fail"}, CapFail6)
           k1 == <<x1>>
           M1 == M
           X1 == X
           F1 == F
           m1 == {R("alsa")}
           y1 == {}
           f1 == {}
           tm1 == m1
           ty1 == y1
           tf1 == f1
<1>t. AlsaInit(CapFail6) = k1
  BY DEF AlsaInit
<1> HIDE DEF x1, k1, M1, X1, F1, m1, y1, f1, tm1, ty1, tf1
<1>p1. Path(crd, <<x1>>, Stage(M1, X1, F1, C), Stage(m1, y1, f1, {})) /\ x1 \in Takings
  <2>1. Ladder(CapFail6, C, Fail6Gone, Fail6Asks) /\ CapFail6 \in Seq(Releases)
    BY Fail6Ladder DEF Ladder, Rungs
  <2>2. Fail6Asks \subseteq X1
    BY DEF R, X1
  <2>3. \A u \in M1 : u \in Fail6Gone \/ u[1] \in Idle
    BY DEF R, Idle, M1
  <2>4. LadderFits(CapFail6, Stage(M1, X1, F1, C))
    BY <2>1, <2>2, <2>3, LadderFitsIdle
  <2>5. R("alsa") \in Resources /\ R("alsa") # R("irq") /\ R("alsa") \notin Buffers
    BY NoBuffers DEF Singles, R
  <2>6. Founded(R("alsa"), F1)
    BY UserTable, ResourceShapes DEF Founded, Stands, R, Singles, PerAdapter, I2cs, F1
  <2>8. Path(crd, <<x1>>, Stage(M1, X1, F1, C), Stage(m1, y1, f1, {}))
    BY <2>1, <2>4, <2>5, <2>6, TryTakePath DEF x1, m1, y1, f1
  <2>9. x1 \in Takings
    BY <2>8, OneOf DEF Path
  <2> QED BY <2>8, <2>9
<1>q1. Path(crd, k1, Stage(M1, X1, F1, C), Stage(tm1, ty1, tf1, {}))
  BY <1>p1 DEF k1, tm1, ty1, tf1
<1>e. tm1 = {R("alsa")} /\ ty1 = {} /\ tf1 = {}
  BY DEF tm1, ty1, tf1, m1, y1, f1
<1> QED BY <1>t, <1>q1, <1>e DEF M1, X1, F1

\* saa716x_make_debugfs() fits on the registers.
LEMMA MakeDebugfsPath ==
  ASSUME NEW crd, NEW M, NEW X, NEW F, NEW C, R("mmio") \in F
  PROVE  Path(crd, MakeDebugfs, Stage(M, X, F, C), Stage({R("debugfs")}, {}, {}, {}))
<1> DEFINE x1 == Step("take", R("debugfs"), {}, {"ok", "skip", "short"}, <<>>)
           k1 == <<x1>>
           M1 == M
           X1 == X
           F1 == F
           m1 == {R("debugfs")}
           y1 == {}
           f1 == {}
           tm1 == m1
           ty1 == y1
           tf1 == f1
<1>t. MakeDebugfs = k1
  BY DEF MakeDebugfs
<1> HIDE DEF x1, k1, M1, X1, F1, m1, y1, f1, tm1, ty1, tf1
<1>p1. Path(crd, <<x1>>, Stage(M1, X1, F1, C), Stage(m1, y1, f1, {})) /\ x1 \in Takings
  <2>5. R("debugfs") \in Resources /\ R("debugfs") # R("irq") /\ R("debugfs") \notin Buffers
          /\ R("debugfs") \in Blinds
    BY NoBuffers DEF Singles, R, Blinds
  <2>6. Founded(R("debugfs"), F1)
    BY UserTable, ResourceShapes DEF Founded, Stands, R, Singles, PerAdapter, I2cs, F1
  <2>8. Path(crd, <<x1>>, Stage(M1, X1, F1, C), Stage(m1, y1, f1, {}))
    BY <2>5, <2>6, BlindTryPath DEF x1, m1, y1, f1
  <2>9. x1 \in Takings
    BY <2>8, OneOf DEF Path
  <2> QED BY <2>8, <2>9
<1>q1. Path(crd, k1, Stage(M1, X1, F1, C), Stage(tm1, ty1, tf1, {}))
  BY <1>p1 DEF k1, tm1, ty1, tf1
<1>e. tm1 = {R("debugfs")} /\ ty1 = {} /\ tf1 = {}
  BY DEF tm1, ty1, tf1, m1, y1, f1
<1> QED BY <1>t, <1>q1, <1>e DEF M1, X1, F1

\* The work queue of the receiver is the second thing; its failure gives back
\* the structure.
LEMMA QueuePath ==
  ASSUME NEW crd, NEW B, B = {R("dev")}, NEW C
  PROVE  Path(crd, <<Take(R("wq"), Fail1)>>, Stage(B, B, B, C), Stage({R("wq")}, {R("wq")}, {R("wq")}, {}))
<1>1. Ladder(Fail1, C, B, B) /\ Fail1 \in Seq(Releases)
  BY Fail1Ladder DEF Ladder, Rungs
<1>2. LadderFits(Fail1, Stage(B, B, B, C))
  <2> HIDE DEF R
  <2>1. B \subseteq B /\ \A u \in B : u \in B \/ u[1] \in Idle
    OBVIOUS
  <2> QED BY <1>1, <2>1, LadderFitsIdle
<1>3. R("wq") \in Resources /\ R("wq") # R("irq") /\ Founded(R("wq"), B)
  BY NoBuffers, UserTable DEF Singles, R, Founded, Stands
<1> QED BY <1>1, <1>2, <1>3, TakePath

\* saa716x_cap_pci_probe() builds.
LEMMA CapBuilds ==
  ASSUME NEW e, e = {}
  PROVE  CapProbe \in Seq(Takings) /\ Builds("cap", CapProbe, Stage(e, e, e, e))
<1> DEFINE s0 == <<Take(R("dev"), <<>>)>>
           M0 == {R("dev")}
           X0 == {R("dev")}
           F0 == {R("dev")}
           t1 == <<Take(R("wq"), Fail1)>>
           s1 == s0 \o t1
           m1 == {R("wq")}
           x1 == {R("wq")}
           f1 == {R("wq")}
           M1 == M0 \cup m1
           X1 == X0 \cup x1
           F1 == F0 \cup f1
           t2 == CoreInit
           s2 == s1 \o t2
           m2 == CoreMay
           x2 == CoreFirm
           f2 == CoreFirm
           M2 == M1 \cup m2
           X2 == X1 \cup x2
           F2 == F1 \cup f2
           t3 == VipInit2(CapFail3)
           s3 == s2 \o t3
           m3 == VipGone
           x3 == VipGone
           f3 == VipGone
           M3 == M2 \cup m3
           X3 == X2 \cup x3
           F3 == F2 \cup f3
           t4 == AipInit2(CapFail4)
           s4 == s3 \o t4
           m4 == AipGone
           x4 == AipGone
           f4 == AipGone
           M4 == M3 \cup m4
           X4 == X3 \cup x4
           F4 == F3 \cup f4
           t5 == V4l2Init(CapFail5)
           s5 == s4 \o t5
           m5 == V4l2Gone
           x5 == V4l2Asks
           f5 == V4l2Asks
           M5 == M4 \cup m5
           X5 == X4 \cup x5
           F5 == F4 \cup f5
           t6 == AlsaInit(CapFail6)
           s6 == s5 \o t6
           m6 == {R("alsa")}
           x6 == {}
           f6 == {}
           M6 == M5 \cup m6
           X6 == X5 \cup x6
           F6 == F5 \cup f6
           t7 == MakeDebugfs
           s7 == s6 \o t7
           m7 == {R("debugfs")}
           x7 == {}
           f7 == {}
           M7 == M6 \cup m7
           X7 == X6 \cup x7
           F7 == F6 \cup f7
<1>1. CapProbe = s7
  <2>1. <<Take(R("dev"), <<>>), Take(R("wq"), Fail1)>> = s1
    OBVIOUS
  <2> QED BY <2>1 DEF CapProbe
<1>3. Path("cap", s0, Stage(e, e, e, e), Stage(M0, X0, F0, {}))
  BY FirstStep
<1>5. RemoveSteps["cap"] = CapRemove
  BY DEF RemoveSteps
<1>h1. M0 = {R("dev")} /\ X0 = M0 /\ F0 = M0
  OBVIOUS
<1>h2. Bases("cap", M1) /\ X1 = M1 /\ F1 = M1
  BY DEF Bases
<1>h3. /\ \A u \in M2 : u \in Fail3Gone \/ u[1] \in Idle
       /\ Fail3Asks \subseteq X2 /\ I2cs \subseteq F2 /\ R("mmio") \in F2
  <2>1. M2 = CoreGot \cup {R("wq")} /\ X2 = CoreHas \cup {R("wq")} /\ F2 = X2
    BY DEF CoreGot, CoreHas
  <2>2. R("wq")[1] \in Idle
    BY DEF R, Idle
  <2> HIDE DEF M2, X2, F2
  <2> QED BY <2>1, <2>2, CoreSets
<1>h4. /\ \A u \in M3 : u \in Fail4Gone \/ u[1] \in Idle
       /\ Fail4Asks \subseteq X3 /\ I2cs \subseteq F3 /\ R("mmio") \in F3 /\ R("vip") \in F3
  <2> HIDE DEF M2, X2, F2
  <2> QED BY <1>h3 DEF Fail4Gone, Fail4Asks, VipAsks, VipGone
<1>h5. /\ \A u \in M4 : u \in Fail5Gone \/ u[1] \in Idle
       /\ Fail5Asks \subseteq X4 /\ I2cs \subseteq F4 /\ R("mmio") \in F4 /\ R("vip") \in F4
            /\ R("aip") \in F4
  <2> HIDE DEF M3, X3, F3
  <2>1. AipAsks \subseteq AipGone /\ R("aip") \in AipGone
    BY DEF AipAsks, AipGone, Parts
  <2> QED BY <2>1, <1>h4 DEF Fail5Gone, Fail5Asks
<1>h6. /\ \A u \in M5 : u \in Fail6Gone \/ u[1] \in Idle
       /\ Fail6Asks \subseteq X5 /\ R("mmio") \in F5 /\ R("aip") \in F5
  <2> HIDE DEF M4, X4, F4
  <2> QED BY <1>h5 DEF Fail6Gone, Fail6Asks
<1>h7. R("mmio") \in F6
  <2> HIDE DEF M5, X5, F5
  <2> QED BY <1>h6
<1>h9. M7 \subseteq CapAllGone /\ CapAllAsks \subseteq X7
  <2>1. M2 = {R("dev")} \cup {R("wq")} \cup PciGone \cup I2cs
          /\ X2 = {R("dev")} \cup {R("wq")} \cup PciFirm \cup I2cs
    BY DEF CoreMay, CoreFirm
  <2>2. AipAsks \subseteq AipGone /\ VipAsks \subseteq VipGone /\ PciAsks \subseteq PciFirm
    BY DEF AipAsks, AipGone, Parts, VipAsks, VipGone, PciAsks, PciFirm
  <2> HIDE DEF M2, X2
  <2> QED BY <2>1, <2>2 DEF CapAllGone, CapAllAsks
<1> HIDE DEF s0, M0, X0, F0, t1, s1, M1, X1, F1, t2, s2, M2, X2, F2, t3, s3, M3, X3, F3, t4, s4,
             M4, X4, F4, t5, s5, M5, X5, F5, t6, s6, M6, X6, F6, t7, s7, M7, X7, F7
<1>p1. Path("cap", t1, Stage(M0, X0, F0, e), Stage(m1, x1, f1, {}))
  BY <1>h1, QueuePath DEF t1
<1>p2. Path("cap", t2, Stage(M1, X1, F1, e), Stage(m2, x2, f2, {}))
  BY <1>h2, CoreInitPath DEF t2
<1>p3. Path("cap", t3, Stage(M2, X2, F2, e), Stage(m3, x3, f3, {}))
  BY <1>h3, VipInit2Path DEF t3
<1>p4. Path("cap", t4, Stage(M3, X3, F3, e), Stage(m4, x4, f4, {}))
  BY <1>h4, AipInit2Path DEF t4
<1>p5. Path("cap", t5, Stage(M4, X4, F4, e), Stage(m5, x5, f5, {}))
  BY <1>h5, V4l2InitPath DEF t5
<1>p6. Path("cap", t6, Stage(M5, X5, F5, e), Stage(m6, x6, f6, {}))
  BY <1>h6, AlsaInitPath DEF t6
<1>p7. Path("cap", t7, Stage(M6, X6, F6, e), Stage(m7, x7, f7, {}))
  BY <1>h7, MakeDebugfsPath DEF t7
<1> HIDE DEF m1, x1, f1, m2, x2, f2, m3, x3, f3, m4, x4, f4, m5, x5, f5, m6, x6, f6, m7, x7, f7
<1>q1. Path("cap", s1, Stage(e, e, e, e), Stage(M1, X1, F1, {}))
  <2>1. e \cup M0 = M0 /\ e \cup X0 = X0 /\ e \cup F0 = F0
    OBVIOUS
  <2>2. Path("cap", t1, Stage(e \cup M0, e \cup X0, e \cup F0, e), Stage(m1, x1, f1, {}))
    BY <1>p1, <2>1
  <2>4. Path("cap", s0 \o t1, Stage(e, e, e, e), Stage(M0 \cup m1, X0 \cup x1, F0 \cup f1, {}))
    BY <1>3, <2>2, PathNext
  <2> QED BY <2>4 DEF s1, M1, X1, F1
<1>q2. Path("cap", s2, Stage(e, e, e, e), Stage(M2, X2, F2, {}))
  <2>1. e \cup M1 = M1 /\ e \cup X1 = X1 /\ e \cup F1 = F1
    OBVIOUS
  <2>2. Path("cap", t2, Stage(e \cup M1, e \cup X1, e \cup F1, e), Stage(m2, x2, f2, {}))
    BY <1>p2, <2>1
  <2>4. Path("cap", s1 \o t2, Stage(e, e, e, e), Stage(M1 \cup m2, X1 \cup x2, F1 \cup f2, {}))
    BY <1>q1, <2>2, PathNext
  <2> QED BY <2>4 DEF s2, M2, X2, F2
<1>q3. Path("cap", s3, Stage(e, e, e, e), Stage(M3, X3, F3, {}))
  <2>1. e \cup M2 = M2 /\ e \cup X2 = X2 /\ e \cup F2 = F2
    OBVIOUS
  <2>2. Path("cap", t3, Stage(e \cup M2, e \cup X2, e \cup F2, e), Stage(m3, x3, f3, {}))
    BY <1>p3, <2>1
  <2>4. Path("cap", s2 \o t3, Stage(e, e, e, e), Stage(M2 \cup m3, X2 \cup x3, F2 \cup f3, {}))
    BY <1>q2, <2>2, PathNext
  <2> QED BY <2>4 DEF s3, M3, X3, F3
<1>q4. Path("cap", s4, Stage(e, e, e, e), Stage(M4, X4, F4, {}))
  <2>1. e \cup M3 = M3 /\ e \cup X3 = X3 /\ e \cup F3 = F3
    OBVIOUS
  <2>2. Path("cap", t4, Stage(e \cup M3, e \cup X3, e \cup F3, e), Stage(m4, x4, f4, {}))
    BY <1>p4, <2>1
  <2>4. Path("cap", s3 \o t4, Stage(e, e, e, e), Stage(M3 \cup m4, X3 \cup x4, F3 \cup f4, {}))
    BY <1>q3, <2>2, PathNext
  <2> QED BY <2>4 DEF s4, M4, X4, F4
<1>q5. Path("cap", s5, Stage(e, e, e, e), Stage(M5, X5, F5, {}))
  <2>1. e \cup M4 = M4 /\ e \cup X4 = X4 /\ e \cup F4 = F4
    OBVIOUS
  <2>2. Path("cap", t5, Stage(e \cup M4, e \cup X4, e \cup F4, e), Stage(m5, x5, f5, {}))
    BY <1>p5, <2>1
  <2>4. Path("cap", s4 \o t5, Stage(e, e, e, e), Stage(M4 \cup m5, X4 \cup x5, F4 \cup f5, {}))
    BY <1>q4, <2>2, PathNext
  <2> QED BY <2>4 DEF s5, M5, X5, F5
<1>q6. Path("cap", s6, Stage(e, e, e, e), Stage(M6, X6, F6, {}))
  <2>1. e \cup M5 = M5 /\ e \cup X5 = X5 /\ e \cup F5 = F5
    OBVIOUS
  <2>2. Path("cap", t6, Stage(e \cup M5, e \cup X5, e \cup F5, e), Stage(m6, x6, f6, {}))
    BY <1>p6, <2>1
  <2>4. Path("cap", s5 \o t6, Stage(e, e, e, e), Stage(M5 \cup m6, X5 \cup x6, F5 \cup f6, {}))
    BY <1>q5, <2>2, PathNext
  <2> QED BY <2>4 DEF s6, M6, X6, F6
<1>q7. Path("cap", s7, Stage(e, e, e, e), Stage(M7, X7, F7, {}))
  <2>1. e \cup M6 = M6 /\ e \cup X6 = X6 /\ e \cup F6 = F6
    OBVIOUS
  <2>2. Path("cap", t7, Stage(e \cup M6, e \cup X6, e \cup F6, e), Stage(m7, x7, f7, {}))
    BY <1>p7, <2>1
  <2>4. Path("cap", s6 \o t7, Stage(e, e, e, e), Stage(M6 \cup m7, X6 \cup x7, F6 \cup f7, {}))
    BY <1>q6, <2>2, PathNext
  <2> QED BY <2>4 DEF s7, M7, X7, F7
<1>8. Ends("cap", Stage(M7, X7, F7, e))
  <2>1. Ladder(CapRemove, e, CapAllGone, CapAllAsks) /\ QueueFirst(CapRemove, e)
    BY CapRemoveLadder
  <2> QED BY <1>5, <1>h9, <2>1, EndsWith
<1>9. Plus(Stage(e, e, e, e), Stage(M7, X7, F7, e)) = Stage(M7, X7, F7, e)
  <2>1. e \cup M7 = M7 /\ e \cup X7 = X7 /\ e \cup F7 = F7 /\ e \cup e = e
    OBVIOUS
  <2> HIDE DEF M7, X7, F7
  <2> QED BY <2>1 DEF Plus, Stage
<1>10. Path("cap", s7, Stage(e, e, e, e), Stage(M7, X7, F7, e))
  BY <1>q7
<1> QED BY <1>1, <1>10, <1>8, <1>9, PathBuilds

\* Every probe function builds, whatever fails in it: each failure is one its
\* ladder unwinds, and its remove function unwinds the whole.
THEOREM ProbeFits ==
  ASSUME NEW c \in Cards
  PROVE  ProbeSteps[c] \in Seq(Takings) /\ Builds(c, ProbeSteps[c], Stage({}, {}, {}, {}))
<1> DEFINE e == {}
<1>1. e = {}
  OBVIOUS
<1> HIDE DEF e
<1>2. /\ CapProbe \in Seq(Takings) /\ Builds("cap", CapProbe, Stage(e, e, e, e))
      /\ FfProbe \in Seq(Takings) /\ Builds("ff", FfProbe, Stage(e, e, e, e))
  BY <1>1, CapBuilds, FfBuilds
<1>3. \A crd \in {"budget", "hybrid"} :
        BudgetProbe \in Seq(Takings) /\ Builds(crd, BudgetProbe, Stage(e, e, e, e))
  BY <1>1, BudgetBuilds
<1>4. /\ ProbeSteps["cap"] = CapProbe /\ ProbeSteps["ff"] = FfProbe
      /\ ProbeSteps["budget"] = BudgetProbe /\ ProbeSteps["hybrid"] = BudgetProbe
  BY DEF ProbeSteps, HybridProbe
<1>5. c \in {"cap", "budget", "hybrid", "ff"}
  BY CardsAssumption
<1>6. ProbeSteps[c] \in Seq(Takings) /\ Builds(c, ProbeSteps[c], Stage(e, e, e, e))
  BY <1>2, <1>3, <1>4, <1>5
<1> QED BY <1>6 DEF e
=============================================================================
