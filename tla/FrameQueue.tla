----------------------------- MODULE FrameQueue -----------------------------
(***************************************************************************)
(* What a capture queue promises the application, whatever is behind it:   *)
(* buffers come back full in the order they were queued, each once, only   *)
(* while the queue runs, numbered from 0 without a gap; stopping gives     *)
(* every buffer back.                                                      *)
(***************************************************************************)
EXTENDS Integers, Sequences

CONSTANTS Buffers, CountWrap

VARIABLES owner,    \* "app", "queue", "full" or "flushed"
          fifo,     \* the buffers of the queue, oldest first
          running,  \* the queue has been started
          count     \* the number the next full buffer gets

fqVars == <<owner, fifo, running, count>>

Init ==
  /\ owner = [b \in Buffers |-> "app"]
  /\ fifo = <<>>
  /\ running = FALSE
  /\ count = 0

Queue(b) ==
  /\ owner[b] = "app"
  /\ owner' = [owner EXCEPT ![b] = "queue"]
  /\ fifo' = Append(fifo, b)
  /\ UNCHANGED <<running, count>>

Start ==
  /\ ~running /\ fifo # <<>>
  /\ running' = TRUE
  /\ count' = 0
  /\ UNCHANGED <<owner, fifo>>

\* A start that fails delivers nothing and loses nothing.
StartFail ==
  /\ running /\ count = 0
  /\ running' = FALSE
  /\ UNCHANGED <<owner, fifo, count>>

Deliver ==
  /\ running /\ fifo # <<>>
  /\ owner' = [owner EXCEPT ![Head(fifo)] = "full"]
  /\ fifo' = Tail(fifo)
  /\ count' = (count + 1) % CountWrap
  /\ UNCHANGED running

Fetch(b) ==
  /\ owner[b] = "full"
  /\ owner' = [owner EXCEPT ![b] = "app"]
  /\ UNCHANGED <<fifo, running, count>>

Flush ==
  /\ running
  /\ owner' = [b \in Buffers |-> IF owner[b] = "queue" THEN "flushed" ELSE owner[b]]
  /\ fifo' = <<>>
  /\ running' = FALSE
  /\ UNCHANGED count

Release ==
  /\ ~running
  /\ owner' = [b \in Buffers |-> "app"]
  /\ fifo' = <<>>
  /\ UNCHANGED <<running, count>>

Next ==
  \/ \E b \in Buffers : Queue(b) \/ Fetch(b)
  \/ Start \/ StartFail \/ Deliver \/ Flush \/ Release

Spec == Init /\ [][Next]_fqVars

=============================================================================
