---------------------------- MODULE RemoteControl ----------------------------
(***************************************************************************)
(* The remote control of the full-featured card: the interrupt handler     *)
(* stores a command and schedules a tasklet, which reports keys to the     *)
(* input layer and restarts the key-up timer; a key is released when the   *)
(* timer expires or another key is pressed. Tasklet and timer may run at   *)
(* the same time on two CPUs; only the input layer's events are atomic.    *)
(*                                                                         *)
(* Commands are pairs of a key and a toggle bit; NoKey stands for a code   *)
(* without a key code, which an application's key map may hold.            *)
(***************************************************************************)
EXTENDS Integers

CONSTANTS Keys,          \* key codes
          MaxIrCommands  \* bound on the commands received

NoKey == "nokey"
ASSUME KeysAssumption == Keys # {} /\ NoKey \notin Keys
ASSUME IrBoundsAssumption == MaxIrCommands \in Nat

VARIABLES
  irState,   \* "off", "up", the steps of saa716x_ir_exit(), "gone" or "oops"
  irPriv,    \* saa716x->ir_priv is set
  irCommand, \* ir->command
  irTask,    \* the tasklet: scheduled, its step, key and toggle
  last_key, last_toggle, delay_timer_finished,
  keyup,     \* the key-up timer is pending
  keyupFn,   \* the step of its function
  irHandler, \* the interrupt handler has found ir_priv set
  irKeys,    \* keys the input layer holds pressed
  irRaced,   \* last_key was changed under the key-up function
  irCommands

irVars == <<irState, irPriv, irCommand, irTask, last_key, last_toggle,
            delay_timer_finished, keyup, keyupFn, irHandler, irKeys, irRaced,
            irCommands>>

Commands == [key : Keys \cup {NoKey}, toggle : {0, 1}]
IdleTask == [sched |-> FALSE, step |-> "idle", key |-> NoKey, toggle |-> 0]
TaskStep(step) == irTask' = [irTask EXCEPT !.step = step]

-----------------------------------------------------------------------------
(* Interrupt handler *)

\* saa716x_ir_handler() finds ir_priv ...
IrCommand ==
  /\ irState \notin {"gone", "oops"} /\ irPriv /\ ~irHandler
  /\ irCommands < MaxIrCommands
  /\ irHandler' = TRUE /\ irCommands' = irCommands + 1
  /\ UNCHANGED <<irState, irPriv, irCommand, irTask, last_key, last_toggle,
                 delay_timer_finished, keyup, keyupFn, irKeys, irRaced>>

\* ... and stores the command over one not yet seen. (The structure may be freed.)
IrSchedule ==
  /\ irHandler /\ irHandler' = FALSE
  /\ IF irState = "gone" THEN irState' = "oops" /\ UNCHANGED <<irCommand, irTask>>
     ELSE /\ irCommand' \in Commands
          /\ irTask' = [irTask EXCEPT !.sched = TRUE]
          /\ UNCHANGED irState
  /\ UNCHANGED <<irPriv, last_key, last_toggle, delay_timer_finished, keyup, keyupFn,
                 irKeys, irRaced, irCommands>>

-----------------------------------------------------------------------------
(* Tasklet *)

\* ir_emit_key(): a code without a key is ignored.
EmitBegin ==
  /\ irTask.sched /\ irTask.step = "idle" /\ irState \notin {"gone", "oops"}
  /\ IF ~irPriv THEN irState' = "oops" /\ UNCHANGED irTask
     ELSE /\ irTask' = IF irCommand.key = NoKey THEN IdleTask
                       ELSE [sched |-> FALSE, step |-> "test", key |-> irCommand.key,
                             toggle |-> irCommand.toggle]
          /\ UNCHANGED irState
  /\ UNCHANGED <<irPriv, irCommand, last_key, last_toggle, delay_timer_finished, keyup,
                 keyupFn, irHandler, irKeys, irRaced, irCommands>>

EmitTest ==
  /\ irTask.step = "test"
  /\ TaskStep(IF keyup THEN "del" ELSE "press")
  /\ UNCHANGED <<irState, irPriv, irCommand, last_key, last_toggle,
                 delay_timer_finished, keyup, keyupFn, irHandler, irKeys, irRaced,
                 irCommands>>

EmitDel ==
  /\ irTask.step = "del"
  /\ keyup' = FALSE /\ TaskStep("change")
  /\ UNCHANGED <<irState, irPriv, irCommand, last_key, last_toggle,
                 delay_timer_finished, keyupFn, irHandler, irKeys, irRaced, irCommands>>

\* A mutant of EmitChange: the key before is not released.
EmitChangeKeeps ==
  /\ irTask.step = "change"
  /\ irKeys' = irKeys \cup {irTask.key}
  /\ delay_timer_finished' = FALSE /\ TaskStep("store")
  /\ UNCHANGED <<irState, irPriv, irCommand, last_key, last_toggle, keyup, keyupFn,
                 irHandler, irRaced, irCommands>>

\* The timer was pending: another key releases the last one, the same key repeats
\* (which changes no key's state).
EmitChange ==
  /\ irTask.step = "change"
  /\ IF last_key # irTask.key \/ irTask.toggle # last_toggle
     THEN irKeys' = (irKeys \ {last_key}) \cup {irTask.key}
          /\ delay_timer_finished' = FALSE
     ELSE UNCHANGED <<irKeys, delay_timer_finished>>
  /\ TaskStep("store")
  /\ UNCHANGED <<irState, irPriv, irCommand, last_key, last_toggle, keyup, keyupFn,
                 irHandler, irRaced, irCommands>>

EmitPress ==
  /\ irTask.step = "press"
  /\ irKeys' = irKeys \cup {irTask.key}
  /\ delay_timer_finished' = FALSE /\ TaskStep("store")
  /\ UNCHANGED <<irState, irPriv, irCommand, last_key, last_toggle, keyup, keyupFn,
                 irHandler, irRaced, irCommands>>

EmitStore ==
  /\ irTask.step = "store"
  /\ last_key' = irTask.key /\ last_toggle' = irTask.toggle
  /\ irRaced' = (irRaced \/ (keyupFn # "idle" /\ last_key # irTask.key))
  /\ TaskStep("arm")
  /\ UNCHANGED <<irState, irPriv, irCommand, delay_timer_finished, keyup, keyupFn,
                 irHandler, irKeys, irCommands>>

EmitArm ==
  /\ irTask.step = "arm"
  /\ keyup' = TRUE
  /\ irTask' = [IdleTask EXCEPT !.sched = irTask.sched]
  /\ UNCHANGED <<irState, irPriv, irCommand, last_key, last_toggle,
                 delay_timer_finished, keyupFn, irHandler, irKeys, irRaced, irCommands>>

-----------------------------------------------------------------------------
(* Timers *)

KeyupExpires ==
  /\ keyup /\ keyupFn = "idle"
  /\ keyup' = FALSE /\ keyupFn' = "test"
  /\ UNCHANGED <<irState, irPriv, irCommand, irTask, last_key, last_toggle,
                 delay_timer_finished, irHandler, irKeys, irRaced, irCommands>>

\* ir_emit_keyup() tests last_key, and reports the last_key it reads then.
KeyupTest ==
  /\ keyupFn = "test"
  /\ keyupFn' = IF last_key \in irKeys THEN "report" ELSE "idle"
  /\ UNCHANGED <<irState, irPriv, irCommand, irTask, last_key, last_toggle,
                 delay_timer_finished, keyup, irHandler, irKeys, irRaced, irCommands>>

KeyupReport ==
  /\ keyupFn = "report"
  /\ irKeys' = irKeys \ {last_key} /\ keyupFn' = "idle"
  /\ UNCHANGED <<irState, irPriv, irCommand, irTask, last_key, last_toggle,
                 delay_timer_finished, keyup, irHandler, irRaced, irCommands>>

\* ir_repeat_key(), the input layer's timer while a key is pressed.
RepeatDelay ==
  /\ irKeys # {} /\ irState # "gone" /\ ~delay_timer_finished
  /\ delay_timer_finished' = TRUE
  /\ UNCHANGED <<irState, irPriv, irCommand, irTask, last_key, last_toggle, keyup,
                 keyupFn, irHandler, irKeys, irRaced, irCommands>>

-----------------------------------------------------------------------------
(* Probe and remove *)

\* saa716x_ir_init(): ir_priv is set last; a failure leaves nothing.
IrInitCall ==
  /\ irState = "off"
  /\ \/ irState' = "up" /\ irPriv' = TRUE
     \/ irState' = "gone" /\ UNCHANGED irPriv
  /\ UNCHANGED <<irCommand, irTask, last_key, last_toggle, delay_timer_finished, keyup,
                 keyupFn, irHandler, irKeys, irRaced, irCommands>>

\* saa716x_ir_exit(): ir_priv is cleared, then tasklet_kill() lets a scheduled
\* tasklet run, del_timer_sync() waits for the timer's function, and the input
\* layer releases what is pressed.
IrExit ==
  /\ \/ irState = "up" /\ irState' = "kill" /\ irPriv' = FALSE
        /\ UNCHANGED <<keyup, irKeys>>
     \/ irState = "kill" /\ irTask = IdleTask /\ irState' = "timer"
        /\ UNCHANGED <<irPriv, keyup, irKeys>>
     \/ irState = "timer" /\ keyupFn = "idle" /\ irState' = "input" /\ keyup' = FALSE
        /\ UNCHANGED <<irPriv, irKeys>>
     \/ irState = "input" /\ irState' = "gone" /\ irKeys' = {}
        /\ UNCHANGED <<irPriv, keyup>>
  /\ UNCHANGED <<irCommand, irTask, last_key, last_toggle, delay_timer_finished,
                 keyupFn, irHandler, irRaced, irCommands>>

IrInit ==
  /\ irState = "off" /\ irPriv = FALSE /\ irTask = IdleTask
  /\ irCommand = [key |-> NoKey, toggle |-> 0]
  /\ last_key = NoKey /\ last_toggle = 0 /\ delay_timer_finished = FALSE
  /\ keyup = FALSE /\ keyupFn = "idle" /\ irHandler = FALSE
  /\ irKeys = {} /\ irRaced = FALSE /\ irCommands = 0

IrNext ==
  \/ IrCommand \/ IrSchedule
  \/ EmitBegin \/ EmitTest \/ EmitDel \/ EmitChange \/ EmitPress \/ EmitStore \/ EmitArm
  \/ KeyupExpires \/ KeyupTest \/ KeyupReport \/ RepeatDelay
  \/ IrInitCall \/ IrExit

IrSpec == IrInit /\ [][IrNext]_irVars

-----------------------------------------------------------------------------
(* Properties *)

IrTypeOK ==
  /\ irState \in {"off", "up", "kill", "timer", "input", "gone", "oops"}
  /\ irCommand \in Commands
  /\ irTask \in [sched : BOOLEAN, key : Keys \cup {NoKey}, toggle : {0, 1},
                 step : {"idle", "test", "del", "change", "press", "store", "arm"}]
  /\ last_key \in Keys \cup {NoKey} /\ last_toggle \in {0, 1}
  /\ keyupFn \in {"idle", "test", "report"} /\ irKeys \subseteq Keys
  /\ {irPriv, delay_timer_finished, keyup, irHandler, irRaced} \subseteq BOOLEAN
  /\ irCommands \in 0 .. MaxIrCommands

\* No key stays pressed: when neither the tasklet nor the key-up function is at
\* work, only the last key is pressed and the timer that releases it is pending,
\* until the device is closed; afterwards no key is pressed. (Excepted is a tasklet
\* that changes last_key while the key-up function runs: the function then releases
\* the new key, and the old one stays pressed.)
NoStuckKey ==
  ~irRaced =>
    /\ irState \in {"up", "kill"} /\ irTask.step = "idle" /\ keyupFn = "idle" =>
         irKeys \subseteq {last_key} /\ (irKeys # {} => keyup)
    /\ irState = "gone" => irKeys = {} /\ ~keyup

=============================================================================
