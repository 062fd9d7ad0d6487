---------------------------- MODULE SystemPower ----------------------------
(***************************************************************************)
(* The power endpoint that every playback session shares                   *)
(* (SystemPowerState in sky_player/src/engine/shared.rs): Windows delivers *)
(* suspend and resume notifications on its own threads, at any time; a     *)
(* session resets the endpoint, runs a worker and deactivates it again.    *)
(* Callbacks take no lock.  An even/odd epoch and a count of the callbacks *)
(* inside keep those of one session out of the next, and a latch in the    *)
(* startup word ends the session.                                          *)
(*                                                                         *)
(* Every atomic access is a step of its own, in SeqCst order.  Counters    *)
(* and the QPC of the suspend, which only diagnostics read, are left out.  *)
(***************************************************************************)
EXTENDS Integers, FiniteSets, StartupWord

CONSTANTS
    Callbacks,   \* threads that deliver notifications
    Owners,      \* threads that reset and deactivate the endpoint
    Attempts,    \* SYSTEM_POWER_NOTIFY_CAS_ATTEMPTS (8 in the program)
    LastEpoch,   \* u64::MAX: the odd epoch that cannot be followed
    CommandReasons   \* abort reasons with which commands cancel a startup

ASSUME CallbacksAssumption == IsFiniteSet(Callbacks)
ASSUME AttemptsAssumption == Attempts \in Nat \ {0}
ASSUME OwnersAssumption == "free" \notin Owners
ASSUME EpochAssumption == LastEpoch \in Nat /\ LastEpoch % 2 = 1
ASSUME ReasonsAssumption == CommandReasons \subseteq Reason

VARIABLES
    state,                \* transient notification bits
    word,                 \* startup publication word
    callback_epoch,       \* even: open; odd: closed
    callbacks_in_flight,
    lifecycle,            \* holder of the lifecycle mutex
    interrupt,            \* auto-reset event: who signalled since it was last taken
    cb,                   \* program counter and locals of each callback
    owner,                \* program counter and operation of each owner
    worker,               \* program counter and loaded word of the worker
    late                  \* Downs sent in this session after its latch

vars == <<state, word, callback_epoch, callbacks_in_flight, lifecycle, interrupt,
          cb, owner, worker, late>>

Bits == {"OS_SUSPENDED", "SUSPEND_PENDING", "RESUME_PENDING"}
Free == "free"

\* The event is set while this set is not empty.  It tells the two signallers
\* apart only for the properties; the code sees set or not set.
Signallers == {"power", "command"}

\* Where a callback is.  From "authorized" to "signal" it may change state.
CbPc == {"out", "captured", "counted", "authorized", "load", "cas", "overflow",
         "signal", "leaving"}
Acting == {"authorized", "load", "cas", "overflow", "signal"}
Inside == Acting \cup {"counted", "leaving"}
CbState == [pc : CbPc, suspended : BOOLEAN, captured : 0 .. LastEpoch,
            seen : SUBSET Bits, tries : 0 .. Attempts]
CbAt(pc) == [pc |-> pc, suspended |-> FALSE, captured |-> 0, seen |-> {}, tries |-> 0]
CbOut == CbAt("out")

OwnerPc == {"idle", "locked", "rundown", "clear", "clear_word", "drain", "open"}
OwnerState == [pc : OwnerPc, op : {"reset", "deactivate"}]
OwnerIdle == [pc |-> "idle", op |-> "deactivate"]

WorkerPc == {"none", "load", "cas", "check", "wait", "drain", "gate", "send", "done"}
WorkerState == [pc : WorkerPc, seen : Word]
NoWorker == [pc |-> "none", seen |-> IdleWord]

\* SystemPowerEndpoint::new: closed, at epoch one.
Init ==
    /\ state = {}
    /\ word = IdleWord
    /\ callback_epoch = 1
    /\ callbacks_in_flight = 0
    /\ lifecycle = Free
    /\ interrupt = {}
    /\ cb = [c \in Callbacks |-> CbOut]
    /\ owner = [o \in Owners |-> OwnerIdle]
    /\ worker = NoWorker
    /\ late = 0

----------------------------------------------------------------------------
(***************************************************************************)
(* Notification callbacks: enter_callback, the latch, notify_authorized.   *)
(***************************************************************************)

Goto(c, pc) == cb' = [cb EXCEPT ![c].pc = pc]
Leaving(c) == cb' = [cb EXCEPT ![c] = CbAt("leaving")]

\* Counts itself in although the epoch is closed.
Fault_capture_epoch(c) ==
    /\ cb[c].pc = "out"
    /\ \E suspended \in BOOLEAN :
         cb' = [cb EXCEPT ![c] = [pc |-> "captured", suspended |-> suspended,
                                  captured |-> callback_epoch, seen |-> {}, tries |-> 0]]
    /\ UNCHANGED <<state, word, callback_epoch, callbacks_in_flight, lifecycle, interrupt,
                   owner, worker, late>>

\* A closed epoch turns the notification away before it counts itself.
capture_epoch(c) ==
    /\ cb[c].pc = "out"
    /\ callback_epoch % 2 = 0
    /\ \E suspended \in BOOLEAN :
         cb' = [cb EXCEPT ![c] = [pc |-> "captured", suspended |-> suspended,
                                  captured |-> callback_epoch, seen |-> {}, tries |-> 0]]
    /\ UNCHANGED <<state, word, callback_epoch, callbacks_in_flight, lifecycle, interrupt,
                   owner, worker, late>>

count_in(c) ==
    /\ cb[c].pc = "captured"
    /\ callbacks_in_flight' = callbacks_in_flight + 1
    /\ Goto(c, "counted")
    /\ UNCHANGED <<state, word, callback_epoch, lifecycle, interrupt, owner, worker, late>>

\* No second read of the epoch.
Fault_validate_epoch(c) ==
    /\ cb[c].pc = "counted"
    /\ Goto(c, "authorized")
    /\ UNCHANGED <<state, word, callback_epoch, callbacks_in_flight, lifecycle, interrupt,
                   owner, worker, late>>

\* The second read of the epoch: authority, or out again.
validate_epoch(c) ==
    /\ cb[c].pc = "counted"
    /\ IF callback_epoch = cb[c].captured THEN Goto(c, "authorized") ELSE Leaving(c)
    /\ UNCHANGED <<state, word, callback_epoch, callbacks_in_flight, lifecycle, interrupt,
                   owner, worker, late>>

\* The suspend is recorded without the latch.
Fault_latch_suspend(c) ==
    /\ cb[c].pc = "authorized"
    /\ Goto(c, "load")
    /\ UNCHANGED <<state, word, callback_epoch, callbacks_in_flight, lifecycle, interrupt,
                   owner, worker, late>>

\* latch_system_suspend_terminal, for a suspend, before anything else.
latch_suspend(c) ==
    /\ cb[c].pc = "authorized"
    /\ word' = [word EXCEPT !.suspend = @ \/ cb[c].suspended]
    /\ Goto(c, "load")
    /\ UNCHANGED <<state, callback_epoch, callbacks_in_flight, lifecycle, interrupt,
                   owner, worker, late>>

\* One attempt of notify_authorized starts: a duplicate returns.
load_state(c) ==
    /\ cb[c].pc = "load"
    /\ IF ("OS_SUSPENDED" \in state) = cb[c].suspended
       THEN Leaving(c)
       ELSE cb' = [cb EXCEPT ![c].pc = "cas", ![c].seen = state]
    /\ UNCHANGED <<state, word, callback_epoch, callbacks_in_flight, lifecycle, interrupt,
                   owner, worker, late>>

\* The compare-exchange; the attempts are bounded.
cas_state(c) ==
    /\ cb[c].pc = "cas"
    /\ IF state = cb[c].seen
       THEN /\ state' = IF cb[c].suspended
                        THEN state \cup {"OS_SUSPENDED", "SUSPEND_PENDING"}
                        ELSE (state \ {"OS_SUSPENDED"}) \cup {"RESUME_PENDING"}
            /\ cb' = [cb EXCEPT ![c].pc = "signal", ![c].seen = {}]
       ELSE /\ cb' = [cb EXCEPT ![c].tries = @ + 1, ![c].seen = {},
                                ![c].pc = IF cb[c].tries + 1 = Attempts
                                          THEN "overflow" ELSE "load"]
            /\ UNCHANGED state
    /\ UNCHANGED <<word, callback_epoch, callbacks_in_flight, lifecycle, interrupt,
                   owner, worker, late>>

\* Out of attempts: fail closed, whichever notification this was.
exhaust_attempts(c) ==
    /\ cb[c].pc = "overflow"
    /\ state' = state \cup {"OS_SUSPENDED", "SUSPEND_PENDING"}
    /\ Goto(c, "signal")
    /\ UNCHANGED <<word, callback_epoch, callbacks_in_flight, lifecycle, interrupt,
                   owner, worker, late>>

\* Forgets to signal the event.
Fault_signal(c) ==
    /\ cb[c].pc = "signal"
    /\ Leaving(c)
    /\ UNCHANGED <<state, word, callback_epoch, callbacks_in_flight, lifecycle, interrupt,
                   owner, worker, late>>

signal(c) ==
    /\ cb[c].pc = "signal"
    /\ interrupt' = interrupt \cup {"power"}
    /\ Leaving(c)
    /\ UNCHANGED <<state, word, callback_epoch, callbacks_in_flight, lifecycle,
                   owner, worker, late>>

\* Drop of the callback lease, or the rejected entry's own decrement.
leave(c) ==
    /\ cb[c].pc = "leaving"
    /\ callbacks_in_flight' = callbacks_in_flight - 1
    /\ cb' = [cb EXCEPT ![c] = CbOut]
    /\ UNCHANGED <<state, word, callback_epoch, lifecycle, interrupt, owner, worker, late>>

CallbackStep(c) ==
    \/ count_in(c) \/ validate_epoch(c) \/ latch_suspend(c) \/ load_state(c)
    \/ cas_state(c) \/ exhaust_attempts(c) \/ signal(c) \/ leave(c)

----------------------------------------------------------------------------
(***************************************************************************)
(* Lifecycle operations, serialized by a mutex: close_epoch_and_rundown,   *)
(* then the clearing that reset_for_new_session and deactivate do.         *)
(***************************************************************************)

\* The application joins a session's worker before it touches the endpoint.
WorkerQuiescent == worker.pc \in {"none", "done"}

lock(o) ==
    /\ owner[o].pc = "idle"
    /\ WorkerQuiescent
    /\ lifecycle = Free
    /\ lifecycle' = o
    /\ \E op \in {"reset", "deactivate"} : owner' = [owner EXCEPT ![o] = [pc |-> "locked", op |-> op]]
    /\ UNCHANGED <<state, word, callback_epoch, callbacks_in_flight, interrupt, cb, worker, late>>

close_epoch(o) ==
    /\ owner[o].pc = "locked"
    /\ callback_epoch' = IF callback_epoch % 2 = 0 THEN callback_epoch + 1 ELSE callback_epoch
    /\ owner' = [owner EXCEPT ![o].pc = "rundown"]
    /\ UNCHANGED <<state, word, callbacks_in_flight, lifecycle, interrupt, cb, worker, late>>

\* Does not wait for the callbacks inside.
Fault_rundown(o) ==
    /\ owner[o].pc = "rundown"
    /\ owner' = [owner EXCEPT ![o].pc = "clear"]
    /\ UNCHANGED <<state, word, callback_epoch, callbacks_in_flight, lifecycle, interrupt,
                   cb, worker, late>>

\* The spin loop ends when it reads zero callbacks inside.
rundown(o) ==
    /\ owner[o].pc = "rundown"
    /\ callbacks_in_flight = 0
    /\ owner' = [owner EXCEPT ![o].pc = "clear"]
    /\ UNCHANGED <<state, word, callback_epoch, callbacks_in_flight, lifecycle, interrupt,
                   cb, worker, late>>

clear_state(o) ==
    /\ owner[o].pc = "clear"
    /\ state' = {}
    /\ owner' = [owner EXCEPT ![o].pc = IF owner[o].op = "reset" THEN "clear_word" ELSE "drain"]
    /\ UNCHANGED <<word, callback_epoch, callbacks_in_flight, lifecycle, interrupt, cb, worker, late>>

\* reset_startup: only a new session clears the latch.
reset_startup(o) ==
    /\ owner[o].pc = "clear_word"
    /\ word' = IdleWord
    /\ late' = 0
    /\ owner' = [owner EXCEPT ![o].pc = "drain"]
    /\ UNCHANGED <<state, callback_epoch, callbacks_in_flight, lifecycle, interrupt, cb, worker>>

\* try_take: drop the signal of the old session.
drain(o) ==
    /\ owner[o].pc = "drain"
    /\ interrupt' = {}
    /\ IF owner[o].op = "reset"
       THEN owner' = [owner EXCEPT ![o].pc = "open"] /\ UNCHANGED lifecycle
       ELSE owner' = [owner EXCEPT ![o] = OwnerIdle] /\ lifecycle' = Free
    /\ UNCHANGED <<state, word, callback_epoch, callbacks_in_flight, cb, worker, late>>

\* Open the next even epoch, or stay closed for good when the counter is
\* exhausted (checked_add).  The session that reset for itself may then run.
open_epoch(o) ==
    /\ owner[o].pc = "open"
    /\ lifecycle' = Free
    /\ owner' = [owner EXCEPT ![o] = OwnerIdle]
    /\ IF callback_epoch = LastEpoch
       THEN UNCHANGED <<callback_epoch, worker>>
       ELSE callback_epoch' = callback_epoch + 1 /\ worker' = NoWorker
    /\ UNCHANGED <<state, word, callbacks_in_flight, interrupt, cb, late>>

OwnerStep(o) ==
    \/ close_epoch(o) \/ rundown(o) \/ clear_state(o) \/ reset_startup(o)
    \/ drain(o) \/ open_epoch(o)

----------------------------------------------------------------------------
(***************************************************************************)
(* The session's worker, as far as power goes: the four startup moves, the *)
(* control check at the top of the dispatch loop, the interruptible wait,  *)
(* and the final gate before a Down.                                       *)
(***************************************************************************)

SetWorker(pc) == worker' = [worker EXCEPT !.pc = pc]
WorkerOnly == UNCHANGED <<state, word, callback_epoch, callbacks_in_flight, lifecycle,
                          interrupt, cb, owner, late>>

\* Looks at the transient bit, which a resume clears.
Transient_system_suspend_terminal == "OS_SUSPENDED" \in state

\* The latch, which down_blocked reads too; the transient state plays no part.
system_suspend_terminal == word.suspend

\* arm spawns the worker of a session that just reset the endpoint.
StartWorker ==
    /\ worker.pc = "none"
    /\ lifecycle = Free
    /\ callback_epoch % 2 = 0
    /\ SetWorker("load")
    /\ WorkerOnly

\* move_startup_phase, the load: the latch or another phase ends the startup.
load_word ==
    /\ worker.pc = "load"
    /\ worker' = IF word.phase \in PreArm /\ movable(word, word.phase)
                 THEN [pc |-> "cas", seen |-> word]
                 ELSE [pc |-> "done", seen |-> IdleWord]
    /\ WorkerOnly

\* Stores over a word that was latched after the load.
Fault_cas_word ==
    /\ worker.pc = "cas"
    /\ IF word.phase = worker.seen.phase
       THEN /\ word' = moved(worker.seen)
            /\ worker' = [pc |-> IF word'.armed THEN "check" ELSE "load", seen |-> IdleWord]
       ELSE /\ worker' = [pc |-> "done", seen |-> IdleWord]
            /\ UNCHANGED word
    /\ UNCHANGED <<state, callback_epoch, callbacks_in_flight, lifecycle, interrupt,
                   cb, owner, late>>

\* ... and the compare-exchange, tried once.
cas_word ==
    /\ worker.pc = "cas"
    /\ IF word = worker.seen
       THEN /\ word' = moved(word)
            /\ worker' = [pc |-> IF word'.armed THEN "check" ELSE "load", seen |-> IdleWord]
       ELSE /\ worker' = [pc |-> "done", seen |-> IdleWord]
            /\ UNCHANGED word
    /\ UNCHANGED <<state, callback_epoch, callbacks_in_flight, lifecycle, interrupt,
                   cb, owner, late>>

\* process_command_control: the latch ends the loop; so may the song.
check_control ==
    /\ worker.pc = "check"
    /\ \/ system_suspend_terminal /\ SetWorker("done")
       \/ ~system_suspend_terminal /\ \E pc \in {"wait", "gate", "done"} : SetWorker(pc)
    /\ WorkerOnly

\* The wait takes the signal; the loop drains what came after it and goes
\* back to the control check.
wait_interrupted ==
    /\ worker.pc = "wait"
    /\ interrupt # {}
    /\ interrupt' = {}
    /\ SetWorker("drain")
    /\ UNCHANGED <<state, word, callback_epoch, callbacks_in_flight, lifecycle, cb, owner, late>>
drain_interrupt ==
    /\ worker.pc = "drain"
    /\ interrupt' = {}
    /\ SetWorker("check")
    /\ UNCHANGED <<state, word, callback_epoch, callbacks_in_flight, lifecycle, cb, owner, late>>

\* The deadline: a note is due, or the paused poll goes round again; a wait
\* or clock that fails ends the session.
wait_deadline ==
    /\ worker.pc = "wait"
    /\ \E pc \in {"gate", "check", "done"} : SetWorker(pc)
    /\ WorkerOnly

\* final_control_precheck: down_blocked turns the Down away.
final_control_precheck ==
    /\ worker.pc = "gate"
    /\ SetWorker(IF system_suspend_terminal THEN "check" ELSE "send")
    /\ WorkerOnly

\* The Down itself, after the gate.
send_down ==
    /\ worker.pc = "send"
    /\ late' = IF word.suspend THEN late + 1 ELSE late
    /\ SetWorker("check")
    /\ UNCHANGED <<state, word, callback_epoch, callbacks_in_flight, lifecycle, interrupt,
                   cb, owner>>

(***************************************************************************)
(* Session commands check the lifecycle of their own session and then act  *)
(* on the process-wide word and event.  Nothing orders the two against the *)
(* end of that session: a command that is delayed between them acts while  *)
(* a later session resets, starts or runs, so all that its steps need here *)
(* is that some session was opened before.                                 *)
(***************************************************************************)
CommandPending == callback_epoch # 1

\* Pause, resume, a new target or focus hint, and the end of every command
\* that stops a session signal the same event.
CommandSignal ==
    /\ CommandPending
    /\ interrupt' = interrupt \cup {"command"}
    /\ UNCHANGED <<state, word, callback_epoch, callbacks_in_flight, lifecycle,
                   cb, owner, worker, late>>

\* Skip, quit, panic release, the lease expiry and an invalidated target,
\* owner or focus first cancel the startup (cancel_prearm).
CommandCancel ==
    /\ CommandPending
    /\ \E reason \in CommandReasons :
         cancellable(word, reason) /\ word' = cancelled(word, reason)
    /\ UNCHANGED <<state, callback_epoch, callbacks_in_flight, lifecycle, interrupt,
                   cb, owner, worker, late>>

WorkerStep ==
    \/ load_word \/ cas_word \/ check_control \/ wait_interrupted \/ drain_interrupt
    \/ wait_deadline \/ final_control_precheck \/ send_down

Next ==
    \/ \E c \in Callbacks : capture_epoch(c) \/ CallbackStep(c)
    \/ \E o \in Owners : lock(o) \/ OwnerStep(o)
    \/ StartWorker
    \/ WorkerStep
    \/ CommandSignal \/ CommandCancel

\* Threads inside an operation keep running; new notifications and new
\* operations may stay away.  Every wait has a deadline.
Fairness ==
    /\ \A c \in Callbacks : WF_vars(CallbackStep(c))
    /\ \A o \in Owners : WF_vars(OwnerStep(o))
    /\ WF_vars(WorkerStep)

Spec == Init /\ [][Next]_vars /\ Fairness

----------------------------------------------------------------------------
(***************************************************************************)
(* Properties.                                                             *)
(***************************************************************************)

Types ==
    /\ state \subseteq Bits
    /\ word \in Word
    /\ callback_epoch \in 0 .. LastEpoch
    /\ callbacks_in_flight \in Nat
    /\ lifecycle \in Owners \cup {Free}
    /\ interrupt \subseteq Signallers
    /\ cb \in [Callbacks -> CbState]
    /\ owner \in [Owners -> OwnerState]
    /\ worker \in WorkerState
    /\ late \in Nat

\* The state is well formed and the count of callbacks inside is exact, so
\* the fetch_sub of a leaving callback never underflows.
TypeOK ==
    /\ Types
    /\ callbacks_in_flight = Cardinality({c \in Callbacks : cb[c].pc \in Inside})

\* A callback with authority belongs to the session that is open, or to the
\* one being closed while its rundown still waits: once the clearing starts,
\* no callback of the old session can touch state, latch or event, and no
\* late one ever reaches the next session (enter_callback's two epoch reads
\* around the increment against close_epoch_and_rundown).
RundownExcludesCallbacks ==
    \A c \in Callbacks : cb[c].pc \in Acting =>
        \/ callback_epoch = cb[c].captured
        \/ /\ callback_epoch = cb[c].captured + 1
           /\ \A o \in Owners : owner[o].pc \in {"idle", "locked", "rundown"}

\* The words a session may find when it opens: its own reset, or that reset
\* overtaken by the cancellation of a delayed command.
FreshWords == {IdleWord} \cup {cancelled(IdleWord, reason) : reason \in CommandReasons}

\* A session starts clean of power: when reset_for_new_session opens its epoch
\* no bit, latch or signal of an earlier session's notifications is left.  A
\* delayed command of an earlier session is the one thing that can precede
\* it: it may have cancelled the word after reset_startup, which ends the new
\* session's startup, or signalled after try_take, which wakes it once.
SessionStartsClean ==
    [][\A o \in Owners : open_epoch(o) /\ callback_epoch' # callback_epoch
         => state = {} /\ word \in FreshWords /\ "power" \notin interrupt]_vars

\* While the operating system is recorded as suspended the session's latch is
\* set, so that even a notification that ran out of attempts and fails closed
\* never leaves the two in disagreement.
SuspendedImpliesLatched == "OS_SUSPENDED" \in state => word.suspend

\* The latch and the arm publication have one linearization point: no word
\* becomes Armed once it carries the latch, whatever the worker loaded
\* before.
LatchedNeverArms == [][word.suspend => (word'.armed => word.armed)]_vars

\* Resume never reopens Down admission, and of the Downs of a session at most
\* the one that had already passed its final gate is sent after the latch.
AtMostOneLateDown == late <= 1

\* No lost wake-up: a worker waiting on its event after the latch was set has
\* a signal pending, or a callback that is still on its way to signal.
LatchWakesWorker ==
    word.suspend /\ worker.pc = "wait" =>
        \/ interrupt # {}
        \/ \E c \in Callbacks : cb[c].pc \in {"load", "cas", "overflow", "signal"}

\* A lifecycle operation ends: the rundown waits only for callbacks that were
\* already inside, however many notifications keep arriving.
LifecycleCompletes ==
    \A o \in Owners : owner[o].pc # "idle" ~> owner[o].pc = "idle"

\* An accepted suspend ends the session's worker.
SuspendStopsWorker == word.suspend /\ ~WorkerQuiescent ~> WorkerQuiescent
============================================================================
