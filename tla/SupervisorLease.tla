-------------------------- MODULE SupervisorLease --------------------------
(***************************************************************************)
(* The supervisor lease of a running session (SupervisorLeaseState in      *)
(* sky_player/src/engine/shared.rs): the desktop's playback supervisor     *)
(* certifies its iterations, a watchdog thread and the worker's own gates  *)
(* look at the age of the last one, and all of them race on one AtomicU64  *)
(* that holds the last progress stamp and a sticky expiry bit.  Expiry     *)
(* cancels a startup that has not armed and stops the worker.              *)
(*                                                                         *)
(* Every atomic access is a step.  QPC is the variable `now'; a thread     *)
(* samples it and acts on the sample later.  The model starts when arm has *)
(* reset the lease, stored RUNNING and spawned both threads.  The bit that *)
(* marks expiry is never set in a QPC value (a nonnegative i64), so the    *)
(* word is a record.                                                       *)
(***************************************************************************)
EXTENDS Integers, StartupWord

CONSTANTS
    Supervisors,  \* threads that call publish_supervisor_progress
    Timeout,      \* lease timeout in ticks
    MaxTicks      \* bound on the clock

ASSUME TimeoutAssumption == Timeout \in Nat \ {0}
ASSUME MaxTicksAssumption == MaxTicks \in Nat \ {0}
ASSUME SupervisorsAssumption == "watchdog" \notin Supervisors

Watchdog == "watchdog"
Threads == Supervisors \cup {Watchdog}

VARIABLES
    now,              \* QueryPerformanceCounter
    lease,            \* the atomic: last progress stamp and expiry bit
    word,             \* startup publication word
    panic_requested,
    interrupt,        \* auto-reset event the worker waits on
    completed,        \* the flag the done mutex protects
    th,               \* program counter and locals of supervisors and watchdog
    worker,           \* program counter and locals of the worker
    late              \* Downs sent after the lease expired

vars == <<now, lease, word, panic_requested, interrupt, completed, th, worker, late>>

Ticks == 1 .. MaxTicks
Lease == [ticks : Ticks, expired : BOOLEAN]
NoLease == [ticks |-> 1, expired |-> FALSE]

\* at: the QPC sample, or the watchdog's wake-up time; seen: the lease loaded
\* before a compare-exchange.
Thread == [pc : {"idle", "check", "load", "expire", "renew", "heartbeat", "wait",
                 "cancel", "latch", "panic", "wake", "done"},
           at : Nat, seen : Lease]

WorkerPc == {"load", "cas", "checkpoint", "epoch", "sample", "prove", "prove_cas", "reload",
             "reject", "reject_latch", "abort", "control", "wait", "drain", "gate", "final",
             "send", "finish", "complete", "done"}
Worker == [pc : WorkerPc, at : Nat, seen : Lease, word : Word]

Init ==
    /\ now = 1
    /\ lease = [ticks |-> 1, expired |-> FALSE]
    /\ word = IdleWord
    /\ panic_requested = FALSE
    /\ interrupt = FALSE
    /\ completed = FALSE
    /\ th = [t \in Threads |-> [pc |-> IF t = Watchdog THEN "wait" ELSE "idle",
                                at |-> 1, seen |-> NoLease]]
    /\ worker = [pc |-> "load", at |-> 0, seen |-> NoLease, word |-> IdleWord]
    /\ late = 0

Tick == /\ now < MaxTicks
        /\ now' = now + 1
        /\ UNCHANGED <<lease, word, panic_requested, interrupt, completed, th, worker, late>>

\* The operands of the subtraction swapped.
Fault_overdue(at, ticks) == ticks >= at /\ ticks - at > Timeout

\* The last stamp is too old for a thread that sampled `at'.
overdue(at, ticks) == at >= ticks /\ at - ticks > Timeout

\* A thread that moves on drops its locals; one that retries keeps its sample.
Goto(t, pc) == th' = [th EXCEPT ![t] = [pc |-> pc, at |-> 1, seen |-> NoLease]]
Retry(t) == th' = [th EXCEPT ![t].pc = "load", ![t].seen = NoLease]
Shared == <<now, lease, word, panic_requested, interrupt, completed, worker, late>>

----------------------------------------------------------------------------
(***************************************************************************)
(* publish_supervisor_progress and supervisor_watchdog_loop.               *)
(***************************************************************************)

\* The supervisor reads the clock while the session is RUNNING; a clock that
\* fails counts as expiry.
publish_supervisor_progress(s) ==
    /\ s \in Supervisors
    /\ th[s].pc = "idle"
    /\ worker.pc \notin {"complete", "done"}
    /\ \/ th' = [th EXCEPT ![s].pc = "load", ![s].at = now]
       \/ Goto(s, "cancel")
    /\ UNCHANGED Shared

\* The watchdog does the same with the done mutex held.
watchdog_check ==
    /\ th[Watchdog].pc = "check"
    /\ \/ th' = [th EXCEPT ![Watchdog].pc = "load", ![Watchdog].at = now]
       \/ Goto(Watchdog, "cancel")
    /\ UNCHANGED Shared

\* check_expired and publish_progress load the lease: expired or overdue
\* first; then a supervisor renews unless another stamp is newer.
load_lease(t) ==
    /\ th[t].pc = "load"
    /\ LET late_now == overdue(th[t].at, lease.ticks)
           keep(pc) == th' = [th EXCEPT ![t].pc = pc, ![t].seen = lease]
       IN  \/ lease.expired /\ Goto(t, "cancel")
           \/ ~lease.expired /\ late_now /\ keep("expire")
           \/ ~lease.expired /\ ~late_now /\ t = Watchdog
                /\ th' = [th EXCEPT ![t].pc = "heartbeat"]
           \/ ~lease.expired /\ ~late_now /\ t # Watchdog
                /\ IF th[t].at < lease.ticks THEN Goto(t, "idle") ELSE keep("renew")
    /\ UNCHANGED Shared

\* The compare-exchange that latches expiry; on failure the loop reloads.
cas_expire(t) ==
    /\ th[t].pc = "expire"
    /\ IF lease = th[t].seen
       THEN lease' = [lease EXCEPT !.expired = TRUE] /\ Goto(t, "cancel")
       ELSE UNCHANGED lease /\ Retry(t)
    /\ UNCHANGED <<now, word, panic_requested, interrupt, completed, worker, late>>

\* Stores the stamp without comparing: a lost race overwrites the winner.
Fault_cas_renew(s) ==
    /\ th[s].pc = "renew"
    /\ lease' = [ticks |-> th[s].at, expired |-> FALSE]
    /\ Goto(s, "idle")
    /\ UNCHANGED <<now, word, panic_requested, interrupt, completed, worker, late>>

\* The compare-exchange that renews.
cas_renew(s) ==
    /\ th[s].pc = "renew"
    /\ IF lease = th[s].seen
       THEN lease' = [ticks |-> th[s].at, expired |-> FALSE] /\ Goto(s, "idle")
       ELSE UNCHANGED lease /\ Retry(s)
    /\ UNCHANGED <<now, word, panic_requested, interrupt, completed, worker, late>>

\* The watchdog rereads the stamp and sleeps until it runs out, at least one
\* tick; a stamp in its future buys a whole timeout.
watchdog_wait ==
    LET at == th[Watchdog].at
        remaining == IF lease.ticks >= at THEN Timeout
                     ELSE IF at - lease.ticks >= Timeout THEN 1
                     ELSE Timeout - (at - lease.ticks)
    IN  /\ th[Watchdog].pc = "heartbeat"
        /\ th' = [th EXCEPT ![Watchdog].pc = "wait", ![Watchdog].at = at + remaining]
        /\ UNCHANGED Shared

\* The condition variable may also wake it early.
watchdog_wake ==
    /\ th[Watchdog].pc = "wait"
    /\ Goto(Watchdog, IF completed THEN "done" ELSE "check")
    /\ UNCHANGED Shared

----------------------------------------------------------------------------
(***************************************************************************)
(* signal_supervisor_expiry, four stores in this order.                    *)
(***************************************************************************)

\* cancel_prearm, for the reason expiry has.
cancel_prearm(w) ==
    IF cancellable(w, "SupervisorLeaseExpired") THEN cancelled(w, "SupervisorLeaseExpired") ELSE w

signal_cancel(t) ==
    /\ th[t].pc = "cancel"
    /\ word' = cancel_prearm(word)
    /\ Goto(t, "latch")
    /\ UNCHANGED <<now, lease, panic_requested, interrupt, completed, worker, late>>

signal_latch(t) ==
    /\ th[t].pc = "latch"
    /\ lease' = [lease EXCEPT !.expired = TRUE]
    /\ Goto(t, "panic")
    /\ UNCHANGED <<now, word, panic_requested, interrupt, completed, worker, late>>

signal_panic(t) ==
    /\ th[t].pc = "panic"
    /\ panic_requested' = TRUE
    /\ Goto(t, "wake")
    /\ UNCHANGED <<now, lease, word, interrupt, completed, worker, late>>

signal_wake(t) ==
    /\ th[t].pc = "wake"
    /\ interrupt' = TRUE
    /\ Goto(t, IF t = Watchdog THEN "done" ELSE "idle")
    /\ UNCHANGED <<now, lease, word, panic_requested, completed, worker, late>>

ThreadStep(t) ==
    \/ load_lease(t) \/ cas_expire(t) \/ cas_renew(t)
    \/ signal_cancel(t) \/ signal_latch(t) \/ signal_panic(t) \/ signal_wake(t)

----------------------------------------------------------------------------
(***************************************************************************)
(* The worker: startup moves and checkpoints, the lease proof before it    *)
(* arms and before every Down, control check and wait.                     *)
(***************************************************************************)

\* The sample of a proof lives until the Down or the arm it admits.
Proving == {"prove", "prove_cas", "reload", "epoch", "load", "cas", "final", "send"}
SetWorker(pc) ==
    worker' = [pc |-> pc, at |-> IF pc \in Proving THEN worker.at ELSE 0,
               seen |-> NoLease, word |-> IdleWord]
WorkerOnly == UNCHANGED <<now, lease, word, panic_requested, interrupt, completed, th, late>>

load_word ==
    /\ worker.pc = "load"
    /\ IF word.phase \in PreArm /\ movable(word, word.phase)
       THEN worker' = [worker EXCEPT !.pc = "cas", !.word = word]
       ELSE SetWorker("abort")
    /\ WorkerOnly

\* begin_preparing, publish_ready, begin_arming and publish_armed.
cas_word ==
    /\ worker.pc = "cas"
    /\ IF word = worker.word
       THEN /\ word' = moved(word)
            /\ SetWorker(IF word.phase = "Arming" THEN "control" ELSE "checkpoint")
       ELSE /\ SetWorker("abort")
            /\ UNCHANGED word
    /\ UNCHANGED <<now, lease, panic_requested, interrupt, completed, th, late>>

\* startup_abort_trigger, as far as the lease is concerned.  All it reads is
\* sticky, so one look stands for its several loads; a panic request implies
\* the expiry bit, which is looked at first.
startup_abort_trigger ==
    \/ word.phase \in {"Cancelled", "Failed"}
    \/ abort_reason(word) \in ErrorReason \cup {"SystemSuspend"}
    \/ lease.expired

\* A checkpoint after each move; the one after begin_arming leads to the
\* lease proof, and another follows the proof.
startup_checkpoint ==
    /\ worker.pc \in {"checkpoint", "epoch"}
    /\ SetWorker(CASE startup_abort_trigger -> "abort"
                   [] ~startup_abort_trigger /\ worker.pc = "checkpoint"
                        /\ word.phase = "Arming" -> "sample"
                   [] OTHER -> "load")
    /\ WorkerOnly

\* admission_failure: with no abort on record the startup has failed.
admission_failure ==
    /\ worker.pc = "abort"
    /\ word' = IF ~startup_abort_trigger /\ word.phase \in PreArm
               THEN failed(word, "WorkerFailure") ELSE word
    /\ SetWorker("finish")
    /\ UNCHANGED <<now, lease, panic_requested, interrupt, completed, th, late>>

\* Where a proof leads: arming, a Down, or the end.
Verdict(fresh) ==
    IF word.armed THEN IF fresh THEN "final" ELSE "finish"
    ELSE IF fresh THEN "epoch" ELSE "reject"

\* The one QPC sample of the proof, which may fail.
sample_lease_qpc ==
    /\ worker.pc = "sample"
    /\ \/ worker' = [worker EXCEPT !.pc = "prove", !.at = now]
       \/ SetWorker(IF word.armed THEN "finish" ELSE "abort")
    /\ WorkerOnly

\* prove_down_age: one load, at most one compare-exchange and one reload.
prove_down_age ==
    /\ worker.pc = "prove"
    /\ \/ lease.expired /\ SetWorker(Verdict(FALSE))
       \/ ~lease.expired /\ ~overdue(worker.at, lease.ticks) /\ SetWorker(Verdict(TRUE))
       \/ ~lease.expired /\ overdue(worker.at, lease.ticks)
            /\ worker' = [worker EXCEPT !.pc = "prove_cas", !.seen = lease]
    /\ WorkerOnly

prove_cas ==
    /\ worker.pc = "prove_cas"
    /\ IF lease = worker.seen
       THEN lease' = [lease EXCEPT !.expired = TRUE] /\ SetWorker(Verdict(FALSE))
       ELSE UNCHANGED lease /\ SetWorker("reload")
    /\ UNCHANGED <<now, word, panic_requested, interrupt, completed, th, late>>

\* A lost race is taken as proof of progress.
Fault_prove_reload ==
    /\ worker.pc = "reload"
    /\ SetWorker(Verdict(~lease.expired))
    /\ WorkerOnly

\* A state that cannot be proved fresh fails closed.
prove_reload ==
    /\ worker.pc = "reload"
    /\ SetWorker(Verdict(~lease.expired /\ ~overdue(worker.at, lease.ticks)))
    /\ WorkerOnly

\* An arm that is not fresh cancels its own startup and latches expiry.
reject_arm ==
    /\ worker.pc = "reject"
    /\ word' = cancel_prearm(word)
    /\ SetWorker("reject_latch")
    /\ UNCHANGED <<now, lease, panic_requested, interrupt, completed, th, late>>

reject_latch ==
    /\ worker.pc = "reject_latch"
    /\ lease' = [lease EXCEPT !.expired = TRUE]
    /\ SetWorker("abort")
    /\ UNCHANGED <<now, word, panic_requested, interrupt, completed, th, late>>

\* Leaves the expiry bit to the final gate.
Fault_check_control ==
    /\ worker.pc = "control"
    /\ \E pc \in {"wait", "gate", "finish"} : SetWorker(pc)
    /\ WorkerOnly

\* process_command_control; the song may also end here.
check_control ==
    /\ worker.pc = "control"
    /\ \/ lease.expired /\ SetWorker("finish")
       \/ ~lease.expired /\ \E pc \in {"wait", "gate", "finish"} : SetWorker(pc)
    /\ WorkerOnly

wait_interrupted ==
    /\ worker.pc = "wait"
    /\ interrupt
    /\ interrupt' = FALSE
    /\ SetWorker("drain")
    /\ UNCHANGED <<now, lease, word, panic_requested, completed, th, late>>
drain_interrupt ==
    /\ worker.pc = "drain"
    /\ interrupt' = FALSE
    /\ SetWorker("control")
    /\ UNCHANGED <<now, lease, word, panic_requested, completed, th, late>>

wait_deadline ==
    /\ worker.pc = "wait"
    /\ \E pc \in {"gate", "control", "finish"} : SetWorker(pc)
    /\ WorkerOnly

\* final_control_precheck reads the expiry bit and the panic request.
Expired == lease.expired \/ panic_requested

\* Once before the lease proof and once after it.
final_control_precheck ==
    /\ worker.pc \in {"gate", "final"}
    /\ SetWorker(CASE Expired -> "control"
                   [] ~Expired /\ worker.pc = "gate" -> "sample"
                   [] OTHER -> "send")
    /\ WorkerOnly

send_down ==
    /\ worker.pc = "send"
    /\ late' = IF lease.expired THEN late + 1 ELSE late
    /\ SetWorker("control")
    /\ UNCHANGED <<now, lease, word, panic_requested, interrupt, completed, th>>

\* RUNNING becomes FINISHED ...
finish ==
    /\ worker.pc = "finish"
    /\ SetWorker("complete")
    /\ WorkerOnly

\* Completion published without the mutex.
Fault_complete ==
    /\ worker.pc = "complete"
    /\ completed' = TRUE
    /\ SetWorker("done")
    /\ UNCHANGED <<now, lease, word, panic_requested, interrupt, th, late>>

\* ... and completion is published under the done mutex, which the watchdog
\* holds except while it sleeps.
complete ==
    /\ worker.pc = "complete"
    /\ th[Watchdog].pc \in {"wait", "done"}
    /\ completed' = TRUE
    /\ SetWorker("done")
    /\ UNCHANGED <<now, lease, word, panic_requested, interrupt, th, late>>

WorkerStep ==
    \/ load_word \/ cas_word \/ startup_checkpoint \/ admission_failure
    \/ sample_lease_qpc \/ prove_down_age \/ prove_cas \/ prove_reload
    \/ reject_arm \/ reject_latch
    \/ check_control \/ wait_interrupted \/ drain_interrupt \/ wait_deadline
    \/ final_control_precheck \/ send_down \/ finish \/ complete

Next ==
    \/ Tick
    \/ \E s \in Supervisors : publish_supervisor_progress(s)
    \/ \E t \in Threads : ThreadStep(t)
    \/ watchdog_check \/ watchdog_wait \/ watchdog_wake
    \/ WorkerStep

\* Time passes, a thread inside a call keeps running, the watchdog wakes when
\* its sleep is over or completion was published, and every wait of the
\* worker has a deadline.  Nothing obliges a supervisor to publish.
Fairness ==
    /\ WF_vars(Tick)
    /\ \A t \in Threads : WF_vars(ThreadStep(t))
    /\ WF_vars(watchdog_check \/ watchdog_wait)
    /\ WF_vars((completed \/ now >= th[Watchdog].at) /\ watchdog_wake)
    /\ WF_vars(WorkerStep)

Spec == Init /\ [][Next]_vars /\ Fairness

----------------------------------------------------------------------------
(***************************************************************************)
(* Properties.                                                             *)
(***************************************************************************)

\* Every variable keeps its type: in particular the word never holds a stamp
\* the clock has not reached (publish_progress).
TypeOK ==
    /\ now \in Ticks
    /\ lease \in Lease
    /\ lease.ticks <= now
    /\ word \in Word
    /\ panic_requested \in BOOLEAN
    /\ interrupt \in BOOLEAN
    /\ completed \in BOOLEAN
    /\ th \in [Threads -> Thread]
    /\ worker \in Worker
    /\ late \in Nat

\* What the final gate proves: when a session arms or sends a Down, the last
\* accepted progress is at most the timeout older than the QPC sample of the
\* worker's proof, lost compare-exchange or not (prove_down_age).
ProvenFresh ==
    [][send_down \/ (word'.armed /\ ~word.armed)
        => worker.at > 0 /\ worker.at <= lease.ticks + Timeout]_vars

\* Of the Downs of a session at most the one past its last control check is
\* sent after expiry.
AtMostOneLateDown == late <= 1

\* The watchdog never signals expiry of a session whose completion is
\* published: the startup word and the event belong to the next session then
\* (the done mutex is held across signal_supervisor_expiry).
Signalling == {"cancel", "latch", "panic", "wake"}
NoSignalAfterCompletion == completed => th[Watchdog].pc \notin Signalling

\* A supervisor that stops publishing stops the worker.
SilenceStopsWorker ==
    now > lease.ticks + Timeout ~> worker.pc = "done" \/ now <= lease.ticks + Timeout

\* Expiry, however it came about, ends the worker, and the watchdog follows
\* so that join returns.
ExpiryEndsSession ==
    lease.expired ~> worker.pc = "done" /\ th[Watchdog].pc = "done"
============================================================================
