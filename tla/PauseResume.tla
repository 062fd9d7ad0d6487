---------------------------- MODULE PauseResume ----------------------------
(***************************************************************************)
(* Pausing and resuming a session: the pause section of the worker's loop  *)
(* (sky_player/src/engine/worker/dispatch_loop.rs) and the playback clock  *)
(* it drives (sky_dispatch_core/src/clock.rs), while callers pause and     *)
(* resume, the window gains and loses focus and its target is published    *)
(* anew.  There are two reasons to pause, and one interval for both.       *)
(*                                                                         *)
(* An iteration samples the clock, the focus hint and the pause request    *)
(* once, at its top, and acts on them later; what it samples again is a    *)
(* step of its own.  Releasing the keys (suspend_live_input) is one step   *)
(* that succeeds or ends the session: TrackedKeys models it.  The session  *)
(* may be stopped at any iteration.                                        *)
(***************************************************************************)
EXTENDS Integers, FiniteSets

CONSTANTS
    Grace,          \* focus_restore_grace_ticks
    MaxTicks,       \* bound on the clock
    MaxRetargets    \* bound on target publications

ASSUME GraceAssumption == Grace \in Nat
ASSUME BoundsAssumption == MaxTicks \in Nat /\ MaxRetargets \in Nat

VARIABLES
    now,                 \* QueryPerformanceCounter
    desired_pause,       \* the callers' request
    focus_active,        \* the window has the focus
    generation,          \* target generation
    clock,               \* PlaybackClockState: reasons, start of the interval, paused time
    held,                \* the player holds a key
    carried,             \* history: a key held when the pause opened is not released yet
    pending,             \* manual_pause_suspension_pending
    committed,           \* musical_physical_commit_started
    guard_valid,         \* the physical timing guard answers queries
    restore_started,     \* focus_restore_started_ticks
    worker               \* program counter and samples of the iteration

inputs == <<desired_pause, focus_active, generation>>
keys == <<held, carried, guard_valid>>
vars == <<now, desired_pause, focus_active, generation, clock, held, carried, guard_valid,
          pending, committed, restore_started, worker>>

Reason == {"Manual", "Focus"}
None == -1
NoSamples == [pc |-> "top", now |-> 0, focus |-> FALSE, pause |-> FALSE, target |-> 0]

Init ==
    /\ now = 0
    /\ desired_pause = FALSE /\ focus_active = TRUE /\ generation = 0
    /\ clock = [reasons |-> {}, started |-> None, paused |-> 0]
    /\ held = FALSE /\ carried = FALSE /\ guard_valid = TRUE
    /\ pending = FALSE /\ committed = FALSE
    /\ restore_started = None
    /\ worker = NoSamples

----------------------------------------------------------------------------
(***************************************************************************)
(* The clock.  Playback starts at tick 0, so the epoch is the paused time. *)
(***************************************************************************)
Paused == clock.reasons # {}

\* Only the first reason opens the interval.
enter_pause(reason, at) ==
    clock' = IF reason \in clock.reasons THEN clock
             ELSE [clock EXCEPT !.reasons = @ \cup {reason},
                                !.started = IF Paused THEN @ ELSE at]

\* Only the last reason closes it; the subtraction fails when the interval
\* would end before it started.
closes(reason) == clock.reasons = {reason}
exit_fails(reason, at) == closes(reason) /\ at < clock.started
exit_pause(reason, at) ==
    clock' = IF closes(reason)
             THEN [reasons |-> {}, started |-> None,
                   paused |-> clock.paused + at - clock.started]
             ELSE [clock EXCEPT !.reasons = @ \ {reason}]

----------------------------------------------------------------------------
(***************************************************************************)
(* The surroundings.                                                       *)
(***************************************************************************)
Tick ==
    /\ now < MaxTicks
    /\ now' = now + 1
    /\ UNCHANGED <<inputs, clock, keys, pending, committed, restore_started, worker>>

pause ==
    /\ ~desired_pause
    /\ desired_pause' = TRUE
    /\ UNCHANGED <<now, focus_active, generation, clock, keys, pending, committed,
                   restore_started, worker>>

resume ==
    /\ desired_pause
    /\ desired_pause' = FALSE
    /\ UNCHANGED <<now, focus_active, generation, clock, keys, pending, committed,
                   restore_started, worker>>

set_focus_hint ==
    /\ focus_active' = ~focus_active
    /\ UNCHANGED <<now, desired_pause, generation, clock, keys, pending, committed,
                   restore_started, worker>>

set_target_hwnd ==
    /\ generation < MaxRetargets
    /\ generation' = generation + 1
    /\ UNCHANGED <<now, desired_pause, focus_active, clock, keys, pending, committed,
                   restore_started, worker>>

----------------------------------------------------------------------------
(***************************************************************************)
(* The iteration.                                                          *)
(***************************************************************************)
Goto(pc) == worker' = [worker EXCEPT !.pc = pc]
Again == worker' = NoSamples
Terminate == worker' = [NoSamples EXCEPT !.pc = "done"]

\* A key held when the interval opens is carried until it is released.
Opens == carried' = (carried \/ (~Paused /\ held))

\* suspend_live_input: the keys are released, the guard starts anew.
suspend_live_input == held' = FALSE /\ carried' = FALSE /\ guard_valid' = TRUE

\* The samples at the top.  Before the first Down, losing the focus or a
\* request to pause ends the session; so may a command.
sample ==
    /\ worker.pc = "top"
    /\ \/ Terminate
       \/ /\ committed \/ (focus_active /\ ~desired_pause)
          /\ worker' = [pc |-> "focus", now |-> now, focus |-> focus_active,
                        pause |-> desired_pause, target |-> 0]
    /\ UNCHANGED <<now, inputs, clock, keys, pending, committed, restore_started>>

\* enter_focus_pause with the sample of the top.
focus_lost ==
    /\ worker.pc = "focus"
    /\ ~worker.focus
    /\ enter_pause("Focus", worker.now)
    /\ Opens /\ UNCHANGED <<held, guard_valid>>
    /\ restore_started' = None
    /\ Goto("manual")
    /\ UNCHANGED <<now, inputs, pending, committed>>

focus_kept ==
    /\ worker.pc = "focus"
    /\ worker.focus
    /\ "Focus" \notin clock.reasons
    /\ Goto("manual")
    /\ UNCHANGED <<now, inputs, clock, keys, pending, committed, restore_started>>

\* Starts the grace period anew in every iteration.
Fault_restored_at == worker.now

\* The grace period runs from the first iteration that saw the focus again.
restored_at == IF restore_started = None THEN worker.now ELSE restore_started

focus_grace ==
    /\ worker.pc = "focus"
    /\ worker.focus
    /\ "Focus" \in clock.reasons
    /\ worker.now - restored_at < Grace
    /\ restore_started' = restored_at
    /\ Goto("manual")
    /\ UNCHANGED <<now, inputs, clock, keys, pending, committed>>

\* The keys held when the focus went are released now, unless a manual pause
\* is active and has nothing deferred.
must_suspend == ~(worker.pause \/ "Manual" \in clock.reasons) \/ pending

\* The focus is back for long enough: check it and the target, release the
\* keys, check that no instrument key is down; release and check may fail.  A
\* focus that is gone again invalidates the guard, whether or not the next
\* attempt releases the keys.  A target that cannot be loaded, or
\* changes while it is checked, also restarts the grace period, and a clock
\* that fails ends the session: these are left out.
focus_restore ==
    /\ worker.pc = "focus"
    /\ worker.focus
    /\ "Focus" \in clock.reasons
    /\ worker.now - restored_at >= Grace
    /\ \/ /\ ~focus_active
          /\ restore_started' = None
          /\ Again
          /\ guard_valid' = FALSE
          /\ UNCHANGED <<held, carried, pending>>
       \/ /\ focus_active
          /\ restore_started' = restored_at
          /\ worker' = [worker EXCEPT !.pc = "focus_exit", !.target = generation]
          /\ IF must_suspend THEN suspend_live_input /\ pending' = FALSE
             ELSE UNCHANGED <<keys, pending>>
       \/ /\ focus_active
          /\ must_suspend
          /\ Terminate
          /\ UNCHANGED <<keys, pending, restore_started>>
    /\ UNCHANGED <<now, inputs, clock, committed>>

\* The target and the focus once more, then a fresh sample ends the pause.
focus_exit ==
    /\ worker.pc = "focus_exit"
    /\ restore_started' = None
    /\ IF focus_active /\ generation = worker.target
       THEN IF exit_fails("Focus", now)
            THEN Terminate /\ UNCHANGED clock
            ELSE exit_pause("Focus", now) /\ Goto("manual")
       ELSE Again /\ UNCHANGED clock
    /\ UNCHANGED <<now, inputs, keys, pending, committed>>

\* A manual pause on top of a focus pause forgets to defer the release.
Fault_manual_pause ==
    /\ worker.pc = "manual"
    /\ worker.pause
    /\ "Manual" \notin clock.reasons
    /\ IF Paused THEN UNCHANGED <<pending, keys>> ELSE suspend_live_input /\ pending' = FALSE
    /\ enter_pause("Manual", worker.now)
    /\ Goto("decide")
    /\ UNCHANGED <<now, inputs, committed, restore_started>>

\* A manual pause releases the keys, or defers that while the focus is lost.
manual_pause ==
    /\ worker.pc = "manual"
    /\ worker.pause
    /\ "Manual" \notin clock.reasons
    /\ \/ Paused /\ pending' = TRUE /\ UNCHANGED keys
       \/ ~Paused /\ suspend_live_input /\ pending' = FALSE
    /\ enter_pause("Manual", worker.now)
    /\ Goto("decide")
    /\ UNCHANGED <<now, inputs, committed, restore_started>>

manual_pause_fails ==
    /\ worker.pc = "manual"
    /\ worker.pause
    /\ ~Paused
    /\ Terminate
    /\ UNCHANGED <<now, inputs, clock, keys, pending, committed, restore_started>>

manual_unchanged ==
    /\ worker.pc = "manual"
    /\ \/ worker.pause = ("Manual" \in clock.reasons)
       \/ clock.reasons = Reason /\ ~worker.pause
    /\ Goto("decide")
    /\ UNCHANGED <<now, inputs, clock, keys, pending, committed, restore_started>>

\* The deferred release, the target and the preflight, which may fail.
manual_resume ==
    /\ worker.pc = "manual"
    /\ ~worker.pause
    /\ clock.reasons = {"Manual"}
    /\ IF pending THEN suspend_live_input /\ pending' = FALSE ELSE UNCHANGED <<keys, pending>>
    /\ \/ Terminate
       \/ worker' = [worker EXCEPT !.pc = "manual_exit", !.target = generation]
    /\ UNCHANGED <<now, inputs, clock, committed, restore_started>>

\* The focus and the target again, then a fresh sample ends the pause.
manual_exit ==
    /\ worker.pc = "manual_exit"
    /\ IF focus_active /\ generation = worker.target
       THEN IF exit_fails("Manual", now)
            THEN Terminate /\ UNCHANGED clock
            ELSE exit_pause("Manual", now) /\ Goto("decide")
       ELSE Again /\ UNCHANGED clock
    /\ UNCHANGED <<now, inputs, keys, pending, committed, restore_started>>

\* A paused iteration waits for the poll interval or a signal.
wait_paused ==
    /\ worker.pc = "decide"
    /\ Paused
    /\ Again
    /\ UNCHANGED <<now, inputs, clock, keys, pending, committed, restore_started>>

dispatch ==
    /\ worker.pc = "decide"
    /\ ~Paused
    /\ Goto("dispatch")
    /\ UNCHANGED <<now, inputs, clock, keys, pending, committed, restore_started>>

\* A due frame, which a request to pause keeps back: an Up; a Down, which
\* needs the focus; or neither.
send_up ==
    /\ worker.pc = "dispatch" /\ guard_valid
    /\ ~desired_pause
    /\ held' = FALSE /\ carried' = FALSE
    /\ Again
    /\ UNCHANGED <<now, inputs, clock, guard_valid, pending, committed, restore_started>>

send_down ==
    /\ worker.pc = "dispatch" /\ guard_valid
    /\ focus_active /\ ~desired_pause
    /\ held' = TRUE /\ committed' = TRUE
    /\ Again
    /\ UNCHANGED <<now, inputs, clock, carried, guard_valid, pending, restore_started>>

no_work ==
    /\ worker.pc = "dispatch"
    /\ Again
    /\ UNCHANGED <<now, inputs, clock, keys, pending, committed, restore_started>>

\* An invalid guard refuses every physical frame, which ends the session.
guard_refuses ==
    /\ worker.pc = "dispatch" /\ ~guard_valid
    /\ Terminate
    /\ UNCHANGED <<now, inputs, clock, keys, pending, committed, restore_started>>

\* The gate finds the focus gone: a pause with a fresh sample, or the end.
handle_final_focus_loss ==
    /\ worker.pc = "dispatch" /\ guard_valid
    /\ ~focus_active /\ ~desired_pause
    /\ IF committed
       THEN /\ enter_pause("Focus", now) /\ Opens
            /\ restore_started' = None
            /\ Again
       ELSE Terminate /\ UNCHANGED <<clock, carried, restore_started>>
    /\ UNCHANGED <<now, inputs, held, guard_valid, pending, committed>>

Worker ==
    \/ sample \/ focus_lost \/ focus_kept \/ focus_grace \/ focus_restore \/ focus_exit
    \/ manual_pause \/ manual_pause_fails \/ manual_unchanged \/ manual_resume \/ manual_exit
    \/ wait_paused \/ dispatch \/ send_up \/ send_down \/ no_work \/ guard_refuses
    \/ handle_final_focus_loss

Next == Worker \/ Tick \/ pause \/ resume \/ set_focus_hint \/ set_target_hwnd

Spec == Init /\ [][Next]_vars

\* Every wait of the worker has a deadline, and time passes.
LiveSpec == Spec /\ WF_vars(Worker) /\ WF_vars(Tick)

----------------------------------------------------------------------------
(***************************************************************************)
(* Properties.                                                             *)
(***************************************************************************)

\* TypeOK: every variable has its type, and an interval is open exactly while
\* there is a reason to pause.
InputsOK ==
    /\ now \in 0 .. MaxTicks
    /\ desired_pause \in BOOLEAN /\ focus_active \in BOOLEAN
    /\ generation \in 0 .. MaxRetargets
ClockOK ==
    /\ clock \in [reasons : SUBSET Reason, started : 0 .. MaxTicks \cup {None}, paused : Nat]
    /\ clock.started = None <=> ~Paused
FlagsOK ==
    /\ held \in BOOLEAN /\ carried \in BOOLEAN /\ guard_valid \in BOOLEAN
    /\ pending \in BOOLEAN /\ committed \in BOOLEAN
    /\ restore_started \in 0 .. MaxTicks \cup {None}
WorkerOK ==
    worker \in [pc : {"top", "focus", "focus_exit", "manual", "manual_exit", "decide",
                      "dispatch", "done"},
                now : 0 .. MaxTicks, focus : BOOLEAN, pause : BOOLEAN,
                target : 0 .. MaxRetargets]
TypeOK == InputsOK /\ ClockOK /\ FlagsOK /\ WorkerOK

\* Whatever the order of focus losses, manual pauses and resumes, a key that
\* was held when playback paused is released before it dispatches again: the
\* focus pause releases nothing, and hands the release over to the manual pause
\* through manual_pause_suspension_pending.
NothingCarriedOver == worker.pc = "dispatch" => ~carried

\* A session whose window is back, keeps the focus and its target, and that
\* nobody pauses leaves the pause: the grace period, if it began with enough of
\* the clock's bound left, is over some time.
GraceBegun == worker.pc = "top" /\ restore_started \in 0 .. MaxTicks - Grace
Undisturbed(target) == focus_active /\ ~desired_pause /\ generation = target
PauseEnds ==
    \A target \in 0 .. MaxRetargets :
        [](GraceBegun /\ []Undisturbed(target) => <>(~Paused \/ worker.pc = "done"))

\* What ADR-0018 says of pauses: manual pause and focus restoration resume
\* independently.  A session that has left its pauses can dispatch: the guard,
\* which only a release of the keys makes valid, is valid again.
IndependentlyResumable == worker.pc = "dispatch" => guard_valid
============================================================================
