# Verification of Sky Auto Player's dispatch engine

Sky Auto Player plays songs on a fifteen-key instrument by injecting key
events into another program's window. A Rust worker thread sends packets of
key-up and key-down events at QPC deadlines; a desktop shell (Tauri) owns the
session, certifies that it is alive and reacts to the operating system. What
must not go wrong is small to state and hard to test: no key may stay held,
no key may be pressed after the session was told to stop, and the stop must
arrive whatever the threads are doing. This directory holds TLA+ models of the
code that is responsible for that, TLC configurations that check them, and
proofs checked by TLAPS.

Paths below are relative to the repository; `engine/` is
`rust/crates/sky_player/src/engine/`, `input/` is
`rust/crates/sky_dispatch_win32/src/input/`, `desktop/` is
`apps/desktop/src-tauri/src/`.

## 1. Inventory

| Component | State it keeps | Operations | What makes it correct |
|---|---|---|---|
| Tracked input backend, `input/tracked`, `input/packet.rs`, `input/physical.rs` | four key masks (active, possibly active, failed release, in flight), last error | send prepared packet, apply outcome, release (tracked or full instrument, four rounds) | every key that may be held is in a mask; success is reported only for keys that are up; failure is never silent |
| System power endpoint, `engine/shared.rs` | notification bits, callback epoch, callbacks in flight, lifecycle mutex, auto-reset event | enter/leave callback, notify, reset for a new session, deactivate | callbacks of one session never touch the next; a suspend is final; no lost wake-up |
| Startup word, `engine/shared/startup.rs` | one atomic: phase, reason, evidence bits, suspend latch | four moves of the worker, cancel, fail, latch, reset | an aborted startup never arms; an error reason is not displaced |
| Supervisor lease, `engine/shared.rs`, `engine/session.rs` | one atomic: last progress stamp, expiry bit | publish, check, prove age, latch; watchdog loop | expiry is final; a Down needs a fresh proof; silence stops the worker |
| Session, `engine/session.rs` | lifecycle byte, command flags, join handles, terminal outcome | arm, pause, resume, skip, quit, panic_release, target and focus changes, join | an accepted command takes effect; a session ends exactly once |
| Target, `engine/target.rs` | window, generation, publication epoch, owner identity | publish, bind, invalidate, stable load | a snapshot is of one publication; an invalidated owner admits nothing |
| Progress clock, `engine/shared.rs` | sequence lock over the playback anchor | publish, load | no torn snapshot |
| Worker, `engine/worker` | dispatch state of one song | boot, admission, plan, wait, dispatch, recovery, finalization | one terminal release; gates in order before every Down |
| Dispatch core, `rust/crates/sky_dispatch_core` | ownership counts per key, authored frames | compile, validate, commit, cleanup | presses and releases balance |
| Win32 layer, `rust/crates/sky_dispatch_win32` | clock, timer, event, focus | wrappers | external, used as inputs |
| App core and adapters, `sky_app_core`, `sky_native_adapters`, `sky_windows_security` | songs, library, settings, files | decoding, catalogue, persistence | sequential |
| Desktop playback, `desktop/native_runtime/playback` | active slot, per-session state, pending control, stop flag, evidence | start, monitor, commands, join, retire, quarantine, shutdown | one owner of the keyboard; retirement only after the thread is gone; a stopped session retires |
| Desktop activity admission, `desktop/app_state.rs` | reservations of playback, calibration and update, quarantine, closing | reserve, release, quarantine, begin_shutdown | mutual exclusion, and a quarantine nothing lifts |
| Desktop presentation, `desktop/native_runtime/playback/presentation.rs` | bounded critical queue, one-frame snapshot slot, finalization | publish state, snapshot, finalize; consume; fail and drain | a lifecycle event is delivered in order or the delivery fails; the session outlives its terminal event |
| Desktop event hub, `desktop/native_runtime.rs` | bounded event buffer, subscription, publisher thread | publish, subscribe, send, fail | snapshots make room, lifecycle events never are dropped silently |
| Desktop power and update, `desktop/power_lifecycle.rs`, `desktop/native_update.rs` | power request, update state | acquire, check, download, install | files are replaced only when no key is held |
| Frontend, `apps/desktop/src` | mirror of the session state | reducers and actions | follows the event stream |

How they interact. The desktop admits one operation that may own the keyboard
(`ActivityCoordinator`), creates a session, and starts a monitor thread for it
that parks until the worker is armed. The power endpoint and the startup word
in it belong to the process: every session resets them, and they outlive it.
The worker moves the word from Idle to Armed while notification callbacks, the
watchdog, the monitor and user commands try to cancel it. Once armed it loops:
control check, focus and pauses, wait on the auto-reset event or a deadline,
final gate (control flags, target, modifiers, lease age, control flags again),
SendInput, bookkeeping. Every exit, panics included, ends in one release of the
tracked keys. The monitor polls the session every 20 ms, hands what it sees to
the presentation, joins the worker when it is done, and gives the reservation
back or quarantines the keyboard according to the release evidence. The
presentation's consumer publishes to the event hub and frees the active slot
after the terminal event. A failed delivery ends the session.

What is hard: the engine is lock-free between threads; SendInput may insert
part of a packet and reports insertion, not effect; clocks and waits can fail;
threads can be preempted between a check and its use across whole sessions;
the desktop's locks are held for single reads and stores, so a decision and its
effect interleave with the monitor; bounded queues fill and close under their
senders. `PROJECT.json` lists these hazards at their lines.

## 2. Modules

| Module | Models | Composes |
|---|---|---|
| `TrackedKeys` | the input backend and the keyboard it drives | |
| `StartupWord` | the startup word as pure operators | |
| `SystemPower` | endpoint, callbacks, lifecycle owners, the worker as far as power goes | `StartupWord` |
| `SupervisorLease` | lease word, publishers, watchdog, the worker as far as the lease goes | `StartupWord` |
| `AtomicRegister` | abstract: a register one step publishes and one step reads | |
| `SessionTarget` | target window, generation and owner identity; controllers and the worker's gate | implements `AtomicRegister` |
| `ProgressClock` | the sequence lock of the playback anchor | implements `AtomicRegister` |
| `PauseResume` | the pause section of the dispatch loop and the playback clock | |
| `Schedule` | compiler and admission as pure operators | |
| `Coordinator` | the ledger of generations, prepared stream, planner, timing guard | `Schedule` |
| `EventHub` | the queue of user interface events and its publisher | |
| `Presentation` | supervisor, critical queue, snapshot slot, consumer | `EventHub` |
| `Activity` | the admission of what may own the keyboard | |
| `PlaybackSupervisor` | sessions from start to retirement: service, monitor, commands, shutdown, the engine's session object, the worker's life | `Activity`, `StartupWord` |
| `TrackedKeysProofs`, `SystemPowerProofs`, `SupervisorLeaseProofs`, `SessionTargetProofs`, `PlaybackSupervisorProofs`, `PresentationProofs`, `CoordinatorProofs` | theorems | the module of that name |
| `PlaybackClockProofs` | theorems | `PauseResume`, `ProgressClock` |
| `MC*` | instances for TLC | |

### TrackedKeys

A `u16` mask is the set of slots whose bit is set. The keyboard is part of the
model: `down` is what GetAsyncKeyState reports, `injected` the part of it that
the player's own Downs caused, and the user may press and lift keys at any
time. `send_prepared_physical_packet_view` sets the in-flight bits and makes
the one SendInput call; `apply_packet_outcome` updates the masks and clears
them; `WorkerPanic` may strike in between, after which only the finalizer's
release runs. `release_scope` is split into its rounds: `do_emit_up_once`, then
`reconcile_release` (probe, reconciliation, normalization, mask update, return
or another round). `Transport` says what a call may do: insert everything,
insert a prefix or lose a clock read, or also count events that have no effect.
The packet order (all Ups, then all Downs, in slot order) matters because a
partial insertion is a prefix. `swallowed` is a history variable: some event
that SendInput counted had no effect. The retry sleeps, counters, error texts,
the PartialProgress status, which the classification never returns, and the
operations on a single scan code, which the dispatch loop does not call, are
left out.

### SystemPower

Each callback, owner and worker has a program counter; every atomic access is
a step. `enter_callback` is `capture_epoch`, `count_in`, `validate_epoch`;
`notify_authorized` is `load_state`, `cas_state`, `exhaust_attempts`, `signal`;
`close_epoch_and_rundown` is `close_epoch`, `rundown`. The application joins a
session's worker before it resets or deactivates the endpoint
(`WorkerQuiescent`), and that is the only thing taken from it. Commands are not
part of that order. A command checks the lifecycle of its own session and then
cancels the word or signals the event of the process, so one that is delayed in
between acts after its session ended, also in the middle of the next session's
reset: `CommandSignal` and `CommandCancel` may happen at every moment once a
first session was opened (`CommandPending`), with any reason of
`CommandReasons`. The auto-reset event is the set of those who signalled it
since it was last taken (`Signallers`); the code tests only whether it is
empty, SessionStartsClean also who is in it. The worker's
startup checkpoints, which can only end a startup earlier, and the QPC of the
suspend and the counters, read by diagnostics only, are left out. Accesses are
sequentially consistent: the epoch protocol uses SeqCst in the code, and the
rest are single words read and written by compare-exchange.

### SupervisorLease

The clock is the variable `now`; a thread samples it and acts on the sample
later. `publish_progress` and `check_expired` share their load and their
expiring compare-exchange (`load_lease`, `cas_expire`); `prove_down_age` is
`prove_down_age`, `prove_cas`, `prove_reload`: one load, at most one
compare-exchange and one reload. `signal_supervisor_expiry` is its four stores.
The watchdog holds the done mutex except while it sleeps, so `complete`, which
takes it, waits for that. A QPC read may fail at each place where the code
handles it. A lease timeout of zero, which switches the lease off, is not
modelled.

### SessionTarget, ProgressClock and AtomicRegister

Both are sequence locks. `publish_inner` is a step per store (odd epoch,
failure, liveness, window, generation, even epoch); the worker's one-attempt
load is a step per read and gives up when the epoch moved. `bind` takes the
writer mutex and re-checks before its stores; `invalidate` takes no lock and
may fall between them. The refinement maps the register's value to `published`
(the last publication announced by an even epoch) and what a load returned to
`got`; `LoadIsAtomic` and `SnapshotIsAtomic` are `AtomicRegister!Spec` under
that mapping. A controller's own load is one step, which LoadIsAtomic
justifies. The worker's gate is rounds of load and compare as in
`final_down_target_admission` and the revalidations after it; focus and
modifiers can only reject and are a choice. Relaxed loads of `ProgressClock`
happen in program order, as an x86-64 build executes them.

### PauseResume

An iteration of the loop samples clock, focus hint and pause request once and
acts on the samples in later steps, so everything outside may change in
between. There is one paused interval and a set of reasons. `held` says that
keys are down, `carried` that they were when the music stopped and have not
been released since, `guard_valid` that the physical timing guard may admit a
Down. `suspend_live_input` is one step (TrackedKeys has its rounds). A grace
clock that fails, which ends the session (`dispatch_loop.rs:648`), and a target
that cannot be loaded at the restoration (line 655) or changes while it is
checked (line 667), which restart the grace period as a lost focus does, are
left out; no property depends on them.

### Schedule and Coordinator

A song is a sequence of frames, one per timestamp, since the compiler groups
actions of one timestamp; a generation id is abstracted to the frame and key of
its Down. `Compile` pairs, `Admits` checks holds and gaps in microseconds and,
after rounding up, in ticks. `Coordinator` then plays every admitted song in
either mode: the prepared stream, whose commits are frozen at boot by
simulation and replayed, and the planner of the strict profile, which may miss
and drop (strict timing ends such a session with `down_unobserved_backlog`,
`engine/worker/dispatch/recovery.rs:319`, which is covered by `stop` only). A packet is sent and committed in one step that takes time. A late
frame in the stream misses its strict deadline and ends the session (`stop`);
a planner session that dropped a note fails the clean-completion contract
(`unclean`). Releases that are deferred to their hold floor, and with them the
coalesced pending path, are not modelled beyond the phase `deferred`, which
AdmittedNeverDefers shows no admitted schedule reaches. The planner's metadata
plan is never taken because the stale phase takes such packets first, and the
pending-Up recovery has no caller in production. The comment at
`rust/crates/sky_dispatch_core/src/coordinator/cleanup.rs:15` that a Down may
have no matching Up is out of date: `compile.rs:348` refuses such a song, and
CompiledPairs relies on it.

### EventHub and Presentation

A lifecycle event is its publication number, a snapshot its key. The queue's
and the hub's locks are only tried in the code, so that a lock held elsewhere
is a choice that fails the publication. The consumer's exit is the steps the
code takes: record the failure, close the queue, drain it, drop the snapshot,
drop the receiver. `failed` and `closed`, stored together and read together,
are one flag. `unsettled` counts the snapshots that were neither published nor
counted as dropped. A frame whose publication finds the queue closed
(`presentation.rs:769`) stays in that count, as in the code, which publishes
nothing, reports success and counts nothing; SnapshotsSettled allows for that
one frame (see Findings).

### Activity and PlaybackSupervisor

Threads: the one that runs `start` and `arm`, the monitor, a client, the hub's
termination request and the closing application, and a worker per session.
A session is its number. Each lock or atomic that another thread uses is a
step of its own where order matters: a command reads the state, then takes or
withdraws the pending control, then checks the lifecycle, then cancels the
startup word, then sets its flag, and may be delayed anywhere for as long as
the next session lives. The word is one per process. Requests by the monitor
itself are one step, since its session cannot be replaced meanwhile. Stores
that only the monitor orders (stop flag, pending, Stopping) are merged in
`withdraw`. The worker is reduced to its checkpoints of the startup word,
pauses, first commit, end, panic, published outcome, completion flag and end
of thread; a release is verified or not, and an unverified one may leave keys
down. At retirement the player and worker keep only what stale threads can
still see. Left out: preparation of a song, dry runs, join errors, an
activation channel whose sender is dropped, lease expiry (SupervisorLease) and
power (SystemPower). The completion of the finalization
(`clear_terminal_ownership`) is called by the presentation's thread. It is owed
while no delivery has failed; after a failure it may come or not
(`presentation_lost`), and PlaybackRetires then promises only that the session
reaches its finalization, joined and with its reservation released or
quarantined. The failure flag is that of the hub, shared by all its sessions,
so that no session starts after it.

## 3. What the runs check

| Run | Instance | Checks |
|---|---|---|
| `tracked_keys` | 2 keys, 4 rounds, lossy transport | HeldIsOwed, FailedReleaseAccounts, DischargedOnlyWhenUp |
| `system_power` | 2 callbacks, 1 owner, 2 attempts, epochs to 5, commands with 2 reasons | RundownExcludesCallbacks, SuspendedImpliesLatched, AtMostOneLateDown, SessionStartsClean, LatchWakesWorker, LatchedNeverArms, LifecycleCompletes, SuspendStopsWorker |
| `supervisor_lease` | 1 publisher, timeout 1, 4 ticks | AtMostOneLateDown, NoSignalAfterCompletion, ProvenFresh, SilenceStopsWorker, ExpiryEndsSession |
| `session_target` | 2 controllers, 1 window, 2 process ids, epochs to 5 | LiveIdentityIsValid, AuthorityAtSend, LoadIsAtomic |
| `progress_clock` | 2 tick values, sequence to 4 | SnapshotIsAtomic, LoadReturns |
| `pause_resume` | grace 1, 5 ticks, 1 retarget | NothingCarriedOver, PauseEnds |
| `pause_guard` | the same | IndependentlyResumable fails: see Findings |
| `coordinator` | songs of up to 4 frames on 2 keys, 2/3 tick per microsecond, 1 pause | CompiledPairs, AdmittedNeverDefers, NeverRefused, LedgerMatchesKeys, EveryNoteAccounted, KeysSpaced, PlaybackEnds |
| `presentation` | hub of 2, queue of 1, 1 state, 2 snapshots, 1 foreign event | LifecycleInOrder, SnapshotsSettled, RetiredAfterTerminal, LifecycleArrives, SessionEnds |
| `presentation_lost` | the same without the foreign event | FinalizerCompletes fails: see Findings |
| `playback_sessions` | 2 sessions, skip, identity loss, delivery failure, closing | KeyboardExclusive, KeysReleasedIsTrue, StoppedNeverArms |
| `playback_controls` | 1 session, stop, pause, resume, focus losses, delivery failure | PlaybackRetires, PauseAcknowledged |

Bounds. Two keys are enough for a partial insertion, for an Up and a Down in
one packet and for a release that resolves one key and keeps the other; masks
are treated bit by bit, and the proofs cover any number. Two callbacks can make
each other exhaust two attempts; epochs up to five are two sessions and the
exhausted counter, and the proofs cover any number of owners. With a timeout of
one tick, four ticks let a publication sampled in time be applied when it is
overdue for a later sample; the desktop publishes from one thread. Epochs to
five are one full publication, one that runs into the limit, and a load across
both; sequence numbers to four are two publications, so that a reader can mix
two. Five ticks cover a focus loss, its grace, a second loss during it and a
manual pause over both. The songs of `coordinator` use times at, below and
above the hold and the gap, a ratio of ticks to microseconds that rounds, and
one pause at every point. A hub of two with an event in flight and one buffered
is full; a queue of one is full behind one message. Two sessions let a thread
that works for the first act during the second; one delayed caller at a time
(`MaxCallers`) with the starter, the monitor, the workers, calibration and the
updater are the interleavings the hazards name. Methods and world events are
split over the two runs so that each finishes. Two command reasons, a request
and a panic release, are enough, because cancellation looks only at the phase
and keeps the first reason.
Runs of systems that stop (a finished session or song, a clock at its bound) do
not check deadlock; the others do.

Fairness. Threads inside a call keep running: weak fairness of each callback's,
owner's, worker's, monitor's, starter's and caller's steps. Notifications,
commands, new lifecycle operations and new publications are never obliged to
happen. A wait of the worker always has a deadline, so its steps are fair as a
whole; the watchdog's condition variable wakes it when its timeout is over or
completion was published, and otherwise only perhaps. Time passes. In
`Coordinator` a pause is ended; in `Presentation` the hub's publisher runs,
which takes for granted that Tauri's `Channel::send` returns, and a monitor
told to quit finalizes. In `PlaybackSupervisor` a song need never end, and
failures and panics need not happen: retirement may not rest on them. The
presentation's completion is fair only while no delivery has failed.

Every property of a passing run has a mutant: an operator `Fault_...`,
`Leak_...`, `Transient_...` or `Deadline_...` beside the definition it replaces,
a plausible slip of the code with which TLC finds the property violated.

## 4. Findings

* `pause_guard`. A focus restoration that finds the focus or target gone again
  invalidates the physical timing guard
  (`engine/worker/dispatch_loop.rs:669`); only `suspend_live_input` makes it
  valid. During a manual pause whose keys are already released nothing calls
  it, so the session leaves both pauses with an invalid guard and the first
  physical frame ends it. ADR-0018 (line 75) says the two restorations "remain
  independently resumable".
* `presentation_lost`. `try_publish_critical`
  (`desktop/native_runtime/playback/presentation.rs:165`) checks that the queue
  is open and then sends. A finalization sent after a failed consumer's drain
  and before it drops the receiver is accepted and destroyed; the session never
  leaves the active slot, although `docs/rt-dispatch-architecture.md:393` has
  the consumer clear the ownership. The failure is never silent
  (FinalizedOrFlagged): the session that stays has its delivery-failure flag.

Four further behaviours are notes of the hazards list. One contradicts a
text: a frame that the consumer took from the slot before the queue closed, and
publishes after, is not sent. `publish_playback_snapshot_inner` returns Ok at
`desktop/native_runtime/playback/presentation.rs:769`, and its caller marks the
frame published and leaves (lines 479 to 484) without `record_snapshot_drop`,
whereas `docs/rt-dispatch-architecture.md:551` says that dropped snapshots are
counted. It is a frame of a display and the count of a diagnostic, and no
lifecycle event is affected; SnapshotsSettled bounds it to one frame of a
closed queue. The others contradict nothing. A request that passed its
lifecycle check and is then delayed past the end of its session cancels the
startup of the next one (`engine/session.rs:895`), before it opens or after;
that session ends early and safely, StoppedNeverArms being about the session
that was asked, and SessionStartsClean says that this is all it can find. A pause or
resume that read the state just before the monitor stored the next one becomes
pending with nothing left to acknowledge it, and later controls are refused
until stop or skip (`desktop/native_runtime/playback/session.rs:1842`); no property covers it, and
PauseAcknowledged is therefore stated for a control pending in the state it
applies to. And a worker that is cancelled for a lost focus or an expired lease
before it has a backend has no release to show, and the keyboard is quarantined
though no key was pressed.

## 5. What is proved

The theorems hold for every value of the constants under their named
assumptions (at least one key, round and attempt; finitely many callbacks; an
odd last epoch; window handles and process ids that are not zero; a controller
is not the value that stands for a free mutex; sessions numbered from one;
finitely many key slots, songs that are sequences of frames on them, and a
positive rate of ticks).

`TrackedKeysProofs`. `TypeInv` adds to `TypeOK` that a release in progress has
rounds left (`AttemptOK`), without which the round counter could pass its
budget. `RInv` adds that whatever is injected is down and that a running
release has a nonempty set of unresolved keys which covers every requested key
still injected; from it follow VerifiedReleaseSound, FailedReleaseAccounts and
DischargedOnlyWhenUp on any transport, since the reconciliation resolves a key
only if it was confirmed and seen up. `HInv` adds HeldIsOwed itself, what the
status of a send says about the keyboard until its bookkeeping is done
(`PacketOK`), that outside a send the in-flight bits are clear until a panic
strands them (`InFlightOK`), which is why a panic loses nothing, and that a
running tracked or full release was asked about every key the player holds
(`RequestOK`). HeldIsOwed and TrackedReleaseClears follow while no counted
event was `swallowed`. That condition is needed: an ineffective Up in a packet
discharges the key.

`SystemPowerProofs`. `Base` holds that the count of callbacks inside is exact,
that one owner at a time is past the lock, that a captured epoch is even and
not in the future, and that past the rundown nobody acts; RundownExcludes is
part of it and needs the exact count. `Full` adds what each stage of a reset
has already cleared, that a callback which has seen or set the suspended bit
has the latch (so that an exhausted resume cannot disagree with it), that a
late Down leaves the worker where the next control check stops it, and that an
unserved latch has a signal or a signaller; the remaining theorems follow. A
delayed command may come between any two of these steps. It only cancels a word
or adds to the event, so of what a stage of the reset has cleared it leaves the
state, the latch and the callbacks' signals cleared, and the word, once reset,
idle or cancelled (`FreshWords`): that is what SessionsStartClean says.

`SupervisorLeaseProofs`. A renewing compare-exchange expects a lease that was
not expired and not newer than its own sample (`SamplesOK`), so every thread
moves the stamp only forward and the expiry bit only up (`LeaseGrows`). A proof
of age therefore stays true until the Down or the arming that rests on it
(`ProofOK`), which gives ProvenFresh. A Down that follows expiry leaves the
worker before its next control check, which the bit ends (`LateOK`), and
completion finds the watchdog asleep or gone (`CompletedOK`), since both need
the done mutex.

`PlaybackClockProofs`, for `ProgressClock`. While no publication is in progress the atomics hold the
anchor published last (`MemoryOK`), because each field has been stored by the
time the sequence is even again (`StoresOK`). What a reader has read equals the
atomics for as long as the sequence is the one it began with, and it never
holds a sequence of the future (`ReadsOK`); hence a load that returns gives the
last publication, and every step is one of `AtomicRegister` or leaves it alone.
`BoundOK` (a publication that has begun leaves room for its last number) keeps
the counter from coming round.

`SessionTargetProofs`. The same argument for the target (`EpochOK`, `ReadOK`),
where publications come from any number of controllers and the poisoned epoch
is odd. `MutexOK` says who is inside which of the two mutexes. The identity
needs more: a binding in progress is for a generation above every bound one and
dead until its last store (`BindingOK`), and only bound generations are
invalidated or retained (`OwnerOK`), so that the last store cannot revive an
invalidated one. The worker's view is `StatusOK`: while the owner's generation
is the one it read first, the pid and the liveness it read belong to that
generation's binding; and `SinceOK`: what the last revalidation found is what
was published, and not invalidated, when it began. LiveIdentityIsValid and
AuthorityAtSend are conjuncts of the invariant, which TLC also checked on the
instance of `session_target` before it was proved.

`PlaybackClockProofs`, for `PauseResume`. NothingCarriedOver is not inductive: what makes it true is
who owes the release at each place of the iteration (`CarriedOK`). The focus
pause owes it until its restoration, a manual pause on top of it by the pending
suspension, and a restoration that leaves the keys alone because a manual pause
was asked for in the same iteration owes it to the manual pause that this
iteration enters next. `DispatchOK` says that nothing is dispatched during a
pause.

`PlaybackSupervisorProofs`. `ThreadsOK` says which of the starter and the
monitor has the session of the slot, and `OwnerOK` that the reservation is that
session's until its resources are released; a worker runs only in the slot and
never once the monitor has joined it (`WorkerAt`). KeyboardExclusive then needs
what a key that is down means after its worker ended: the release was not
proved, and once the session is retired the keyboard is quarantined for good
(`HeldAt`). KeysReleasedIsTrue adds that the closing application looks at the
last session there will be (`ClosingOK`), because closing refuses every later
reservation. StoppedNeverArms rests on the order of a request, which cancels the
startup word before it sets its flag: a session that carries a request, or is
about to, has a word that cannot arm (`RequestsOK`). A caller delayed across a
retirement works on an older session, and the word it cancels is the current
one's, which only aborts it.

`PresentationProofs`, for every capacity of the hub and any number of events.
LifecycleInOrder follows from `HubOK`: what is in flight followed by what is
buffered carries exactly the lifecycle events after the last received one, in
order (`Carries`), and this survives an appended event, a snapshot taken out
anywhere, and the removal of the first, which is the next to receive or a
snapshot. A publication that does not keep it raises the failure flag, and
neither the flag nor the closing of the hub is ever taken back. SnapshotsSettled
needs that only a snapshot is worked on at the place that settles one
(`HandoverOK`) and that a consumer on its way out has closed the queue or lost
its session (`ExitOK`), so that the second look at the flag in
`publish_snapshot` keeps the slot empty; the one frame that may be missing is
missing only from a closed queue (`SettledOK`). RetiredAfterTerminal needs that
the terminal event is the last thing the consumer publishes (`TerminalOK`).
FinalizedOrFlagged needs which thread still owes the flag: a supervisor that is
about to fail, or a consumer before its cleanup (`FlagOK`).

`CoordinatorProofs`. Two invariants, for every set of songs, keys, rate and
timing.

`Inv` is what follows from which keys a packet names, when it is due and what
is checked before a commit. The floor of a live generation is its hold after
its own Down (`Ledger`), and admission checked that distance in ticks for the
keys of the packets themselves, so no release is deferred
(AdmittedNeverDefers). The physical guard keeps a key for as long as it has to
be kept apart, through the reset of a pause (`Guarded`), which gives KeysSpaced.
`Accounts` ties presses and tokens to the states of the generations, so the
counters that `is_clean_completion` reads leave only released and dropped
(EveryNoteAccounted).

CompiledPairs and NeverRefused need what the compiler computes. Its loop is a
recursive function over the frames; that a function with this recursion exists,
and what its value means (`OpenMeans`: the open slot of a key is the press that
still sounds), are proved by induction in the form of a set of frame numbers
without a least missing one, which `NatLessThanWellFounded` and `WFMin` give
without an operator parameter. From it a song compiles exactly if every press is
closed before its key is pressed again, and each generation has one Up, the
first that follows.

`Strong` adds to `Inv` the exact ledger. After the packets before the cursor, a
generation is Scheduled exactly if its Down is still to come, Active exactly if
its key's slot holds it and Cancelled exactly if its key's token does; its Up is
at or after the cursor or it is Released; and its Up is in its packet, orphaned
there (a pause) or withdrawn (a drop) according to its state (`GenAt`). Each
counter is the number of generations in its state (`Counted`). The prepared
stream has a frame per packet that releases what the compiled packet releases,
moves with the ledger's cursor and, since a token stands for every orphaned Up,
stays acceptable after pauses that came after it was frozen (`FrozenAs`,
`ReplayOK`). Hence every comparison the code makes succeeds: the validation of a
frozen commit, `check_local_invariants`, `check_invariants`, the checks after a
cleanup, and the end of the stream (NeverRefused). TLC checked `Strong` on the
instance of the run `coordinator` first.

Proved and not also model-checked: TypeOK of `TrackedKeys`, `SystemPower`,
`SupervisorLease`, `PauseResume` and `PlaybackSupervisor`, ClockTypeOK,
VerifiedReleaseSound, TrackedReleaseClears, FailedReleaseReported and
FinalizedOrFlagged.

Only model-checked: liveness (LifecycleCompletes, SuspendStopsWorker,
SilenceStopsWorker, ExpiryEndsSession, LoadReturns, PauseEnds, PlaybackEnds,
LifecycleArrives, SessionEnds, PlaybackRetires, PauseAcknowledged), which is out
of the prover's reach. Every other property of a passing run has a theorem.

## 6. Plan

1. `UpdateService`: check, download, verify and install of the desktop updater,
   against `Activity` and the keys-released marker.
2. Power resources of the desktop: acquisition and release of the power request
   around a session, and the process-wide registration.
3. The frontend's session ledger behind `EventHub`.

## 7. Not modelled

Text decoding, the catalogue, settings and files (sequential, pure I/O);
calibration (statistics of hardware); window decoration, the website, tests and
build tooling, which are most of the repository's lines; Win32 itself, which
appears as nondeterministic inputs. Traces, telemetry and health statistics,
which decide nothing. Weak memory orders: the models are sequentially
consistent, which x86-64 builds respect for these protocols except for the
store buffering that SeqCst and locked instructions in the code rule out.
