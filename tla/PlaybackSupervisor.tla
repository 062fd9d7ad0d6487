------------------------- MODULE PlaybackSupervisor -------------------------
(***************************************************************************)
(* The life of physical playback sessions: NativePlaybackService           *)
(* (native_runtime/playback/session.rs and retirement.rs) with the thread  *)
(* that starts a session, the monitor that supervises it, the threads that *)
(* run commands, the event hub's termination request and the shutdown of   *)
(* the application; and NativeDispatchSession (sky_player engine/          *)
(* session.rs) with its lifecycle word, its request flags, its spawned     *)
(* worker, and the startup word that all sessions of the process share.    *)
(*                                                                         *)
(* A session id is its number.  Only one start is under way at a time (it  *)
(* holds the active slot), so the starter and the monitor always work on   *)
(* the latest session, current; a command may hold an older one.           *)
(***************************************************************************)
EXTENDS Naturals, FiniteSets, StartupWord, Activity

CONSTANTS
    MaxSessions,
    MaxCallers,   \* threads that send requests at the same time
    Methods,      \* the commands of the user
    World         \* what else happens: a subset of {"focus", "identity",
                  \* "delivery", "close"}

ASSUME SessionsAssumption ==
    /\ MaxSessions \in Nat \ {0}
    /\ MaxCallers \in Nat \ {0}
    /\ Sessions = 1 .. MaxSessions
    /\ NoSession = 0
    /\ Methods \subseteq {"stop", "skip", "pause", "resume"}

VARIABLES
    current,     \* the latest session, 0 before the first
    slot,        \* NativePlaybackService::active
    active,      \* NativeActivePlayback of every session
    player,      \* NativeDispatchSession of every session
    word,        \* the startup word of the process
    worker,      \* the dispatch worker of every session
    starter,     \* program counter of NativePlaybackService::start and arm
    monitor,     \* program counter and locals of the monitor
    caller,      \* the threads that send requests to a player
    focus,       \* the game's window is in front
    delivery,    \* the hub's delivery-failure flag
    keys_released \* the updater's playback.keys_released marker

vars == <<current, slot, active, player, word, worker, starter, monitor, caller,
          focus, delivery, keys_released, activity>>

Live == {"Starting", "Playing", "Paused"}
Ended == {"Finished", "Failed"}
PlaybackSessionState == Live \cup Ended \cup {"Stopping"}
Control == {"Pause", "Resume"}
Request == {"Quit", "Skip", "PanicRelease"}
\* What the desktop tells apart: finished, quit and skipped are successes.
Outcome == {"none", "success", "error", "panic"}
\* What the terminal snapshot says of the release.
Release == {"none", "not_required", "unavailable", "verified", "unverified"}
Lifecycle == {"NEW", "STARTING", "RUNNING", "FINISHED", "POISONED"}
Callers == {"client", "hub", "closer"}
Method == {"none", "stop", "skip", "pause", "resume", "hub", "shutdown"}

ActiveRecord ==
    [state : PlaybackSessionState, pending : Control \cup {"none"},
     stop : BOOLEAN, verified : BOOLEAN, done : BOOLEAN]
PlayerRecord ==
    [lifecycle : Lifecycle, outcome : Outcome, release : Release, desired_pause : BOOLEAN,
     requested : SUBSET Request, completed : BOOLEAN, handle : BOOLEAN]
WorkerRecord ==
    [pc : {"none", "prepare", "admit", "boot", "preroll", "play", "publish", "complete",
           "exit", "gone"},
     pauses : SUBSET {"Focus", "Manual"}, armed : BOOLEAN, committed : BOOLEAN, held : BOOLEAN]
MonitorRecord ==
    [pc : {"none", "parked", "top", "poll", "state", "acknowledge", "join", "retire", "finalize"},
     event : PlaybackSessionState, last : PlaybackSessionState,
     stop_sent : BOOLEAN, verdict : {"none"} \cup Ended]
CallerRecord ==
    [pc : {"idle", "state", "withdraw", "pending", "control", "check", "cancel", "flag",
           "close", "wait", "end"},
     s : Sessions \cup {NoSession}, method : Method, request : Request \cup {"none"}]

TypeOK ==
    /\ ActivityTypeOK
    /\ current \in 0 .. MaxSessions
    /\ slot \in Sessions \cup {NoSession}
    /\ active \in [Sessions -> ActiveRecord]
    /\ player \in [Sessions -> PlayerRecord]
    /\ word \in Word
    /\ worker \in [Sessions -> WorkerRecord]
    /\ starter \in {"idle", "spawn", "arm", "watchdog", "worker", "handle", "started", "failed"}
    /\ monitor \in MonitorRecord
    /\ caller \in [Callers -> CallerRecord]
    /\ focus \in BOOLEAN /\ delivery \in BOOLEAN /\ keys_released \in BOOLEAN

NewActive == [state |-> "Starting", pending |-> "none", stop |-> FALSE,
              verified |-> FALSE, done |-> FALSE]
NewPlayer == [lifecycle |-> "NEW", outcome |-> "none", release |-> "none",
              desired_pause |-> FALSE, requested |-> {},
              completed |-> FALSE, handle |-> FALSE]
NewWorker == [pc |-> "none", pauses |-> {}, armed |-> FALSE, committed |-> FALSE,
              held |-> FALSE]
NoMonitor == [pc |-> "none", event |-> "Starting", last |-> "Starting",
              stop_sent |-> FALSE, verdict |-> "none"]
Idle == [pc |-> "idle", s |-> NoSession, method |-> "none", request |-> "none"]

Init ==
    /\ ActivityInit
    /\ current = 0
    /\ slot = NoSession
    /\ active = [s \in Sessions |-> NewActive]
    /\ player = [s \in Sessions |-> NewPlayer]
    /\ word = IdleWord
    /\ worker = [s \in Sessions |-> NewWorker]
    /\ starter = "idle"
    /\ monitor = NoMonitor
    /\ caller = [p \in Callers |-> Idle]
    /\ focus = TRUE
    /\ delivery = FALSE
    /\ keys_released = FALSE

(***************************************************************************)
(* NativeDispatchSession: requests.                                        *)
(***************************************************************************)
\* The lifecycle states in which quit, skip and panic_release are accepted.
accepts_request(s) == player[s].lifecycle \in {"NEW", "STARTING", "RUNNING", "POISONED"}

\* cancel_prearm on the word of the process, whoever calls it.
cancel_prearm(w, reason) == IF cancellable(w, reason) THEN cancelled(w, reason) ELSE w

\* quit, skip and panic_release by the thread that supervises the session
\* itself: the session cannot be replaced meanwhile, so the check, the
\* cancellation for each request in turn and the flags are one step.
asked(p, requests) == [p EXCEPT !.requested = @ \cup requests]
Ask(s, requests, reason) ==
    IF accepts_request(s)
    THEN /\ player' = [player EXCEPT ![s] = asked(@, requests)]
         /\ word' = cancel_prearm(word, reason)
    ELSE UNCHANGED <<player, word>>

\* poll_status.
poll_status(s) ==
    CASE player[s].lifecycle = "NEW" -> "Ready"
      [] player[s].lifecycle = "STARTING" -> "Preparing"
      [] player[s].lifecycle = "RUNNING" /\ word.phase # "Armed" -> "Preparing"
      [] player[s].lifecycle = "RUNNING" /\ worker[s].pc = "preroll" -> "Preroll"
      [] player[s].lifecycle = "RUNNING" /\ worker[s].pauses # {} -> "Paused"
      [] player[s].lifecycle = "RUNNING" -> "Playing"
      [] player[s].lifecycle \in {"FINISHED", "POISONED"} -> player[s].outcome
Terminal(status) == status \in Outcome

\* playback_event_state of a status that is not terminal.
playback_event_state(status) ==
    IF status \in {"Playing", "Paused"} THEN status ELSE "Starting"

\* join that trusts the completion flag.
Fault_joined(s) == player[s].completed

\* join: the completion flag, then the thread behind the handle.
joined(s) ==
    /\ player[s].completed
    /\ player[s].handle => worker[s].pc = "gone"

(***************************************************************************)
(* start and arm.                                                          *)
(***************************************************************************)
StarterOnly == UNCHANGED <<current, slot, worker, caller, focus, delivery, keys_released>>

\* start up to the end of the slot's critical section: the reservation, the
\* player, whose creation resets the startup word, and the Starting event.
start ==
    /\ starter = "idle" /\ slot = NoSession /\ current < MaxSessions
    /\ ~delivery
    /\ current' = current + 1
    /\ reserve_playback(current')
    /\ slot' = current'
    /\ word' = IdleWord
    /\ starter' = "spawn"
    /\ UNCHANGED <<active, player, worker, monitor, caller, focus, delivery, keys_released>>

\* No player, no registration, no Starting event, no presentation or no
\* monitor thread: the session retires as one that never had a worker.
start_fails ==
    /\ starter = "spawn"
    /\ release_playback(current)
    /\ active' = [active EXCEPT ![current].pending = "none", ![current].verified = TRUE]
    /\ monitor' = [NoMonitor EXCEPT !.pc = "finalize", !.verdict = "Failed"]
    /\ starter' = "idle"
    /\ StarterOnly /\ UNCHANGED <<player, word>>

spawn_monitor ==
    /\ starter = "spawn"
    /\ monitor' = [NoMonitor EXCEPT !.pc = "parked"]
    /\ starter' = "arm"
    /\ StarterOnly /\ UNCHANGED <<active, player, word, activity>>

\* arm claims the session, or the clock refuses it before.
arm ==
    /\ starter = "arm"
    /\ \/ /\ player' = [player EXCEPT ![current].lifecycle = "STARTING"]
          /\ starter' = "watchdog"
       \/ UNCHANGED player /\ starter' = "failed"
    /\ StarterOnly /\ UNCHANGED <<active, monitor, word, activity>>

\* The watchdog, and RUNNING, before the worker's thread is asked for.
spawn_watchdog ==
    /\ starter = "watchdog"
    /\ player' = [player EXCEPT ![current].lifecycle = "RUNNING"]
    /\ starter' = "worker"
    /\ StarterOnly /\ UNCHANGED <<active, monitor, word, activity>>

\* Neither the watchdog nor the worker can be spawned: fail_startup, the
\* error outcome, FINISHED and the completion flag.
spawn_fails ==
    /\ starter \in {"watchdog", "worker"}
    /\ word' = IF word.phase \in PreArm THEN failed(word, "WorkerFailure") ELSE word
    /\ player' = [player EXCEPT ![current].lifecycle = "FINISHED",
                                ![current].outcome = "error",
                                ![current].completed = TRUE]
    /\ starter' = "failed"
    /\ StarterOnly /\ UNCHANGED <<active, monitor, activity>>

spawn_worker ==
    /\ starter = "worker"
    /\ worker' = [worker EXCEPT ![current].pc = "prepare"]
    /\ starter' = "handle"
    /\ UNCHANGED <<current, slot, active, player, word, monitor, caller, focus,
                   delivery, keys_released, activity>>

store_handle ==
    /\ starter = "handle"
    /\ player' = [player EXCEPT ![current].handle = TRUE]
    /\ starter' = "started"
    /\ StarterOnly /\ UNCHANGED <<active, monitor, word, activity>>

Starter == \/ start_fails \/ spawn_monitor \/ arm \/ spawn_watchdog \/ spawn_fails \/ spawn_worker \/ store_handle

(***************************************************************************)
(* The worker, as far as requests, pauses and its end go.                  *)
(***************************************************************************)
WorkerOnly == UNCHANGED <<current, slot, active, starter, monitor, caller, focus, delivery,
                          keys_released, activity>>

\* The outcome of a session by its trigger.
outcome_of(trigger) ==
    CASE trigger = "Panic" -> "panic"
      [] trigger \in ErrorReason \cup {"Error"} -> "error"
      [] OTHER -> "success"

\* terminal_release_evidence_after_startup: a worker that stopped before it had
\* a backend has no release to prove if it stopped for one of these reasons.
evidence(trigger) ==
    IF trigger \in {"Quit", "Skip", "SystemSuspend", "PanicRelease"}
    THEN "not_required" ELSE "unavailable"

\* The worker stops with a backend: the terminal release is proved or not,
\* and one that is not leaves the keys down or up.
Stop(s, trigger) ==
    \E release \in {"verified", "unverified"} :
      /\ \E held \in IF release = "unverified" THEN {worker[s].held, FALSE} ELSE {FALSE} :
           worker' = [worker EXCEPT ![s].pc = "publish", ![s].pauses = {}, ![s].held = held]
      /\ player' = [player EXCEPT ![s].release = release,
               ![s].outcome = IF release = "unverified" /\ outcome_of(trigger) = "success"
                              THEN "error" ELSE outcome_of(trigger)]

\* It stops before: record_startup_abort_without_backend.
StopWithoutBackend(s, trigger) ==
    /\ worker' = [worker EXCEPT ![s].pc = "publish"]
    /\ player' = [player EXCEPT ![s].outcome = outcome_of(trigger),
                                ![s].release = evidence(trigger)]

\* begin_preparing and the check that follows it: an abort here has no
\* backend and no release to report.
begin_preparing(s) ==
    /\ worker[s].pc = "prepare"
    /\ IF movable(word, "Idle")
       THEN /\ word' = moved(word)
            /\ worker' = [worker EXCEPT ![s].pc = "admit"]
            /\ UNCHANGED player
       ELSE StopWithoutBackend(s, abort_reason(word)) /\ UNCHANGED word
    /\ WorkerOnly

admit_preparation(s) ==
    /\ worker[s].pc = "admit"
    /\ IF word.phase = "Preparing"
       THEN worker' = [worker EXCEPT ![s].pc = "boot"] /\ UNCHANGED player
       ELSE StopWithoutBackend(s, abort_reason(word))
    /\ WorkerOnly /\ UNCHANGED word

\* The rest of boot::initialize: its checkpoints, the authority they require,
\* and the moves to Ready, Arming and Armed.
boot_moves(s) ==
    /\ worker[s].pc = "boot" /\ focus
    /\ word.phase \in {"Preparing", "Ready", "Arming"}
    /\ word' = moved(word)
    /\ worker' = IF word'.armed
                 THEN [worker EXCEPT ![s].pc = "preroll", ![s].armed = TRUE]
                 ELSE worker
    /\ WorkerOnly /\ UNCHANGED player

\* admission_failure: the startup is cancelled, by a request or because the
\* focus is gone, or something else fails; either way the keys are released.
boot_aborts(s) ==
    /\ worker[s].pc = "boot"
    /\ \/ ~focus /\ word' = cancel_prearm(word, "FocusInvalidated")
       \/ word.phase = "Cancelled" /\ UNCHANGED word
       \/ word.phase \in PreArm /\ word' = failed(word, "WorkerFailure")
    /\ Stop(s, abort_reason(word'))
    /\ WorkerOnly

\* process_command_control at the top of every iteration, and finalize.
trigger_of(requested) ==
    CASE "Skip" \in requested -> "Skip"
      [] "Quit" \in requested -> "Quit"
      [] "PanicRelease" \in requested -> "PanicRelease"

command_exit(s) ==
    /\ worker[s].pc \in {"preroll", "play"}
    /\ player[s].requested # {}
    /\ Stop(s, trigger_of(player[s].requested))
    /\ WorkerOnly /\ UNCHANGED word

\* An iteration that no request ends.
Iteration(s) == worker[s].pc \in {"preroll", "play"} /\ player[s].requested = {}

\* Any failure of a clock, a wait or a send ends the session.
iteration_fails(s) ==
    /\ Iteration(s)
    /\ Stop(s, "Error")
    /\ WorkerOnly /\ UNCHANGED word

\* So does a focus loss or a pause before the first physical commit.
Interrupted(s) == ~worker[s].committed /\ (~focus \/ player[s].desired_pause)
interruption_ends(s) ==
    /\ Iteration(s) /\ Interrupted(s)
    /\ Stop(s, "Error")
    /\ WorkerOnly /\ UNCHANGED word

preroll_ends(s) ==
    /\ Iteration(s) /\ worker[s].pc = "preroll" /\ ~Interrupted(s)
    /\ worker' = [worker EXCEPT ![s].pc = "play"]
    /\ WorkerOnly /\ UNCHANGED <<word, player>>

\* Focus and manual pauses begin and end; a manual pause ends only while the
\* focus is there.  PauseResume has the detail.
pauses_of(s) ==
    (IF focus THEN {} ELSE {"Focus"})
      \cup (IF player[s].desired_pause \/ ("Manual" \in worker[s].pauses /\ ~focus)
            THEN {"Manual"} ELSE {})
update_pauses(s) ==
    /\ Iteration(s) /\ worker[s].pc = "play" /\ worker[s].committed
    /\ worker[s].pauses # pauses_of(s)
    /\ worker' = [worker EXCEPT ![s].pauses = pauses_of(s)]
    /\ WorkerOnly /\ UNCHANGED <<word, player>>

\* The first physical commit, and the end of the song.
commit(s) ==
    /\ Iteration(s) /\ worker[s].pc = "play" /\ ~worker[s].committed /\ ~Interrupted(s)
    /\ worker' = [worker EXCEPT ![s].committed = TRUE, ![s].held = TRUE]
    /\ WorkerOnly /\ UNCHANGED <<word, player>>

song_ends(s) ==
    /\ Iteration(s) /\ worker[s].committed /\ worker[s].pauses = {}
    /\ Stop(s, "None")
    /\ WorkerOnly /\ UNCHANGED word

\* A panic anywhere; once the dispatch loop runs, it is caught and the keys
\* are released before it goes on.
worker_panics(s) ==
    /\ worker[s].pc \in {"prepare", "admit", "boot", "preroll", "play"}
    /\ word' = IF word.phase \in PreArm THEN failed(word, "WorkerFailure") ELSE word
    /\ IF worker[s].armed THEN Stop(s, "Panic") ELSE StopWithoutBackend(s, "Panic")
    /\ WorkerOnly

\* The wrapper of the thread: the outcome and the lifecycle, the completion
\* flag, and the end of the thread.
publish_outcome(s) ==
    /\ worker[s].pc = "publish"
    /\ player' = [player EXCEPT ![s].lifecycle =
                       IF player[s].outcome = "panic" THEN "POISONED" ELSE "FINISHED"]
    /\ worker' = [worker EXCEPT ![s].pc = "complete"]
    /\ WorkerOnly /\ UNCHANGED word

\* A worker that ends without the completion flag.
Fault_complete(s) ==
    /\ worker[s].pc = "complete"
    /\ worker' = [worker EXCEPT ![s].pc = "exit"]
    /\ WorkerOnly /\ UNCHANGED <<word, player>>

complete(s) ==
    /\ worker[s].pc = "complete"
    /\ player' = [player EXCEPT ![s].completed = TRUE]
    /\ worker' = [worker EXCEPT ![s].pc = "exit"]
    /\ WorkerOnly /\ UNCHANGED word

exit_thread(s) ==
    /\ worker[s].pc = "exit"
    /\ worker' = [worker EXCEPT ![s].pc = "gone"]
    /\ WorkerOnly /\ UNCHANGED <<word, player>>

\* What a worker does sooner or later, and what may befall it.
Worker(s) ==
    \/ begin_preparing(s) \/ admit_preparation(s) \/ boot_moves(s) \/ boot_aborts(s)
    \/ command_exit(s) \/ interruption_ends(s) \/ preroll_ends(s) \/ update_pauses(s)
    \/ commit(s) \/ publish_outcome(s) \/ complete(s) \/ exit_thread(s)
Chance(s) == iteration_fails(s) \/ song_ends(s) \/ worker_panics(s)

(***************************************************************************)
(* The monitor.                                                            *)
(***************************************************************************)
MonitorOnly == UNCHANGED <<current, worker, caller, focus, delivery, keys_released>>
To(pc) == monitor' = [monitor EXCEPT !.pc = pc]

\* The activation of a worker, or its failure: then nothing was started and
\* nothing needs a release.
activation ==
    /\ monitor.pc = "parked" /\ starter = "started"
    /\ starter' = "idle"
    /\ To("top")
    /\ MonitorOnly /\ UNCHANGED <<slot, active, player, word, activity>>

activation_failed ==
    /\ monitor.pc = "parked" /\ starter = "failed"
    /\ starter' = "idle"
    /\ release_playback(current)
    /\ active' = [active EXCEPT ![current].state = "Stopping", ![current].pending = "none",
                                ![current].verified = TRUE]
    /\ monitor' = [monitor EXCEPT !.pc = "finalize", !.verdict = "Failed"]
    /\ MonitorOnly /\ UNCHANGED <<slot, player, word>>

\* The top of the loop: a failed delivery and a stop request are passed on to
\* the player, a lost focus and a lost identity too.
monitor_top ==
    LET s == current
        stop == active[s].stop \/ delivery
        told == stop /\ (delivery \/ ~monitor.stop_sent)
    IN  /\ monitor.pc = "top"
        /\ \E identity_lost \in {FALSE, "identity" \in World} :
             LET panic == delivery \/ identity_lost
                 reason == CASE delivery -> "PanicRelease"
                             [] told /\ ~delivery -> "Quit"
                             [] ~told /\ ~focus -> "FocusInvalidated"
                             [] OTHER -> "PanicRelease"
                 requests == (IF panic THEN {"PanicRelease"} ELSE {})
                               \cup (IF told THEN {"Quit"} ELSE {})
             IN  IF requests # {} \/ ~focus THEN Ask(s, requests, reason)
                                           ELSE UNCHANGED <<player, word>>
        /\ active' = [active EXCEPT ![s].stop = stop,
                                    ![s].state = IF told THEN "Stopping" ELSE @]
        /\ monitor' = [monitor EXCEPT !.pc = "poll", !.stop_sent = stop,
                                      !.last = IF told THEN "Stopping" ELSE @]
        /\ MonitorOnly /\ UNCHANGED <<slot, starter, activity>>

\* Poll, and decide what the user sees.
monitor_poll ==
    LET status == poll_status(current)
        event == IF active[current].stop THEN "Stopping" ELSE playback_event_state(status)
    IN  /\ monitor.pc = "poll"
        /\ monitor' = CASE Terminal(status) -> [monitor EXCEPT !.pc = "join"]
                        [] ~Terminal(status) /\ event = monitor.last -> [monitor EXCEPT !.pc = "top"]
                        [] OTHER -> [monitor EXCEPT !.pc = "state", !.event = event]
        /\ MonitorOnly /\ UNCHANGED <<slot, starter, active, player, word, activity>>

\* set_playback_state is a store that looks at nothing.
monitor_state ==
    /\ monitor.pc = "state"
    /\ active' = [active EXCEPT ![current].state = monitor.event]
    /\ To("acknowledge")
    /\ MonitorOnly /\ UNCHANGED <<slot, starter, player, word, activity>>

\* Only a pause is acknowledged.
Fault_acknowledges(event, pending) == <<event, pending>> = <<"Paused", "Pause">>

\* The transition that a pending control waits for clears it.
acknowledges(event, pending) ==
    <<event, pending>> \in {<<"Paused", "Pause">>, <<"Playing", "Resume">>}
monitor_acknowledge ==
    /\ monitor.pc = "acknowledge"
    /\ active' = [active EXCEPT ![current].pending =
                       IF acknowledges(monitor.event, @) THEN "none" ELSE @]
    /\ monitor' = [monitor EXCEPT !.pc = "top", !.last = monitor.event, !.event = "Starting"]
    /\ MonitorOnly /\ UNCHANGED <<slot, starter, player, word, activity>>

\* terminal_publication_after_worker.
released(s) == player[s].release \in {"verified", "not_required"}
terminal_state(s) ==
    IF player[s].outcome = "success" /\ released(s) THEN "Finished" ELSE "Failed"

\* decide_playback_handoff: no retirement before the join.
await_quiescence ==
    /\ monitor.pc = "join" /\ ~joined(current)
    /\ active[current].state # "Stopping"
    /\ active' = [active EXCEPT ![current].state = "Stopping"]
    /\ MonitorOnly /\ UNCHANGED <<slot, starter, player, word, activity, monitor>>

retire ==
    LET verdict == terminal_state(current)
    IN  /\ monitor.pc = "join" /\ joined(current)
        /\ active' = [active EXCEPT ![current].state = "Stopping",
                                    ![current].stop = @ \/ verdict = "Failed"]
        /\ monitor' = [monitor EXCEPT !.pc = "retire", !.verdict = verdict]
        /\ MonitorOnly /\ UNCHANGED <<slot, starter, player, word, activity>>

\* release_terminal_resources: the reservation is given back only for a
\* release that is verified or not required.
release_terminal_resources ==
    /\ monitor.pc = "retire"
    /\ IF released(current) THEN release_playback(current) ELSE quarantine_playback(current)
    /\ active' = [active EXCEPT ![current].pending = "none",
                                ![current].verified = released(current)]
    /\ To("finalize")
    /\ MonitorOnly /\ UNCHANGED <<slot, starter, player, word>>

\* The presentation's completion: the terminal state, the free slot and done.
\* It comes as long as no delivery has failed; after that the consumer may
\* drop it uncalled (Presentation's FinalizerCompletes fails), and the slot
\* stays as it is.  Of the player and the worker only what a thread that still
\* holds them can see is kept.
clear_terminal_ownership ==
    /\ monitor.pc = "finalize" /\ slot = current
    /\ active' = [active EXCEPT ![current].state = monitor.verdict, ![current].done = TRUE]
    /\ player' = [player EXCEPT ![current] = [NewPlayer EXCEPT !.lifecycle = player[current].lifecycle]]
    /\ worker' = [worker EXCEPT ![current] = [NewWorker EXCEPT !.pc = worker[current].pc,
                                                              !.held = worker[current].held]]
    /\ slot' = NoSession
    /\ monitor' = NoMonitor
    /\ UNCHANGED <<current, starter, word, caller, focus, delivery, keys_released, activity>>

\* What the monitor's thread does itself.
Supervision ==
    \/ activation \/ activation_failed \/ monitor_top \/ monitor_poll \/ monitor_state
    \/ monitor_acknowledge \/ await_quiescence \/ retire \/ release_terminal_resources
Monitor == Supervision \/ clear_terminal_ownership

(***************************************************************************)
(* The threads that run commands, the hub's termination request and the    *)
(* shutdown of the application.  Each holds the session that was active    *)
(* when it began, and may be delayed between any two steps.                *)
(***************************************************************************)
CallerOnly == UNCHANGED <<current, slot, worker, starter, monitor, focus>>
CallerSteps == CallerOnly /\ UNCHANGED <<delivery, keys_released, activity>>
Goto(p, pc) == caller' = [caller EXCEPT ![p].pc = pc]
Return(p) == caller' = [caller EXCEPT ![p] = Idle]

\* One more thread may begin.
Admits(p) ==
    /\ caller[p].pc = "idle"
    /\ Cardinality({q \in Callers : caller[q].pc \notin {"idle", "end"}}) < MaxCallers

\* command clones the active session; one that is gone answers the command.
command(method) ==
    /\ Admits("client") /\ slot # NoSession
    /\ caller' = [caller EXCEPT !["client"] =
                     [pc |-> "state", s |-> slot, method |-> method,
                      request |-> CASE method = "stop" -> "Quit" [] method = "skip" -> "Skip"
                                    [] OTHER -> "none"]]
    /\ UNCHANGED <<active, player, word>> /\ CallerSteps

\* The state the command decides by, read once.
read_state(p) ==
    LET method == caller[p].method
        state == active[caller[p].s].state
    IN  /\ caller[p].pc = "state"
        /\ CASE method \in {"stop", "skip", "shutdown"} /\ state \in Live -> Goto(p, "withdraw")
             [] method = "pause" /\ state = "Playing" -> Goto(p, "pending")
             [] method = "resume" /\ state = "Paused" -> Goto(p, "pending")
             [] method = "shutdown" /\ state \notin Live -> Goto(p, "check")
             [] OTHER -> Return(p)
        /\ active' = IF method = "shutdown" /\ state \notin Live
                     THEN [active EXCEPT ![caller[p].s].stop = TRUE] ELSE active
        /\ UNCHANGED <<player, word>> /\ CallerSteps

\* Stop, skip and shutdown withdraw a pending control; all but skip ask the
\* monitor to stop and store Stopping.
withdraw(p) ==
    LET s == caller[p].s
        stops == caller[p].method # "skip"
    IN  /\ caller[p].pc = "withdraw"
        /\ active' = [active EXCEPT ![s].pending = "none", ![s].stop = @ \/ stops,
                                    ![s].state = IF stops THEN "Stopping" ELSE @]
        /\ Goto(p, "check")
        /\ UNCHANGED <<player, word>> /\ CallerSteps

\* Pause and resume leave if a control is pending and become it otherwise.
take_pending(p) ==
    LET s == caller[p].s
    IN  /\ caller[p].pc = "pending"
        /\ IF active[s].pending # "none"
           THEN Return(p) /\ UNCHANGED active
           ELSE /\ active' = [active EXCEPT ![s].pending =
                                IF caller[p].method = "pause" THEN "Pause" ELSE "Resume"]
                /\ Goto(p, "control")
        /\ UNCHANGED <<player, word>> /\ CallerSteps

\* NativeDispatchSession::pause and resume; a refusal withdraws the pending
\* control.
control(p) ==
    LET s == caller[p].s
    IN  /\ caller[p].pc = "control"
        /\ IF player[s].lifecycle = "RUNNING"
           THEN /\ player' = [player EXCEPT ![s].desired_pause = caller[p].method = "pause"]
                /\ UNCHANGED active
           ELSE active' = [active EXCEPT ![s].pending = "none"] /\ UNCHANGED player
        /\ Return(p)
        /\ UNCHANGED word /\ CallerSteps

\* quit, skip and panic_release: the lifecycle, the startup word of the
\* process and the flag, each on its own.  A refusal ends the request; hub and
\* shutdown send a second one.
Advance(p) ==
    LET c == caller[p]
        Send(request) == [c EXCEPT !.pc = "check", !.request = request]
    IN  caller' = [caller EXCEPT ![p] =
            CASE c.method = "hub" /\ c.request = "PanicRelease" -> Send("Quit")
              [] c.method = "shutdown" /\ c.request = "Quit" -> Send("PanicRelease")
              [] c.method = "shutdown" /\ c.request = "PanicRelease" -> [c EXCEPT !.pc = "wait"]
              [] OTHER -> Idle]

check_lifecycle(p) ==
    /\ caller[p].pc = "check"
    /\ IF accepts_request(caller[p].s) THEN Goto(p, "cancel") ELSE Advance(p)
    /\ UNCHANGED <<active, player, word>> /\ CallerSteps

\* A request that only sets its flag.
Fault_cancel_startup(p) ==
    /\ caller[p].pc = "cancel"
    /\ Goto(p, "flag")
    /\ UNCHANGED <<active, player, word>> /\ CallerSteps

cancel_startup(p) ==
    /\ caller[p].pc = "cancel"
    /\ word' = cancel_prearm(word, caller[p].request)
    /\ Goto(p, "flag")
    /\ UNCHANGED <<active, player>> /\ CallerSteps

set_flag(p) ==
    /\ caller[p].pc = "flag"
    /\ player' = [player EXCEPT ![caller[p].s] = asked(@, {caller[p].request})]
    /\ Advance(p)
    /\ UNCHANGED <<active, word>> /\ CallerSteps

\* fail_delivery: the flag of the hub, and the termination of the session
\* whose player is registered.
fail_delivery ==
    /\ "delivery" \in World /\ ~delivery /\ Admits("hub")
    /\ delivery' = TRUE
    /\ caller' = IF slot = NoSession THEN caller
                 ELSE [caller EXCEPT !["hub"] = [pc |-> "check", s |-> slot, method |-> "hub",
                                                 request |-> "PanicRelease"]]
    /\ UNCHANGED <<active, player, word, keys_released, activity>> /\ CallerOnly

\* The application closes and leaves admission open.
Fault_close_admission ==
    /\ "close" \in World /\ Admits("closer")
    /\ Goto("closer", "close")
    /\ UNCHANGED <<active, player, word, delivery, keys_released, activity>> /\ CallerOnly

\* pre_exit_safety: admission closes first, then shutdown looks at the slot.
close_admission ==
    /\ "close" \in World /\ Admits("closer")
    /\ begin_shutdown
    /\ Goto("closer", "close")
    /\ UNCHANGED <<active, player, word, delivery, keys_released>> /\ CallerOnly

safe == ~activity.quarantined
shutdown ==
    /\ caller["closer"].pc = "close"
    /\ IF slot = NoSession
       THEN keys_released' = safe /\ Goto("closer", "end")
       ELSE /\ caller' = [caller EXCEPT !["closer"] = [pc |-> "state", s |-> slot,
                                             method |-> "shutdown", request |-> "Quit"]]
            /\ UNCHANGED keys_released
    /\ UNCHANGED <<active, player, word, delivery, activity>> /\ CallerOnly

\* The session is done, or the grace is over.
shutdown_ends ==
    LET a == active[caller["closer"].s]
    IN  /\ caller["closer"].pc = "wait"
        /\ keys_released' = (a.done /\ a.verified /\ safe)
        /\ Goto("closer", "end")
        /\ UNCHANGED <<active, player, word, delivery, activity>> /\ CallerOnly

Caller(p) ==
    \/ read_state(p) \/ withdraw(p) \/ take_pending(p) \/ control(p)
    \/ check_lifecycle(p) \/ cancel_startup(p) \/ set_flag(p)
    \/ p = "closer" /\ (shutdown \/ shutdown_ends)

(***************************************************************************)
(* The rest of the world: the focus, calibration and the updater.          *)
(***************************************************************************)
Elsewhere == UNCHANGED <<current, slot, active, player, word, worker, starter, monitor,
                         caller, delivery, keys_released>>
change_focus == "focus" \in World /\ focus' = ~focus /\ UNCHANGED activity /\ Elsewhere
calibrate == reserve_calibration /\ UNCHANGED focus /\ Elsewhere
end_calibration == activity.calibration /\ release_calibration /\ UNCHANGED focus /\ Elsewhere
update == reserve_update /\ UNCHANGED focus /\ Elsewhere
end_update == activity.update /\ release_update /\ UNCHANGED focus /\ Elsewhere

Next ==
    \/ start \/ Starter \/ Monitor
    \/ \E s \in Sessions : Worker(s) \/ Chance(s)
    \/ \E method \in Methods : command(method)
    \/ fail_delivery \/ close_admission
    \/ \E p \in Callers : Caller(p)
    \/ change_focus \/ calibrate \/ end_calibration \/ update \/ end_update

\* Every thread that has a step to take takes one: the steps of the starter,
\* the monitor and the callers do not block, a worker's waits have deadlines
\* and its events wake it.  The completion is called by another thread, and is
\* owed only while no delivery has failed.  A song need not end, nor anything
\* fail.
Fairness ==
    /\ WF_vars(Starter) /\ WF_vars(Supervision)
    /\ WF_vars(~delivery /\ clear_terminal_ownership)
    /\ \A s \in Sessions : WF_vars(Worker(s))
    /\ \A p \in Callers : WF_vars(Caller(p))

Spec == Init /\ [][Next]_vars /\ Fairness

(***************************************************************************)
(* Properties.                                                             *)
(***************************************************************************)
\* The life of a worker, from its spawn to the end of its thread.
Running(s) == worker[s].pc \notin {"none", "gone"}

\* One owner of the keyboard at a time.  A worker whose thread may still run
\* holds the active slot and the activity lease, an incomplete join
\* notwithstanding; a key that a retired session left down keeps every later
\* operation away; and calibration and an update find no worker and no key.
KeyboardExclusive ==
    \A s \in Sessions :
      /\ Running(s) => slot = s /\ activity.physical_playback = s
      /\ worker[s].held => activity.physical_playback = s \/ activity.quarantined
      /\ activity.calibration \/ activity.update => ~Running(s) /\ ~worker[s].held

\* The updater's playback.keys_released marker is true for as long as the
\* process lives: no worker runs and no key is down, whatever raced the
\* shutdown.
KeysReleasedIsTrue ==
    keys_released => \A s \in Sessions : ~Running(s) /\ ~worker[s].held

\* A terminal request accepted before Armed wins: once a session that is not
\* armed carries a request, it never arms, from whichever thread and at
\* whatever moment of the start the request came.
StoppedNeverArms ==
    [][\A s \in Sessions :
         player[s].requested # {} /\ ~worker[s].armed => ~worker'[s].armed]_vars

\* A session that was asked to stop, or whose worker ended, retires and frees
\* the slot, though its start failed half-way or its keys may be down.  If the
\* delivery of its events failed, it still gets as far as the finalization:
\* its worker joined and its reservation released or quarantined, with only
\* the slot left to a completion that may never be called.
PlaybackRetires ==
    \A s \in Sessions :
      (slot = s /\ (active[s].stop \/ player[s].lifecycle \in {"FINISHED", "POISONED"}))
        ~> (slot # s \/ (delivery /\ monitor.pc = "finalize"))

\* A pause that is pending while the session plays, or a resume while it is
\* paused, is carried out and does not stay pending, which would refuse every
\* later one, as long as the game keeps the focus.  (A control that was
\* admitted by a state read before the transition has no such promise: nothing
\* is left to happen that acknowledges it.)
PauseAcknowledged ==
    []focus => \A s \in Sessions :
      \A c \in {<<"Pause", "Playing">>, <<"Resume", "Paused">>} :
        (active[s].pending = c[1] /\ active[s].state = c[2]) ~> (active[s].pending # c[1])
============================================================================
