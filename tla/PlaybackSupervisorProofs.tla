---------------------- MODULE PlaybackSupervisorProofs ----------------------
(***************************************************************************)
(* PlaybackSupervisor for any number of sessions and callers: who owns the *)
(* keyboard, what the marker of the updater says, and that a request which *)
(* came before Armed keeps the session from arming.                        *)
(*                                                                         *)
(* The invariant has one part per piece of control: which of the starter   *)
(* and the monitor has the session of the slot (ThreadsOK), what the       *)
(* admission authority then says (OwnerOK), where the worker of a session  *)
(* can be (WorkerAt), what a key that is down means (HeldAt), what closing *)
(* has ended for good (ClosingOK), what a thread that sends a request      *)
(* knows (CallerAt), and what the startup word says of a session that      *)
(* carries one (RequestsOK).                                               *)
(***************************************************************************)
EXTENDS PlaybackSupervisor, TLAPS

Supervising == {"top", "poll", "state", "acknowledge", "join"}
Terminating == {"retire", "finalize"}

\* The starter and the monitor take turns at the session of the slot.
ThreadsOK ==
    /\ slot \in {NoSession, current}
    /\ slot = NoSession <=> starter = "idle" /\ monitor.pc = "none"
    /\ starter = "spawn" => monitor.pc = "none"
    /\ starter \notin {"idle", "spawn"} <=> monitor.pc = "parked"
    /\ monitor.pc \in Terminating => monitor.verdict \in Ended

\* The reservation is the slot's until the terminal resources are released.
OwnerOK ==
    /\ activity.physical_playback = IF monitor.pc = "finalize" THEN NoSession ELSE slot
    /\ activity.physical_playback # NoSession \/ activity.quarantined
         => ~activity.calibration /\ ~activity.update

\* A session that has no worker yet, and what is known of one that has.
WorkerAt(s) ==
    /\ s > current => active[s] = NewActive /\ player[s] = NewPlayer
    /\ s > current \/ (s = slot /\ starter \notin {"idle", "handle", "started"})
         => worker[s] = NewWorker
    /\ Running(s) => s = slot /\ monitor.pc \notin Terminating
    /\ s = slot /\ (starter = "started" \/ monitor.pc \in Supervising) => player[s].handle

\* A key is down only in a worker that armed; a worker that ended with one
\* has not proved its release, and once its session is retired the key keeps
\* the quarantine.
HeldAt(s) ==
    /\ worker[s].pc \in {"none", "prepare", "admit", "boot"} => ~worker[s].held /\ ~worker[s].armed
    /\ worker[s].pc \in {"preroll", "play"} => worker[s].armed
    /\ worker[s].pc \in {"publish", "complete", "exit", "gone"} /\ worker[s].held => ~released(s)
    /\ worker[s].held /\ (s # slot \/ monitor.pc = "finalize") => activity.quarantined

\* The application that closes looks at the last session there will be.
ClosingOK ==
    /\ caller["closer"].pc # "idle" => activity.closing
    /\ caller["closer"].s # NoSession => caller["closer"].s = current /\ activity.closing
    /\ \A s \in Sessions : active[s].done => s # slot
    /\ keys_released => slot = NoSession /\ activity.closing /\ ~activity.quarantined

\* A thread that sends a request holds a session that was started, and a
\* request to send.
Sends == {"stop", "skip", "shutdown", "hub"}
CallerAt(p) ==
    /\ caller[p].pc \notin {"idle", "close", "end"} => caller[p].s \in 1 .. current
    /\ caller[p].pc \in {"withdraw", "check", "cancel", "flag"} => caller[p].method \in Sends
    /\ caller[p].method \in Sends => caller[p].request \in Request

\* The startup word of a session that carries a request, or is about to, has
\* left the phases from which a worker arms.
RequestsOK ==
    /\ ~word.suspend
    /\ \A s \in Sessions : s = current /\ player[s].requested # {} => word.phase \notin PreArm
    /\ \A p \in Callers : caller[p].pc = "flag" /\ caller[p].s = current => word.phase \notin PreArm

Inv ==
    /\ TypeOK /\ ThreadsOK /\ OwnerOK
    /\ \A s \in Sessions : WorkerAt(s) /\ HeldAt(s)
    /\ ClosingOK
    /\ \A p \in Callers : CallerAt(p)
    /\ RequestsOK

----------------------------------------------------------------------------
(***************************************************************************)
(* The worker.  Whatever it does, it does to its own session.              *)
(***************************************************************************)
\* What every step of a worker that runs is: of its session only, it proves
\* the release of the keys or keeps them known, and leaves the startup word
\* alone or moves it from a phase before Armed.
WorkerMoves(s) ==
    /\ Running(s)
    /\ worker' \in [Sessions -> WorkerRecord] /\ player' \in [Sessions -> PlayerRecord]
    /\ word' \in Word
    /\ \A t \in Sessions \ {s} : worker'[t] = worker[t] /\ player'[t] = player[t]
    /\ worker'[s].pc # "none"
    /\ worker'[s].pc \in {"prepare", "admit", "boot"} => ~worker'[s].held /\ ~worker'[s].armed
    /\ worker'[s].pc \in {"preroll", "play"} => worker'[s].armed
    /\ worker'[s].pc \in {"publish", "complete", "exit", "gone"} /\ worker'[s].held
         => player'[s].release \notin {"verified", "not_required"}
    /\ player'[s].handle = player[s].handle /\ player'[s].requested = player[s].requested
    /\ ~word'.suspend
    /\ word.phase \notin PreArm => word'.phase \notin PreArm
    /\ worker'[s].armed => worker[s].armed \/ word.phase \in PreArm
    /\ WorkerOnly

\* A step of a worker keeps the invariant.
LEMMA WorkerMovesInv ==
    ASSUME Inv, NEW s \in Sessions, WorkerMoves(s)
    PROVE  Inv'
<1> USE SessionsAssumption
<1>1. /\ s = slot /\ s = current /\ monitor.pc \notin Terminating
      /\ starter \in {"idle", "handle", "started"}
  BY DEF Inv, WorkerAt, WorkerMoves, ThreadsOK, TypeOK, NewWorker, Running
<1>2. TypeOK'
  BY DEF Inv, TypeOK, WorkerMoves, WorkerOnly, ActivityTypeOK
<1>3. ThreadsOK' /\ OwnerOK' /\ ClosingOK' /\ \A p \in Callers : CallerAt(p)'
  BY DEF Inv, ThreadsOK, OwnerOK, ClosingOK, CallerAt, WorkerMoves, WorkerOnly
<1>4. ASSUME NEW t \in Sessions PROVE WorkerAt(t)' /\ HeldAt(t)'
  <2>1. CASE t = s
    BY <2>1, <1>1 DEF Inv, WorkerAt, HeldAt, WorkerMoves, WorkerOnly, Running, released, Terminating, TypeOK
  <2>2. CASE t # s
    BY <2>2, <1>1 DEF Inv, WorkerAt, HeldAt, WorkerMoves, WorkerOnly, Running, released
  <2> QED BY <2>1, <2>2
<1>5. RequestsOK'
  BY <1>1 DEF Inv, RequestsOK, WorkerMoves, WorkerOnly
<1> QED BY <1>2, <1>3, <1>4, <1>5 DEF Inv

\* The end of a worker that has a backend.
LEMMA StopMoves ==
    ASSUME Inv, NEW s \in Sessions, NEW trigger,
           worker[s].pc \in {"boot", "preroll", "play"},
           Stop(s, trigger), word' \in Word, ~word'.suspend,
           word.phase \notin PreArm => word'.phase \notin PreArm, WorkerOnly
    PROVE  WorkerMoves(s)
<1>1. outcome_of(trigger) \in Outcome
  BY DEF outcome_of, Outcome
<1>2. PICK release \in {"verified", "unverified"} :
        /\ \E held \in IF release = "unverified" THEN {worker[s].held, FALSE} ELSE {FALSE} :
             worker' = [worker EXCEPT ![s].pc = "publish", ![s].pauses = {}, ![s].held = held]
        /\ player' = [player EXCEPT ![s].release = release,
               ![s].outcome = IF release = "unverified" /\ outcome_of(trigger) = "success"
                              THEN "error" ELSE outcome_of(trigger)]
  BY DEF Stop
<1>3. PICK held \in IF release = "unverified" THEN {worker[s].held, FALSE} ELSE {FALSE} :
        worker' = [worker EXCEPT ![s].pc = "publish", ![s].pauses = {}, ![s].held = held]
  BY <1>2
<1>4. worker \in [Sessions -> WorkerRecord] /\ player \in [Sessions -> PlayerRecord]
  BY DEF Inv, TypeOK
<1>5. held \in BOOLEAN /\ (release = "verified" => held = FALSE)
  BY <1>3, <1>4 DEF WorkerRecord
<1>6. /\ worker' \in [Sessions -> WorkerRecord]
      /\ worker'[s].pc = "publish" /\ worker'[s].held = held /\ worker'[s].armed = worker[s].armed
      /\ \A t \in Sessions \ {s} : worker'[t] = worker[t]
  <2> DEFINE w == [worker[s] EXCEPT !.pc = "publish", !.pauses = {}, !.held = held]
  <2>1. w \in WorkerRecord /\ w.pc = "publish" /\ w.held = held /\ w.armed = worker[s].armed
    BY <1>4, <1>5 DEF WorkerRecord
  <2>2. worker' = [worker EXCEPT ![s] = w]
    BY <1>3, <1>4
  <2> HIDE DEF w
  <2> QED BY <1>4, <2>1, <2>2
<1>7. /\ player' \in [Sessions -> PlayerRecord]
      /\ player'[s].release = release
      /\ player'[s].handle = player[s].handle /\ player'[s].requested = player[s].requested
      /\ \A t \in Sessions \ {s} : player'[t] = player[t]
  <2> DEFINE o == IF release = "unverified" /\ outcome_of(trigger) = "success"
                  THEN "error" ELSE outcome_of(trigger)
  <2>1. o \in Outcome /\ release \in Release
    BY <1>1 DEF Outcome, Release
  <2>2. player' = [player EXCEPT ![s].release = release, ![s].outcome = o]
    BY <1>2
  <2> HIDE DEF o
  <2> QED BY <1>4, <2>1, <2>2 DEF PlayerRecord
<1> QED BY <1>5, <1>6, <1>7 DEF WorkerMoves, Running

\* The end of one that has none.
LEMMA StopWithoutBackendMoves ==
    ASSUME Inv, NEW s \in Sessions, NEW trigger,
           Running(s), ~worker[s].held,
           StopWithoutBackend(s, trigger), word' \in Word, ~word'.suspend,
           word.phase \notin PreArm => word'.phase \notin PreArm, WorkerOnly
    PROVE  WorkerMoves(s)
<1>1. outcome_of(trigger) \in Outcome /\ evidence(trigger) \in Release
  BY DEF outcome_of, Outcome, evidence, Release
<1>2. worker \in [Sessions -> WorkerRecord] /\ player \in [Sessions -> PlayerRecord]
  BY DEF Inv, TypeOK
<1>3. /\ worker' \in [Sessions -> WorkerRecord]
      /\ worker'[s].pc = "publish" /\ worker'[s].held = worker[s].held
      /\ worker'[s].armed = worker[s].armed
      /\ \A t \in Sessions \ {s} : worker'[t] = worker[t]
  BY <1>2 DEF WorkerRecord, StopWithoutBackend
<1>4. /\ player' \in [Sessions -> PlayerRecord]
      /\ player'[s].handle = player[s].handle /\ player'[s].requested = player[s].requested
      /\ \A t \in Sessions \ {s} : player'[t] = player[t]
  BY <1>1, <1>2 DEF PlayerRecord, StopWithoutBackend
<1> QED BY <1>3, <1>4 DEF WorkerMoves

\* The word that a startup moves to, is cancelled to or fails to.
LEMMA WordSteps ==
    ASSUME NEW w \in Word, ~w.suspend
    PROVE  /\ \A r \in Reason : cancel_prearm(w, r) \in Word /\ ~cancel_prearm(w, r).suspend
                                /\ cancel_prearm(w, r).phase \notin PreArm
           /\ \A r \in Reason : failed(w, r) \in Word /\ ~failed(w, r).suspend
                                /\ failed(w, r).phase \notin PreArm
           /\ w.phase \in PreArm => moved(w) \in Word /\ ~moved(w).suspend
           /\ w.phase \in PreArm => (moved(w).armed <=> w.phase = "Arming")
<1> USE DEF Word, PreArm, Phase
<1>1. \A r \in Reason : cancelled(w, r) \in Word /\ cancelled(w, r).phase = "Cancelled"
                        /\ cancelled(w, r).suspend = w.suspend
  BY DEF cancelled
<1>2. \A r \in Reason : failed(w, r) \in Word /\ failed(w, r).phase = "Failed"
                        /\ failed(w, r).suspend = w.suspend
  BY DEF failed
<1>3. \A r \in Reason : cancellable(w, r) <=> w.phase \in PreArm
  BY DEF cancellable
<1>4. ASSUME w.phase \in PreArm
      PROVE  /\ moved(w) \in Word /\ ~moved(w).suspend
             /\ moved(w).armed <=> w.phase = "Arming"
  BY <1>4 DEF moved, NextPhase, Reason
<1> QED BY <1>1, <1>2, <1>3, <1>4 DEF cancel_prearm

\* A step of a worker to a new place that touches nothing else.
LEMMA StepMoves ==
    ASSUME Inv, NEW s \in Sessions, Running(s), WorkerOnly, UNCHANGED <<word, player>>,
           NEW w \in WorkerRecord, worker' = [worker EXCEPT ![s] = w],
           w.pc # "none",
           w.pc \in {"prepare", "admit", "boot"} => ~w.held /\ ~w.armed,
           w.pc \in {"preroll", "play"} => w.armed,
           w.pc \in {"publish", "complete", "exit", "gone"} /\ w.held => ~released(s),
           w.armed => worker[s].armed
    PROVE  WorkerMoves(s)
<1>1. /\ worker \in [Sessions -> WorkerRecord] /\ player \in [Sessions -> PlayerRecord]
      /\ word \in Word /\ ~word.suspend
  BY DEF Inv, TypeOK, RequestsOK
<1>2. worker' \in [Sessions -> WorkerRecord] /\ worker'[s] = w
      /\ \A t \in Sessions \ {s} : worker'[t] = worker[t]
  BY <1>1
<1> QED BY <1>1, <1>2 DEF WorkerMoves, released

\* Every action of the worker is such a step.
LEMMA WorkerSteps ==
    ASSUME Inv, NEW s \in Sessions, Worker(s) \/ Chance(s)
    PROVE  WorkerMoves(s)
<1>1. /\ worker \in [Sessions -> WorkerRecord] /\ player \in [Sessions -> PlayerRecord]
      /\ word \in Word /\ ~word.suspend /\ worker[s] \in WorkerRecord /\ player[s] \in PlayerRecord
  BY DEF Inv, TypeOK, RequestsOK
<1>2. HeldAt(s)
  BY DEF Inv
<1>3. /\ \A r \in Reason : cancel_prearm(word, r) \in Word /\ ~cancel_prearm(word, r).suspend
                           /\ cancel_prearm(word, r).phase \notin PreArm
      /\ \A r \in Reason : failed(word, r) \in Word /\ ~failed(word, r).suspend
                           /\ failed(word, r).phase \notin PreArm
      /\ word.phase \in PreArm => moved(word) \in Word /\ ~moved(word).suspend
      /\ word.phase \in PreArm => (moved(word).armed <=> word.phase = "Arming")
  BY <1>1, WordSteps
<1>4. {"WorkerFailure", "FocusInvalidated"} \subseteq Reason
  BY DEF Reason, ErrorReason
<1>5. CASE begin_preparing(s)
  <2>1. CASE movable(word, "Idle")
    <3>1. word' = moved(word) /\ worker' = [worker EXCEPT ![s].pc = "admit"] /\ player' = player
          /\ word.phase \in PreArm /\ worker[s].pc = "prepare" /\ WorkerOnly
      BY <1>5, <2>1 DEF begin_preparing, movable, PreArm
    <3>2. worker' \in [Sessions -> WorkerRecord] /\ worker'[s].pc = "admit"
          /\ worker'[s].held = worker[s].held /\ worker'[s].armed = worker[s].armed
          /\ \A t \in Sessions \ {s} : worker'[t] = worker[t]
      BY <1>1, <3>1 DEF WorkerRecord
    <3> QED BY <1>1, <1>2, <1>3, <3>1, <3>2 DEF WorkerMoves, HeldAt, Running
  <2>2. CASE ~movable(word, "Idle")
    BY <1>1, <1>2, <1>5, <2>2, StopWithoutBackendMoves DEF begin_preparing, HeldAt, Running
  <2> QED BY <2>1, <2>2
<1>6. CASE admit_preparation(s)
  <2>1. CASE word.phase = "Preparing"
    <3>1. worker' = [worker EXCEPT ![s] = [worker[s] EXCEPT !.pc = "boot"]]
          /\ UNCHANGED <<word, player>> /\ WorkerOnly /\ worker[s].pc = "admit"
      BY <1>1, <1>6, <2>1 DEF admit_preparation
    <3>2. [worker[s] EXCEPT !.pc = "boot"] \in WorkerRecord
      BY <1>1 DEF WorkerRecord
    <3> QED BY <1>1, <1>2, <3>1, <3>2, StepMoves DEF HeldAt, Running, WorkerRecord
  <2>2. CASE word.phase # "Preparing"
    BY <1>1, <1>2, <1>6, <2>2, StopWithoutBackendMoves DEF admit_preparation, HeldAt, Running
  <2> QED BY <2>1, <2>2
<1>7. CASE boot_moves(s)
  <2>1. word' = moved(word) /\ word.phase \in PreArm /\ player' = player /\ WorkerOnly
        /\ worker[s].pc = "boot"
    BY <1>7 DEF boot_moves, PreArm
  <2>2. worker' \in [Sessions -> WorkerRecord]
        /\ (\/ worker'[s].pc = "preroll" /\ worker'[s].armed
            \/ worker'[s] = worker[s])
        /\ \A t \in Sessions \ {s} : worker'[t] = worker[t]
    <3>1. CASE word'.armed
      <4>1. worker' = [worker EXCEPT ![s] = [worker[s] EXCEPT !.pc = "preroll", !.armed = TRUE]]
        BY <1>1, <1>7, <3>1 DEF boot_moves
      <4>2. [worker[s] EXCEPT !.pc = "preroll", !.armed = TRUE] \in WorkerRecord
            /\ [worker[s] EXCEPT !.pc = "preroll", !.armed = TRUE].pc = "preroll"
            /\ [worker[s] EXCEPT !.pc = "preroll", !.armed = TRUE].armed
        BY <1>1 DEF WorkerRecord
      <4> QED BY <1>1, <4>1, <4>2
    <3>2. CASE ~word'.armed
      BY <1>1, <1>7, <3>2 DEF boot_moves
    <3> QED BY <3>1, <3>2
  <2> QED BY <1>1, <1>2, <1>3, <2>1, <2>2 DEF WorkerMoves, HeldAt, Running
<1>8. CASE boot_aborts(s)
  <2>1. word' \in Word /\ ~word'.suspend /\ (word.phase \notin PreArm => word'.phase \notin PreArm)
    BY <1>1, <1>3, <1>4, <1>8 DEF boot_aborts
  <2> QED BY <1>8, <2>1, StopMoves DEF boot_aborts
<1>9. ASSUME NEW trigger, worker[s].pc \in {"preroll", "play"}, Stop(s, trigger), WorkerOnly,
             UNCHANGED word
      PROVE  WorkerMoves(s)
  BY <1>1, <1>9, StopMoves
<1>10. CASE command_exit(s)
  BY <1>9, <1>10 DEF command_exit
<1>11. CASE iteration_fails(s)
  BY <1>9, <1>11 DEF iteration_fails, Iteration
<1>12. CASE interruption_ends(s)
  BY <1>9, <1>12 DEF interruption_ends, Iteration
<1>13. CASE song_ends(s)
  BY <1>9, <1>13 DEF song_ends, Iteration
<1>14. CASE preroll_ends(s)
  <2>1. worker' = [worker EXCEPT ![s] = [worker[s] EXCEPT !.pc = "play"]]
    BY <1>1, <1>14 DEF preroll_ends
  <2>2. [worker[s] EXCEPT !.pc = "play"] \in WorkerRecord
    BY <1>1 DEF WorkerRecord
  <2> QED BY <1>1, <1>2, <1>14, <2>1, <2>2, StepMoves
          DEF preroll_ends, Iteration, Running, WorkerRecord, HeldAt
<1>15. CASE update_pauses(s)
  <2>1. worker' = [worker EXCEPT ![s] = [worker[s] EXCEPT !.pauses = pauses_of(s)]]
        /\ worker[s].pc = "play"
    BY <1>1, <1>15 DEF update_pauses
  <2>2. pauses_of(s) \in SUBSET {"Focus", "Manual"}
    BY DEF pauses_of
  <2>3. [worker[s] EXCEPT !.pauses = pauses_of(s)] \in WorkerRecord
    BY <1>1, <2>2 DEF WorkerRecord
  <2> QED BY <1>1, <1>2, <1>15, <2>1, <2>3, StepMoves
          DEF update_pauses, Running, WorkerRecord, HeldAt
<1>16. CASE commit(s)
  <2>1. worker' = [worker EXCEPT ![s] = [worker[s] EXCEPT !.committed = TRUE, !.held = TRUE]]
        /\ worker[s].pc = "play"
    BY <1>1, <1>16 DEF commit
  <2>2. [worker[s] EXCEPT !.committed = TRUE, !.held = TRUE] \in WorkerRecord
    BY <1>1 DEF WorkerRecord
  <2> QED BY <1>1, <1>2, <1>16, <2>1, <2>2, StepMoves
          DEF commit, Running, WorkerRecord, HeldAt
<1>17. CASE worker_panics(s)
  <2>1. word' \in Word /\ ~word'.suspend /\ (word.phase \notin PreArm => word'.phase \notin PreArm)
    BY <1>1, <1>3, <1>4, <1>17 DEF worker_panics
  <2>2. CASE worker[s].armed
    BY <1>2, <1>17, <2>1, <2>2, StopMoves DEF worker_panics, HeldAt
  <2>3. CASE ~worker[s].armed
    BY <1>1, <1>2, <1>17, <2>1, <2>3, StopWithoutBackendMoves DEF worker_panics, HeldAt, Running
  <2> QED BY <2>2, <2>3
<1>18. CASE publish_outcome(s)
  <2>1. worker[s].pc = "publish" /\ word' = word /\ WorkerOnly
        /\ worker' = [worker EXCEPT ![s].pc = "complete"]
        /\ \E l \in Lifecycle : player' = [player EXCEPT ![s].lifecycle = l]
    BY <1>18 DEF publish_outcome, Lifecycle
  <2>2. player' \in [Sessions -> PlayerRecord] /\ player'[s].release = player[s].release
        /\ player'[s].handle = player[s].handle /\ player'[s].requested = player[s].requested
        /\ \A t \in Sessions \ {s} : player'[t] = player[t]
    BY <1>1, <2>1 DEF PlayerRecord
  <2>3. worker' \in [Sessions -> WorkerRecord] /\ worker'[s].pc = "complete"
        /\ worker'[s].held = worker[s].held /\ worker'[s].armed = worker[s].armed
        /\ \A t \in Sessions \ {s} : worker'[t] = worker[t]
    BY <1>1, <2>1 DEF WorkerRecord
  <2> QED BY <1>1, <1>2, <2>1, <2>2, <2>3 DEF WorkerMoves, HeldAt, Running, released
<1>19. CASE complete(s)
  <2>1. player' \in [Sessions -> PlayerRecord] /\ player'[s].release = player[s].release
        /\ player'[s].handle = player[s].handle /\ player'[s].requested = player[s].requested
        /\ \A t \in Sessions \ {s} : player'[t] = player[t]
    BY <1>1, <1>19 DEF PlayerRecord, complete
  <2>2. worker' \in [Sessions -> WorkerRecord] /\ worker'[s].pc = "exit"
        /\ worker'[s].held = worker[s].held /\ worker'[s].armed = worker[s].armed
        /\ \A t \in Sessions \ {s} : worker'[t] = worker[t]
    BY <1>1, <1>19 DEF WorkerRecord, complete
  <2> QED BY <1>1, <1>2, <1>19, <2>1, <2>2 DEF complete, WorkerMoves, HeldAt, Running, released
<1>20. CASE exit_thread(s)
  <2>1. worker' = [worker EXCEPT ![s] = [worker[s] EXCEPT !.pc = "gone"]]
        /\ worker[s].pc = "exit"
    BY <1>1, <1>20 DEF exit_thread
  <2>2. [worker[s] EXCEPT !.pc = "gone"] \in WorkerRecord
    BY <1>1 DEF WorkerRecord
  <2> QED BY <1>1, <1>2, <1>20, <2>1, <2>2, StepMoves
          DEF exit_thread, Running, WorkerRecord, HeldAt
<1> QED BY <1>5, <1>6, <1>7, <1>8, <1>10, <1>11, <1>12, <1>13, <1>14, <1>15, <1>16, <1>17,
           <1>18, <1>19, <1>20 DEF Worker, Chance

----------------------------------------------------------------------------
(***************************************************************************)
(* The threads that send requests.                                         *)
(***************************************************************************)
\* What every step of such a thread is, a thread that begins included.
CallerMoves(p) ==
    /\ caller' \in [Callers -> CallerRecord]
    /\ \A q \in Callers \ {p} : caller'[q] = caller[q]
    /\ active' \in [Sessions -> ActiveRecord] /\ player' \in [Sessions -> PlayerRecord]
    /\ word' \in Word
    /\ \A t \in Sessions :
         /\ active'[t].done = active[t].done
         /\ t > current => active'[t] = active[t] /\ player'[t] = player[t]
         /\ player'[t].handle = player[t].handle /\ player'[t].release = player[t].release
         /\ \/ player'[t].requested = player[t].requested
            \/ t = caller[p].s /\ caller[p].pc = "flag"
    /\ ~word'.suspend
    /\ word.phase \notin PreArm => word'.phase \notin PreArm
    /\ caller'[p].pc \notin {"idle", "close", "end"} => caller'[p].s \in 1 .. current
    /\ caller'[p].pc \in {"withdraw", "check", "cancel", "flag"} => caller'[p].method \in Sends
    /\ caller'[p].method \in Sends => caller'[p].request \in Request
    /\ caller'[p].pc = "flag" => word'.phase \notin PreArm
    /\ p = "closer" =>
         /\ caller'[p].pc # "idle" => activity'.closing
         /\ caller'[p].s # NoSession => caller'[p].s = current /\ activity'.closing
    /\ activity' \in {activity, [activity EXCEPT !.closing = TRUE]}
    /\ keys_released' \in BOOLEAN /\ delivery' \in BOOLEAN
    /\ \/ keys_released' = keys_released
       \/ keys_released' => slot = NoSession /\ activity.closing /\ ~activity.quarantined
    /\ CallerOnly

\* A step of a thread that sends requests keeps the invariant.
LEMMA CallerMovesInv ==
    ASSUME Inv, NEW p \in Callers, CallerMoves(p)
    PROVE  Inv'
<1> USE SessionsAssumption
<1>1. /\ activity' \in [physical_playback : Sessions \cup {NoSession}, quarantined : BOOLEAN,
                        calibration : BOOLEAN, update : BOOLEAN, closing : BOOLEAN]
      /\ activity'.physical_playback = activity.physical_playback
      /\ activity'.quarantined = activity.quarantined
      /\ activity'.calibration = activity.calibration /\ activity'.update = activity.update
      /\ activity.closing => activity'.closing
  <2>1. activity \in [physical_playback : Sessions \cup {NoSession}, quarantined : BOOLEAN,
                      calibration : BOOLEAN, update : BOOLEAN, closing : BOOLEAN]
    BY DEF Inv, TypeOK, ActivityTypeOK
  <2>2. CASE activity' = activity
    BY <2>1, <2>2
  <2>3. CASE activity' = [activity EXCEPT !.closing = TRUE]
    BY <2>1, <2>3
  <2> QED BY <2>2, <2>3 DEF CallerMoves
<1>2. TypeOK'
  BY <1>1 DEF Inv, TypeOK, CallerMoves, CallerOnly, ActivityTypeOK
<1>3. ThreadsOK' /\ OwnerOK'
  BY <1>1 DEF Inv, ThreadsOK, OwnerOK, CallerMoves, CallerOnly
<1>4. ASSUME NEW t \in Sessions PROVE WorkerAt(t)' /\ HeldAt(t)'
  BY <1>1 DEF Inv, WorkerAt, HeldAt, CallerMoves, CallerOnly, Running, released
<1>5. ClosingOK'
  <2>1. "closer" \in Callers
    BY DEF Callers
  <2>2. /\ caller'["closer"].pc # "idle" => activity'.closing
        /\ caller'["closer"].s # NoSession => caller'["closer"].s = current' /\ activity'.closing
    <3>1. CASE p = "closer"
      BY <3>1 DEF CallerMoves, CallerOnly
    <3>2. CASE p # "closer"
      BY <1>1, <2>1, <3>2 DEF Inv, ClosingOK, CallerMoves, CallerOnly
    <3> QED BY <3>1, <3>2
  <2>3. \A s \in Sessions : active'[s].done => s # slot'
    BY DEF Inv, ClosingOK, CallerMoves, CallerOnly
  <2>4. keys_released' => slot' = NoSession /\ activity'.closing /\ ~activity'.quarantined
    BY <1>1 DEF Inv, ClosingOK, CallerMoves, CallerOnly
  <2> QED BY <2>2, <2>3, <2>4 DEF ClosingOK
<1>6. ASSUME NEW q \in Callers PROVE CallerAt(q)'
  BY DEF Inv, CallerAt, CallerMoves, CallerOnly
<1>7. RequestsOK'
  <2>1. \A s \in Sessions : s = current /\ player'[s].requested # {} => word'.phase \notin PreArm
    BY DEF Inv, RequestsOK, CallerMoves
  <2>2. \A q \in Callers : caller'[q].pc = "flag" /\ caller'[q].s = current
                             => word'.phase \notin PreArm
    BY DEF Inv, RequestsOK, CallerMoves
  <2> QED BY <2>1, <2>2 DEF RequestsOK, CallerMoves, CallerOnly
<1> QED BY <1>2, <1>3, <1>4, <1>5, <1>6, <1>7 DEF Inv

\* The moves of a thread: on, and back.
LEMMA GotoShape ==
    ASSUME Inv, NEW p \in Callers,
           NEW pc \in {"withdraw", "pending", "control", "check", "cancel", "flag", "close", "end"},
           Goto(p, pc)
    PROVE  /\ caller' \in [Callers -> CallerRecord]
           /\ \A q \in Callers \ {p} : caller'[q] = caller[q]
           /\ caller'[p].pc = pc /\ caller'[p].s = caller[p].s
           /\ caller'[p].method = caller[p].method /\ caller'[p].request = caller[p].request
<1>1. caller \in [Callers -> CallerRecord]
  BY DEF Inv, TypeOK
<1> QED BY <1>1 DEF Goto, CallerRecord

\* A thread that returns has nothing left.
LEMMA ReturnShape ==
    ASSUME Inv, NEW p \in Callers, Return(p)
    PROVE  /\ caller' \in [Callers -> CallerRecord]
           /\ \A q \in Callers \ {p} : caller'[q] = caller[q]
           /\ caller'[p].pc = "idle" /\ caller'[p].s = NoSession /\ caller'[p].method = "none"
<1>1. caller \in [Callers -> CallerRecord]
  BY DEF Inv, TypeOK
<1>2. Idle \in CallerRecord
  BY DEF Idle, CallerRecord, Method, Request
<1> QED BY <1>1, <1>2 DEF Return, Idle

\* The next request of a thread, its wait, or its return.
LEMMA AdvanceShape ==
    ASSUME Inv, NEW p \in Callers, Advance(p)
    PROVE  /\ caller' \in [Callers -> CallerRecord]
           /\ \A q \in Callers \ {p} : caller'[q] = caller[q]
           /\ \/ /\ caller'[p].pc \in {"check", "wait"} /\ caller'[p].s = caller[p].s
                 /\ caller'[p].method = caller[p].method /\ caller'[p].method \in Sends
                 /\ caller'[p].request \in Request
              \/ caller'[p].pc = "idle" /\ caller'[p].s = NoSession /\ caller'[p].method = "none"
<1>1. caller \in [Callers -> CallerRecord] /\ caller[p] \in CallerRecord
  BY DEF Inv, TypeOK
<1>2. Idle \in CallerRecord
  BY DEF Idle, CallerRecord, Method, Request
<1> DEFINE c == caller[p]
           Send(request) == [c EXCEPT !.pc = "check", !.request = request]
<1>3. \A r \in {"Quit", "PanicRelease"} :
        Send(r) \in CallerRecord /\ Send(r).pc = "check" /\ Send(r).s = c.s
        /\ Send(r).method = c.method /\ Send(r).request = r
  BY <1>1 DEF CallerRecord, Request
<1>4. [c EXCEPT !.pc = "wait"] \in CallerRecord /\ [c EXCEPT !.pc = "wait"].pc = "wait"
      /\ [c EXCEPT !.pc = "wait"].s = c.s /\ [c EXCEPT !.pc = "wait"].method = c.method
      /\ [c EXCEPT !.pc = "wait"].request = c.request
  BY <1>1 DEF CallerRecord
<1>5. \/ c.method = "hub" /\ caller' = [caller EXCEPT ![p] = Send("Quit")]
      \/ c.method = "shutdown" /\ caller' = [caller EXCEPT ![p] = Send("PanicRelease")]
      \/ /\ c.method = "shutdown" /\ c.request = "PanicRelease"
         /\ caller' = [caller EXCEPT ![p] = [c EXCEPT !.pc = "wait"]]
      \/ caller' = [caller EXCEPT ![p] = Idle]
  BY DEF Advance
<1>6. ASSUME NEW d \in CallerRecord, caller' = [caller EXCEPT ![p] = d]
      PROVE  /\ caller' \in [Callers -> CallerRecord] /\ caller'[p] = d
             /\ \A q \in Callers \ {p} : caller'[q] = caller[q]
  BY <1>1, <1>6
<1> HIDE DEF Send
<1>7. CASE c.method = "hub" /\ caller' = [caller EXCEPT ![p] = Send("Quit")]
  BY <1>3, <1>6, <1>7 DEF Sends, Request
<1>8. CASE c.method = "shutdown" /\ caller' = [caller EXCEPT ![p] = Send("PanicRelease")]
  BY <1>3, <1>6, <1>8 DEF Sends, Request
<1>9. CASE /\ c.method = "shutdown" /\ c.request = "PanicRelease"
           /\ caller' = [caller EXCEPT ![p] = [c EXCEPT !.pc = "wait"]]
  BY <1>4, <1>6, <1>9 DEF Sends, Request
<1>10. CASE caller' = [caller EXCEPT ![p] = Idle]
  BY <1>2, <1>6, <1>10 DEF Idle
<1> QED BY <1>5, <1>7, <1>8, <1>9, <1>10

\* A step that only moves the thread on, sends it on to its next request or
\* back, with the players and the word as they were and of the desktop's
\* records at most those of a session that was started.
LEMMA PlainMoves ==
    ASSUME Inv, NEW p \in Callers, CallerSteps, UNCHANGED word,
           caller[p].pc # "idle",
           caller' \in [Callers -> CallerRecord],
           \A q \in Callers \ {p} : caller'[q] = caller[q],
           \/ /\ caller'[p].s = caller[p].s /\ caller'[p].pc \notin {"idle", "flag"}
              /\ caller'[p].pc \notin {"close", "end"} => caller'[p].s \in 1 .. current
              /\ caller'[p].method = caller[p].method
              /\ caller'[p].pc \in {"withdraw", "check", "cancel"} => caller'[p].method \in Sends
              /\ caller'[p].method \in Sends => caller'[p].request \in Request
           \/ caller'[p].pc = "idle" /\ caller'[p].s = NoSession /\ caller'[p].method = "none",
           active' \in [Sessions -> ActiveRecord], player' \in [Sessions -> PlayerRecord],
           \A t \in Sessions :
             /\ active'[t].done = active[t].done
             /\ t > current => active'[t] = active[t] /\ player'[t] = player[t]
             /\ player'[t].handle = player[t].handle /\ player'[t].release = player[t].release
             /\ \/ player'[t].requested = player[t].requested
                \/ t = caller[p].s /\ caller[p].pc = "flag"
    PROVE  CallerMoves(p)
<1>1. word \in Word /\ ~word.suspend /\ keys_released \in BOOLEAN /\ delivery \in BOOLEAN
  BY DEF Inv, TypeOK, RequestsOK
<1>2. "none" \notin Sends
  BY DEF Sends
<1>3. p = "closer" =>
         /\ caller'[p].pc # "idle" => activity'.closing
         /\ caller'[p].s # NoSession => caller'[p].s = current /\ activity'.closing
  BY DEF Inv, ClosingOK, CallerSteps
<1> QED BY <1>1, <1>2, <1>3 DEF CallerMoves, CallerSteps

\* A change of one field of a desktop record.
LEMMA ActiveSteps ==
    ASSUME Inv, NEW s \in 1 .. current, NEW a \in ActiveRecord, a.done = active[s].done,
           active' = [active EXCEPT ![s] = a]
    PROVE  /\ active' \in [Sessions -> ActiveRecord]
           /\ \A t \in Sessions : /\ active'[t].done = active[t].done
                                  /\ t > current => active'[t] = active[t]
<1>1. active \in [Sessions -> ActiveRecord] /\ current \in 0 .. MaxSessions
  BY DEF Inv, TypeOK
<1> QED BY <1>1, SessionsAssumption

\* Every action of a thread that sends requests is such a step.
LEMMA CallerStepsMove ==
    ASSUME Inv, NEW p \in Callers, Caller(p)
    PROVE  CallerMoves(p)
<1> USE SessionsAssumption
<1>1. /\ caller[p] \in CallerRecord /\ active \in [Sessions -> ActiveRecord]
      /\ player \in [Sessions -> PlayerRecord] /\ current \in 0 .. MaxSessions
      /\ word \in Word /\ ~word.suspend /\ keys_released \in BOOLEAN /\ delivery \in BOOLEAN
      /\ CallerAt(p)
  BY DEF Inv, TypeOK, RequestsOK
<1>2. ASSUME caller[p].pc \notin {"idle", "close", "end"}
      PROVE  /\ caller[p].s \in 1 .. current /\ caller[p].s \in Sessions
             /\ active[caller[p].s] \in ActiveRecord /\ player[caller[p].s] \in PlayerRecord
  BY <1>1, <1>2 DEF CallerAt
<1>3. CASE read_state(p)
  <2> DEFINE method == caller[p].method
             state == active[caller[p].s].state
             a == [active[caller[p].s] EXCEPT !.stop = TRUE]
  <2>1. caller[p].pc = "state" /\ UNCHANGED <<player, word>> /\ CallerSteps
    BY <1>3 DEF read_state
  <2>2. /\ active' \in [Sessions -> ActiveRecord]
        /\ \A t \in Sessions : /\ active'[t].done = active[t].done
                               /\ t > current => active'[t] = active[t]
    <3>1. a \in ActiveRecord /\ a.done = active[caller[p].s].done
      BY <1>2, <2>1 DEF ActiveRecord
    <3>2. active' = active \/ active' = [active EXCEPT ![caller[p].s] = a]
      BY <1>1, <1>3 DEF read_state
    <3> HIDE DEF a
    <3> QED BY <1>1, <1>2, <2>1, <3>1, <3>2, ActiveSteps
  <2>3. \/ method \in {"stop", "skip", "shutdown"} /\ Goto(p, "withdraw")
        \/ Goto(p, "pending")
        \/ method = "shutdown" /\ Goto(p, "check")
        \/ Return(p)
    BY <1>3 DEF read_state
  <2>4. CASE Return(p)
    BY <1>1, <2>1, <2>2, <2>4, ReturnShape, PlainMoves
  <2>5. CASE method \in {"stop", "skip", "shutdown"} /\ Goto(p, "withdraw")
    BY <1>1, <1>2, <2>1, <2>2, <2>5, GotoShape, PlainMoves DEF CallerAt, Sends
  <2>6. CASE Goto(p, "pending")
    BY <1>1, <1>2, <2>1, <2>2, <2>6, GotoShape, PlainMoves DEF CallerAt, Sends
  <2>7. CASE method = "shutdown" /\ Goto(p, "check")
    BY <1>1, <1>2, <2>1, <2>2, <2>7, GotoShape, PlainMoves DEF CallerAt, Sends
  <2> QED BY <2>3, <2>4, <2>5, <2>6, <2>7
<1>4. CASE withdraw(p)
  <2> DEFINE stops == caller[p].method # "skip"
             a == [active[caller[p].s] EXCEPT !.pending = "none", !.stop = @ \/ stops,
                                              !.state = IF stops THEN "Stopping" ELSE @]
  <2>0. active' = [active EXCEPT ![caller[p].s] = a]
    BY <1>1, <1>4 DEF withdraw
  <2>1. caller[p].pc = "withdraw" /\ UNCHANGED <<player, word>> /\ CallerSteps /\ Goto(p, "check")
    BY <1>4 DEF withdraw
  <2>2. a \in ActiveRecord /\ a.done = active[caller[p].s].done
    <3>1. \A b \in BOOLEAN, x \in BOOLEAN : (b \/ x) \in BOOLEAN
      OBVIOUS
    <3> QED BY <1>2, <2>1, <3>1 DEF ActiveRecord, PlaybackSessionState
  <2> HIDE DEF a
  <2>3. /\ active' \in [Sessions -> ActiveRecord]
        /\ \A t \in Sessions : /\ active'[t].done = active[t].done
                               /\ t > current => active'[t] = active[t]
    BY <1>2, <2>0, <2>1, <2>2, ActiveSteps
  <2> QED BY <1>1, <1>2, <2>1, <2>3, GotoShape, PlainMoves DEF CallerAt
<1>5. CASE take_pending(p)
  <2>1. caller[p].pc = "pending" /\ UNCHANGED <<player, word>> /\ CallerSteps
    BY <1>5 DEF take_pending
  <2>2. CASE active[caller[p].s].pending # "none"
    BY <1>1, <1>5, <2>1, <2>2, ReturnShape, PlainMoves DEF take_pending
  <2>3. CASE ~(active[caller[p].s].pending # "none")
    <3>1. PICK c \in Control : active' = [active EXCEPT ![caller[p].s] =
                                             [active[caller[p].s] EXCEPT !.pending = c]]
      BY <1>1, <1>5, <2>3 DEF take_pending, Control
    <3>2. Goto(p, "control")
      BY <1>5, <2>3 DEF take_pending
    <3> DEFINE a == [active[caller[p].s] EXCEPT !.pending = c]
    <3>3. a \in ActiveRecord /\ a.done = active[caller[p].s].done
      BY <1>2, <2>1 DEF ActiveRecord
    <3> HIDE DEF a
    <3>4. /\ active' \in [Sessions -> ActiveRecord]
          /\ \A t \in Sessions : /\ active'[t].done = active[t].done
                                 /\ t > current => active'[t] = active[t]
      BY <1>2, <2>1, <3>1, <3>3, ActiveSteps DEF a
    <3> QED BY <1>1, <1>2, <2>1, <3>2, <3>4, GotoShape, PlainMoves DEF CallerAt
  <2> QED BY <2>2, <2>3
<1>6. CASE control(p)
  <2>1. caller[p].pc = "control" /\ UNCHANGED word /\ CallerSteps /\ Return(p)
    BY <1>6 DEF control
  <2>2. CASE player[caller[p].s].lifecycle = "RUNNING"
    <3>1. /\ player' = [player EXCEPT ![caller[p].s].desired_pause = caller[p].method = "pause"]
          /\ active' = active
      BY <1>6, <2>2 DEF control
    <3>2. PICK b \in BOOLEAN : player' = [player EXCEPT ![caller[p].s].desired_pause = b]
      BY <3>1
    <3>3. /\ player' \in [Sessions -> PlayerRecord]
          /\ \A t \in Sessions :
               /\ player'[t].handle = player[t].handle /\ player'[t].release = player[t].release
               /\ player'[t].requested = player[t].requested
               /\ t > current => player'[t] = player[t]
      <4> DEFINE d == [player[caller[p].s] EXCEPT !.desired_pause = b]
      <4>1. d \in PlayerRecord /\ d.handle = player[caller[p].s].handle
            /\ d.release = player[caller[p].s].release /\ d.requested = player[caller[p].s].requested
        BY <1>2, <2>1 DEF PlayerRecord
      <4>2. player' = [player EXCEPT ![caller[p].s] = d]
        BY <1>1, <1>2, <2>1, <3>2
      <4> HIDE DEF d
      <4> QED BY <1>1, <1>2, <2>1, <4>1, <4>2
    <3> QED BY <1>1, <2>1, <3>1, <3>3, ReturnShape, PlainMoves
  <2>3. CASE player[caller[p].s].lifecycle # "RUNNING"
    <3> DEFINE a == [active[caller[p].s] EXCEPT !.pending = "none"]
    <3>1. active' = [active EXCEPT ![caller[p].s] = a] /\ player' = player
      BY <1>1, <1>6, <2>3 DEF control
    <3>2. a \in ActiveRecord /\ a.done = active[caller[p].s].done
      BY <1>2, <2>1 DEF ActiveRecord
    <3> HIDE DEF a
    <3>3. /\ active' \in [Sessions -> ActiveRecord]
          /\ \A t \in Sessions : /\ active'[t].done = active[t].done
                                 /\ t > current => active'[t] = active[t]
      BY <1>2, <2>1, <3>1, <3>2, ActiveSteps
    <3> QED BY <1>1, <2>1, <3>1, <3>3, ReturnShape, PlainMoves
  <2> QED BY <2>2, <2>3
<1>7. CASE check_lifecycle(p)
  <2>1. caller[p].pc = "check" /\ UNCHANGED <<active, player, word>> /\ CallerSteps
        /\ (Goto(p, "cancel") \/ Advance(p))
    BY <1>7 DEF check_lifecycle
  <2>2. CASE Goto(p, "cancel")
    BY <1>1, <1>2, <2>1, <2>2, GotoShape, PlainMoves DEF CallerAt
  <2>3. CASE Advance(p)
    BY <1>1, <1>2, <2>1, <2>3, AdvanceShape, PlainMoves DEF CallerAt
  <2> QED BY <2>1, <2>2, <2>3
<1>8. CASE cancel_startup(p)
  <2>1. caller[p].pc = "cancel" /\ UNCHANGED <<active, player>> /\ CallerSteps
        /\ Goto(p, "flag") /\ word' = cancel_prearm(word, caller[p].request)
    BY <1>8 DEF cancel_startup
  <2>2. caller[p].request \in Reason
    BY <1>1, <2>1 DEF CallerAt, Request, Reason, ErrorReason
  <2>3. word' \in Word /\ ~word'.suspend /\ word'.phase \notin PreArm
    BY <1>1, <2>1, <2>2, WordSteps
  <2>4. p = "closer" => activity.closing
                        /\ (caller[p].s # NoSession => caller[p].s = current)
    BY <2>1 DEF Inv, ClosingOK
  <2> QED BY <1>1, <1>2, <2>1, <2>3, <2>4, GotoShape DEF CallerMoves, CallerAt, CallerSteps
<1>9. CASE set_flag(p)
  <2>1. caller[p].pc = "flag" /\ UNCHANGED <<active, word>> /\ CallerSteps /\ Advance(p)
        /\ player' = [player EXCEPT ![caller[p].s] = asked(@, {caller[p].request})]
    BY <1>9 DEF set_flag
  <2>2. caller[p].request \in Request
    BY <1>1, <2>1 DEF CallerAt
  <2>3. /\ player' \in [Sessions -> PlayerRecord]
        /\ \A t \in Sessions :
             /\ player'[t].handle = player[t].handle /\ player'[t].release = player[t].release
             /\ t # caller[p].s => player'[t] = player[t]
    BY <1>1, <1>2, <2>1, <2>2 DEF PlayerRecord, asked
  <2>4. caller[p].s \in 1 .. current
    BY <1>2, <2>1
  <2>5. \A t \in Sessions : /\ t > current => player'[t] = player[t]
                            /\ \/ player'[t].requested = player[t].requested
                               \/ t = caller[p].s /\ caller[p].pc = "flag"
    BY <1>1, <2>1, <2>3, <2>4
  <2> QED BY <1>1, <2>1, <2>3, <2>4, <2>5, AdvanceShape, PlainMoves
<1>10. CASE p = "closer" /\ shutdown
  <2>1. caller[p].pc = "close" /\ UNCHANGED <<active, player, word, delivery, activity>> /\ CallerOnly
    BY <1>10 DEF shutdown
  <2>2. activity.closing
    BY <1>10, <2>1 DEF Inv, ClosingOK
  <2>3. CASE slot = NoSession
    <3>1. (keys_released' <=> safe) /\ keys_released' \in BOOLEAN /\ Goto(p, "end")
      BY <1>10, <2>3 DEF shutdown, safe
    <3>2. caller[p].s # NoSession => caller[p].s = current
      BY <1>10 DEF Inv, ClosingOK
    <3>3. ~(keys_released' /\ activity.quarantined)
      BY <3>1 DEF safe
    <3> QED BY <1>1, <1>10, <2>1, <2>2, <2>3, <3>1, <3>2, <3>3, GotoShape DEF CallerMoves, CallerAt
  <2>4. CASE slot # NoSession
    <3> DEFINE c == [pc |-> "state", s |-> slot, method |-> "shutdown", request |-> "Quit"]
    <3>1. caller' = [caller EXCEPT ![p] = c] /\ keys_released' = keys_released
      BY <1>10, <2>4 DEF shutdown
    <3>2. slot = current /\ slot \in 1 .. current
      BY <1>1, <2>4 DEF Inv, ThreadsOK
    <3>3. c \in CallerRecord
      BY <1>1, <3>2 DEF CallerRecord, Method, Request
    <3>4. caller' \in [Callers -> CallerRecord] /\ caller'[p] = c
          /\ \A q \in Callers \ {p} : caller'[q] = caller[q]
      BY <3>1, <3>3 DEF Inv, TypeOK
    <3> QED BY <1>1, <2>1, <2>2, <3>1, <3>2, <3>4 DEF CallerMoves, Sends, Request
  <2> QED BY <2>3, <2>4
<1>11. CASE p = "closer" /\ shutdown_ends
  <2>1. caller[p].pc = "wait" /\ UNCHANGED <<active, player, word, delivery, activity>>
        /\ CallerOnly /\ Goto(p, "end")
        /\ keys_released' = (active[caller[p].s].done /\ active[caller[p].s].verified /\ safe)
    BY <1>11 DEF shutdown_ends
  <2>2. caller[p].s \in Sessions /\ caller[p].s = current /\ activity.closing
    BY <1>1, <1>2, <1>11, <2>1 DEF Inv, ClosingOK
  <2>3. keys_released' \in BOOLEAN
        /\ (keys_released' => active[caller[p].s].done /\ ~activity.quarantined)
    BY <2>1 DEF safe
  <2>4. keys_released' => slot = NoSession
    BY <2>2, <2>3 DEF Inv, ClosingOK, ThreadsOK
  <2> QED BY <1>1, <2>1, <2>2, <2>3, <2>4, GotoShape DEF CallerMoves, CallerAt
<1> QED BY <1>3, <1>4, <1>5, <1>6, <1>7, <1>8, <1>9, <1>10, <1>11 DEF Caller

\* So is the beginning of a thread: a command, the hub's termination request,
\* and the application that closes.
LEMMA CallersBegin ==
    ASSUME Inv
    PROVE  /\ \A method \in Methods : command(method) => CallerMoves("client")
           /\ fail_delivery => CallerMoves("hub")
           /\ close_admission => CallerMoves("closer")
<1> USE SessionsAssumption
<1>1. /\ caller \in [Callers -> CallerRecord] /\ active \in [Sessions -> ActiveRecord]
      /\ player \in [Sessions -> PlayerRecord] /\ current \in 0 .. MaxSessions
      /\ word \in Word /\ ~word.suspend /\ keys_released \in BOOLEAN /\ delivery \in BOOLEAN
      /\ \A p \in Callers : CallerAt(p)
  BY DEF Inv, TypeOK, RequestsOK
<1>2. slot # NoSession => slot = current /\ slot \in 1 .. current /\ slot \in Sessions
  BY <1>1 DEF Inv, ThreadsOK
<1>3. {"client", "hub", "closer"} \subseteq Callers
  BY DEF Callers
<1>4. ASSUME NEW method \in Methods, command(method) PROVE CallerMoves("client")
  <2> DEFINE c == [pc |-> "state", s |-> slot, method |-> method,
                   request |-> CASE method = "stop" -> "Quit" [] method = "skip" -> "Skip"
                                 [] OTHER -> "none"]
  <2>1. caller' = [caller EXCEPT !["client"] = c] /\ slot # NoSession
        /\ UNCHANGED <<active, player, word>> /\ CallerSteps
    BY <1>4 DEF command
  <2>2. method \in {"stop", "skip", "pause", "resume"}
    OBVIOUS
  <2>3. c \in CallerRecord /\ c.pc = "state" /\ c.s = slot
        /\ (c.method \in Sends => c.request \in Request)
    BY <1>2, <2>1, <2>2 DEF CallerRecord, Method, Request, Sends
  <2> HIDE DEF c
  <2>4. caller' \in [Callers -> CallerRecord] /\ caller'["client"] = c
        /\ \A q \in Callers \ {"client"} : caller'[q] = caller[q]
    BY <1>1, <1>3, <2>1, <2>3
  <2> QED BY <1>1, <1>2, <2>1, <2>3, <2>4 DEF CallerMoves, CallerSteps
<1>5. ASSUME fail_delivery PROVE CallerMoves("hub")
  <2> DEFINE c == [pc |-> "check", s |-> slot, method |-> "hub", request |-> "PanicRelease"]
  <2>1. delivery' = TRUE /\ UNCHANGED <<active, player, word, keys_released, activity>> /\ CallerOnly
    BY <1>5 DEF fail_delivery
  <2>2. CASE slot = NoSession
    <3>1. caller' = caller /\ caller["hub"].pc = "idle"
      BY <1>5, <2>2 DEF fail_delivery, Admits
    <3> QED BY <1>1, <1>3, <2>1, <3>1 DEF CallerMoves, CallerAt
  <2>3. CASE slot # NoSession
    <3>1. caller' = [caller EXCEPT !["hub"] = c]
      BY <1>5, <2>3 DEF fail_delivery
    <3>2. c \in CallerRecord
      BY <1>2, <2>3 DEF CallerRecord, Method, Request
    <3>3. caller' \in [Callers -> CallerRecord] /\ caller'["hub"] = c
          /\ \A q \in Callers \ {"hub"} : caller'[q] = caller[q]
      BY <1>1, <1>3, <3>1, <3>2
    <3> QED BY <1>1, <1>2, <2>1, <2>3, <3>3 DEF CallerMoves, Sends, Request
  <2> QED BY <2>2, <2>3
<1>6. ASSUME close_admission PROVE CallerMoves("closer")
  <2>1. UNCHANGED <<active, player, word, delivery, keys_released>> /\ CallerOnly
        /\ Goto("closer", "close") /\ activity' = [activity EXCEPT !.closing = TRUE]
    BY <1>6 DEF close_admission, begin_shutdown
  <2>2. activity'.closing
    BY <2>1 DEF Inv, TypeOK, ActivityTypeOK
  <2>3. caller["closer"].s # NoSession => caller["closer"].s = current
    BY DEF Inv, ClosingOK
  <2> QED BY <1>1, <1>3, <2>1, <2>2, <2>3, GotoShape DEF CallerMoves, CallerAt
<1> QED BY <1>4, <1>5, <1>6

----------------------------------------------------------------------------
(***************************************************************************)
(* The starter and the monitor.                                            *)
(***************************************************************************)
\* What most of their steps are: of the session of the slot only, which they
\* keep, and of the authority at most the reservation.
SessionMoves ==
    /\ slot # NoSession
    /\ UNCHANGED <<current, slot, worker, caller, focus, delivery, keys_released>>
    /\ active' \in [Sessions -> ActiveRecord] /\ player' \in [Sessions -> PlayerRecord]
    /\ word' \in Word /\ monitor' \in MonitorRecord /\ ActivityTypeOK'
    /\ starter' \in {"idle", "spawn", "arm", "watchdog", "worker", "handle", "started", "failed"}
    /\ \A t \in Sessions \ {slot} : active'[t] = active[t] /\ player'[t] = player[t]
    /\ active'[slot].done = active[slot].done
    /\ player'[slot].release = player[slot].release
    /\ player'[slot].requested = player[slot].requested \/ word'.phase \notin PreArm
    /\ ~word'.suspend
    /\ word.phase \notin PreArm => word'.phase \notin PreArm
    /\ ThreadsOK' /\ OwnerOK'
    /\ starter' \notin {"idle", "handle", "started"} => worker[slot] = NewWorker
    /\ starter' = "started" \/ monitor'.pc \in Supervising => player'[slot].handle
    /\ monitor'.pc \in Terminating => ~Running(slot)
    /\ monitor'.pc = "finalize" /\ worker[slot].held => activity'.quarantined
    /\ activity.quarantined => activity'.quarantined
    /\ activity'.closing = activity.closing

\* A step of the starter or the monitor keeps the invariant.
LEMMA SessionMovesInv ==
    ASSUME Inv, SessionMoves
    PROVE  Inv'
<1> USE SessionsAssumption
<1>1. slot = current /\ slot \in Sessions /\ current \in 0 .. MaxSessions
  BY DEF Inv, TypeOK, ThreadsOK, SessionMoves
<1>2. TypeOK'
  BY DEF Inv, TypeOK, SessionMoves
<1>3. ASSUME NEW t \in Sessions PROVE WorkerAt(t)' /\ HeldAt(t)'
  <2>1. CASE t = slot
    BY <1>1, <2>1 DEF Inv, WorkerAt, HeldAt, SessionMoves, Running, released
  <2>2. CASE t # slot
    BY <1>1, <2>2 DEF Inv, WorkerAt, HeldAt, SessionMoves, Running, released
  <2> QED BY <2>1, <2>2
<1>4. ClosingOK'
  BY <1>1 DEF Inv, ClosingOK, SessionMoves
<1>5. ASSUME NEW p \in Callers PROVE CallerAt(p)'
  BY DEF Inv, CallerAt, SessionMoves
<1>6. RequestsOK'
  BY <1>1 DEF Inv, RequestsOK, SessionMoves
<1> QED BY <1>2, <1>3, <1>4, <1>5, <1>6 DEF Inv, SessionMoves

\* What the session of the slot is before such a step.
LEMMA OfTheSlot ==
    ASSUME Inv, starter # "idle" \/ monitor.pc # "none"
    PROVE  /\ slot # NoSession /\ slot = current /\ slot \in Sessions
           /\ active \in [Sessions -> ActiveRecord] /\ active[slot] \in ActiveRecord
           /\ player \in [Sessions -> PlayerRecord] /\ player[slot] \in PlayerRecord
           /\ word \in Word /\ ~word.suspend /\ monitor \in MonitorRecord
           /\ ActivityTypeOK /\ ThreadsOK /\ OwnerOK /\ WorkerAt(slot) /\ HeldAt(slot)
           /\ worker \in [Sessions -> WorkerRecord] /\ worker[slot] \in WorkerRecord
  BY SessionsAssumption DEF Inv, TypeOK, ThreadsOK, RequestsOK

\* Every action of the starter but the spawn of the worker.
LEMMA StarterSteps ==
    ASSUME Inv, start_fails \/ spawn_monitor \/ arm \/ spawn_watchdog \/ spawn_fails \/ store_handle
    PROVE  SessionMoves
<1> USE SessionsAssumption
<1>1. starter # "idle" \/ monitor.pc # "none"
  BY DEF start_fails, spawn_monitor, arm, spawn_watchdog, spawn_fails, store_handle
<1>2. /\ slot # NoSession /\ slot = current /\ slot \in Sessions
      /\ active \in [Sessions -> ActiveRecord] /\ active[slot] \in ActiveRecord
      /\ player \in [Sessions -> PlayerRecord] /\ player[slot] \in PlayerRecord
      /\ word \in Word /\ ~word.suspend /\ monitor \in MonitorRecord
      /\ ActivityTypeOK /\ ThreadsOK /\ OwnerOK /\ WorkerAt(slot) /\ HeldAt(slot)
  BY <1>1, OfTheSlot
<1>3. CASE start_fails
  <2>1. /\ starter = "spawn" /\ starter' = "idle" /\ StarterOnly /\ UNCHANGED <<player, word>>
        /\ monitor' = [NoMonitor EXCEPT !.pc = "finalize", !.verdict = "Failed"]
        /\ monitor.pc = "none"
    BY <1>2, <1>3 DEF start_fails, ThreadsOK
  <2>2. /\ ActivityTypeOK' /\ activity'.physical_playback = NoSession
        /\ activity'.quarantined = activity.quarantined /\ activity'.closing = activity.closing
        /\ activity'.calibration = activity.calibration /\ activity'.update = activity.update
        /\ activity.physical_playback = slot
    BY <1>2, <1>3, <2>1 DEF start_fails, release_playback, ActivityTypeOK, OwnerOK
  <2>3. /\ active' \in [Sessions -> ActiveRecord] /\ active'[slot].done = active[slot].done
        /\ \A t \in Sessions \ {slot} : active'[t] = active[t]
    BY <1>2, <1>3 DEF start_fails, ActiveRecord
  <2>4. /\ monitor' \in MonitorRecord /\ monitor'.pc = "finalize" /\ monitor'.verdict = "Failed"
    BY <2>1 DEF NoMonitor, MonitorRecord, Ended, PlaybackSessionState, Live
  <2>5. worker[slot] = NewWorker
    BY <1>2, <2>1 DEF WorkerAt
  <2>6. ThreadsOK'
    BY <1>2, <2>1, <2>4 DEF ThreadsOK, StarterOnly, Terminating, Ended
  <2>7. OwnerOK'
    BY <1>2, <2>1, <2>2, <2>4 DEF OwnerOK, StarterOnly
  <2> QED BY <1>2, <2>1, <2>2, <2>3, <2>4, <2>5, <2>6, <2>7
          DEF SessionMoves, StarterOnly, Supervising, Running, NewWorker
<1>4. CASE spawn_monitor
  <2>1. /\ starter = "spawn" /\ starter' = "arm" /\ StarterOnly
        /\ UNCHANGED <<active, player, word, activity>>
        /\ monitor' = [NoMonitor EXCEPT !.pc = "parked"] /\ monitor.pc = "none"
    BY <1>2, <1>4 DEF spawn_monitor, ThreadsOK
  <2>2. monitor' \in MonitorRecord /\ monitor'.pc = "parked"
    BY <2>1 DEF NoMonitor, MonitorRecord, Ended, PlaybackSessionState, Live
  <2>3. ActivityTypeOK' /\ ThreadsOK' /\ OwnerOK'
    BY <1>2, <2>1, <2>2 DEF ThreadsOK, OwnerOK, StarterOnly, Terminating, ActivityTypeOK
  <2> QED BY <1>2, <2>1, <2>2, <2>3
          DEF SessionMoves, StarterOnly, Supervising, Terminating, WorkerAt
<1>5. ASSUME StarterOnly, UNCHANGED <<active, monitor, activity>>,
             starter \in {"arm", "watchdog", "worker", "handle"},
             starter' \in {"arm", "watchdog", "worker", "started", "failed"},
             starter' # "started" => starter # "handle",
             starter' = "started" => player'[slot].handle,
             player' \in [Sessions -> PlayerRecord],
             \A t \in Sessions \ {slot} : player'[t] = player[t],
             player'[slot].release = player[slot].release,
             player'[slot].requested = player[slot].requested,
             word' \in Word, ~word'.suspend,
             word.phase \notin PreArm => word'.phase \notin PreArm
      PROVE  SessionMoves
  <2>1. monitor.pc = "parked"
    BY <1>2, <1>5 DEF ThreadsOK
  <2>2. ActivityTypeOK' /\ ThreadsOK' /\ OwnerOK'
    BY <1>2, <1>5, <2>1 DEF ThreadsOK, OwnerOK, StarterOnly, ActivityTypeOK
  <2> QED BY <1>2, <1>5, <2>1, <2>2
          DEF SessionMoves, StarterOnly, Supervising, Terminating, WorkerAt
<1>6. ASSUME NEW l \in Lifecycle, player' = [player EXCEPT ![current].lifecycle = l]
      PROVE  /\ player' \in [Sessions -> PlayerRecord]
             /\ \A t \in Sessions \ {slot} : player'[t] = player[t]
             /\ player'[slot].release = player[slot].release
             /\ player'[slot].requested = player[slot].requested
  BY <1>2, <1>6 DEF PlayerRecord
<1>7. CASE arm
  <2>1. starter = "arm" /\ StarterOnly /\ UNCHANGED <<active, monitor, word, activity>>
        /\ starter' \in {"watchdog", "failed"}
    BY <1>7 DEF arm
  <2>2. /\ player' \in [Sessions -> PlayerRecord]
        /\ \A t \in Sessions \ {slot} : player'[t] = player[t]
        /\ player'[slot].release = player[slot].release
        /\ player'[slot].requested = player[slot].requested
    <3>1. CASE player' = player
      BY <1>2, <3>1
    <3>2. CASE player' = [player EXCEPT ![current].lifecycle = "STARTING"]
      BY <1>6, <3>2 DEF Lifecycle
    <3> QED BY <1>7, <3>1, <3>2 DEF arm
  <2> QED BY <1>2, <1>5, <2>1, <2>2
<1>8. CASE spawn_watchdog
  <2>1. starter = "watchdog" /\ StarterOnly /\ UNCHANGED <<active, monitor, word, activity>>
        /\ starter' = "worker" /\ player' = [player EXCEPT ![current].lifecycle = "RUNNING"]
    BY <1>8 DEF spawn_watchdog
  <2> QED BY <1>2, <1>5, <1>6, <2>1 DEF Lifecycle
<1>9. CASE spawn_fails
  <2>1. starter \in {"watchdog", "worker"} /\ StarterOnly /\ UNCHANGED <<active, monitor, activity>>
        /\ starter' = "failed"
    BY <1>9 DEF spawn_fails
  <2>2. word' \in Word /\ ~word'.suspend /\ (word.phase \notin PreArm => word'.phase \notin PreArm)
    BY <1>2, <1>9, WordSteps DEF spawn_fails, Reason, ErrorReason
  <2> DEFINE d == [player[slot] EXCEPT !.lifecycle = "FINISHED", !.outcome = "error",
                                       !.completed = TRUE]
  <2>3. d \in PlayerRecord /\ d.release = player[slot].release
        /\ d.requested = player[slot].requested
    BY <1>2 DEF PlayerRecord, Lifecycle, Outcome
  <2>4. player' = [player EXCEPT ![slot] = d]
    BY <1>2, <1>9 DEF spawn_fails
  <2> HIDE DEF d
  <2> QED BY <1>2, <1>5, <2>1, <2>2, <2>3, <2>4
<1>10. CASE store_handle
  <2>1. starter = "handle" /\ StarterOnly /\ UNCHANGED <<active, monitor, word, activity>>
        /\ starter' = "started" /\ player' = [player EXCEPT ![current].handle = TRUE]
    BY <1>10 DEF store_handle
  <2>2. /\ player' \in [Sessions -> PlayerRecord]
        /\ \A t \in Sessions \ {slot} : player'[t] = player[t]
        /\ player'[slot].release = player[slot].release
        /\ player'[slot].requested = player[slot].requested
        /\ player'[slot].handle
    BY <1>2, <2>1 DEF PlayerRecord
  <2> QED BY <1>2, <1>5, <2>1, <2>2
<1> QED BY <1>3, <1>4, <1>7, <1>8, <1>9, <1>10

\* A step of the monitor that supervises, or finds out that it need not.
LEMMA SupervisingMoves ==
    ASSUME Inv, monitor.pc \in Supervising, monitor'.pc \in Supervising \cup {"retire"},
           UNCHANGED <<current, slot, worker, caller, focus, delivery, keys_released, starter,
                       activity>>,
           monitor' \in MonitorRecord,
           monitor'.pc = "retire" => monitor'.verdict \in Ended /\ ~Running(slot),
           active' \in [Sessions -> ActiveRecord], player' \in [Sessions -> PlayerRecord],
           word' \in Word, ~word'.suspend,
           \A t \in Sessions \ {slot} : active'[t] = active[t] /\ player'[t] = player[t],
           active'[slot].done = active[slot].done,
           player'[slot].release = player[slot].release,
           player'[slot].handle = player[slot].handle,
           player'[slot].requested = player[slot].requested \/ word'.phase \notin PreArm,
           word.phase \notin PreArm => word'.phase \notin PreArm
    PROVE  SessionMoves
<1>1. starter # "idle" \/ monitor.pc # "none"
  BY DEF Supervising
<1>2. /\ slot # NoSession /\ slot = current /\ slot \in Sessions
      /\ ActivityTypeOK /\ ThreadsOK /\ OwnerOK /\ WorkerAt(slot) /\ HeldAt(slot)
  BY <1>1, OfTheSlot
<1>3. starter = "idle"
  BY <1>2 DEF ThreadsOK, Supervising, Inv, TypeOK
<1>4. ThreadsOK' /\ OwnerOK' /\ ActivityTypeOK'
  BY <1>2, <1>3 DEF ThreadsOK, OwnerOK, ActivityTypeOK, Supervising, Terminating
<1> QED BY <1>2, <1>3, <1>4 DEF SessionMoves, Supervising, Terminating, WorkerAt

\* Every action of the monitor but the last.
LEMMA MonitorSteps ==
    ASSUME Inv,
           \/ activation \/ activation_failed \/ monitor_top \/ monitor_poll \/ monitor_state
           \/ monitor_acknowledge \/ await_quiescence \/ retire \/ release_terminal_resources
    PROVE  SessionMoves
<1> USE SessionsAssumption
<1>1. monitor.pc # "none"
  BY DEF activation, activation_failed, monitor_top, monitor_poll, monitor_state,
         monitor_acknowledge, await_quiescence, retire, release_terminal_resources
<1>2. /\ slot # NoSession /\ slot = current /\ slot \in Sessions
      /\ active \in [Sessions -> ActiveRecord] /\ active[slot] \in ActiveRecord
      /\ player \in [Sessions -> PlayerRecord] /\ player[slot] \in PlayerRecord
      /\ word \in Word /\ ~word.suspend /\ monitor \in MonitorRecord
      /\ ActivityTypeOK /\ ThreadsOK /\ OwnerOK /\ WorkerAt(slot) /\ HeldAt(slot)
  BY <1>1, OfTheSlot
<1>3. CASE activation
  <2>1. monitor.pc = "parked" /\ starter = "started" /\ starter' = "idle" /\ MonitorOnly
        /\ UNCHANGED <<slot, active, player, word, activity>>
        /\ monitor' = [monitor EXCEPT !.pc = "top"]
    BY <1>3 DEF activation, To
  <2>2. monitor' \in MonitorRecord /\ monitor'.pc = "top"
    BY <1>2, <2>1 DEF MonitorRecord
  <2>3. ActivityTypeOK' /\ ThreadsOK' /\ OwnerOK'
    BY <1>2, <2>1, <2>2 DEF ThreadsOK, OwnerOK, MonitorOnly, Terminating, ActivityTypeOK
  <2> QED BY <1>2, <2>1, <2>2, <2>3 DEF SessionMoves, MonitorOnly, Supervising, Terminating, WorkerAt
<1>4. CASE activation_failed
  <2>1. monitor.pc = "parked" /\ starter = "failed" /\ starter' = "idle" /\ MonitorOnly
        /\ UNCHANGED <<slot, player, word>>
        /\ monitor' = [monitor EXCEPT !.pc = "finalize", !.verdict = "Failed"]
    BY <1>4 DEF activation_failed
  <2>2. monitor' \in MonitorRecord /\ monitor'.pc = "finalize" /\ monitor'.verdict = "Failed"
    BY <1>2, <2>1 DEF MonitorRecord, Ended
  <2>3. /\ ActivityTypeOK' /\ activity'.physical_playback = NoSession
        /\ activity'.quarantined = activity.quarantined /\ activity'.closing = activity.closing
        /\ activity'.calibration = activity.calibration /\ activity'.update = activity.update
        /\ activity.physical_playback = slot
    BY <1>2, <1>4, <2>1 DEF activation_failed, release_playback, ActivityTypeOK, OwnerOK
  <2> DEFINE a == [active[slot] EXCEPT !.state = "Stopping", !.pending = "none", !.verified = TRUE]
  <2>4. a \in ActiveRecord /\ a.done = active[slot].done
    BY <1>2 DEF ActiveRecord, PlaybackSessionState
  <2>5. active' = [active EXCEPT ![slot] = a]
    BY <1>2, <1>4 DEF activation_failed
  <2> HIDE DEF a
  <2>6. worker[slot] = NewWorker
    BY <1>2, <2>1 DEF WorkerAt
  <2>7. ThreadsOK' /\ OwnerOK'
    BY <1>2, <2>1, <2>2, <2>3 DEF ThreadsOK, OwnerOK, MonitorOnly, Terminating, Ended
  <2> QED BY <1>2, <2>1, <2>2, <2>3, <2>4, <2>5, <2>6, <2>7
          DEF SessionMoves, MonitorOnly, Supervising, Running, NewWorker
<1>5. CASE monitor_top
  <2> DEFINE stop == active[slot].stop \/ delivery
             told == stop /\ (delivery \/ ~monitor.stop_sent)
             a == [active[slot] EXCEPT !.stop = stop, !.state = IF told THEN "Stopping" ELSE @]
             m == [monitor EXCEPT !.pc = "poll", !.stop_sent = stop,
                                  !.last = IF told THEN "Stopping" ELSE @]
  <2>1. /\ monitor.pc = "top" /\ MonitorOnly /\ UNCHANGED <<slot, starter, activity>>
        /\ active' = [active EXCEPT ![slot] = a] /\ monitor' = m
    BY <1>2, <1>5 DEF monitor_top
  <2>2. stop \in BOOLEAN
    OBVIOUS
  <2>3. /\ a \in ActiveRecord /\ a.done = active[slot].done
        /\ m \in MonitorRecord /\ m.pc = "poll"
    <3> HIDE DEF stop, told
    <3>1. (IF told THEN "Stopping" ELSE active[slot].state) \in PlaybackSessionState
          /\ (IF told THEN "Stopping" ELSE monitor.last) \in PlaybackSessionState
      BY <1>2 DEF ActiveRecord, MonitorRecord, PlaybackSessionState
    <3>2. a \in ActiveRecord /\ a.done = active[slot].done
      BY <1>2, <2>2, <3>1 DEF ActiveRecord
    <3>3. m \in MonitorRecord /\ m.pc = "poll"
      BY <1>2, <2>2, <3>1 DEF MonitorRecord
    <3> QED BY <3>2, <3>3
  <2>4. \/ UNCHANGED <<player, word>>
        \/ \E requests \in SUBSET Request, reason \in Reason :
             /\ player' = [player EXCEPT ![slot] = asked(@, requests)]
             /\ word' = cancel_prearm(word, reason)
    <3> DEFINE Panic(lost) == delivery \/ lost
               ReasonOf == CASE delivery -> "PanicRelease"
                             [] told /\ ~delivery -> "Quit"
                             [] ~told /\ ~focus -> "FocusInvalidated"
                             [] OTHER -> "PanicRelease"
               RequestsOf(lost) == (IF Panic(lost) THEN {"PanicRelease"} ELSE {})
                                     \cup (IF told THEN {"Quit"} ELSE {})
    <3>1. \E lost \in {FALSE, "identity" \in World} :
            IF RequestsOf(lost) # {} \/ ~focus THEN Ask(slot, RequestsOf(lost), ReasonOf)
                                              ELSE UNCHANGED <<player, word>>
      BY <1>2, <1>5 DEF monitor_top
    <3>2. ReasonOf \in Reason
      BY DEF Reason, ErrorReason
    <3>3. \A lost : RequestsOf(lost) \in SUBSET Request
      BY DEF Request
    <3> HIDE DEF RequestsOf, ReasonOf
    <3> QED BY <3>1, <3>2, <3>3 DEF Ask
  <2>5. /\ player' \in [Sessions -> PlayerRecord] /\ word' \in Word /\ ~word'.suspend
        /\ \A t \in Sessions \ {slot} : player'[t] = player[t]
        /\ player'[slot].release = player[slot].release
        /\ player'[slot].handle = player[slot].handle
        /\ player'[slot].requested = player[slot].requested \/ word'.phase \notin PreArm
        /\ word.phase \notin PreArm => word'.phase \notin PreArm
    <3>1. CASE UNCHANGED <<player, word>>
      BY <1>2, <3>1
    <3>2. CASE ~UNCHANGED <<player, word>>
      <4> PICK requests \in SUBSET Request, reason \in Reason :
             /\ player' = [player EXCEPT ![slot] = asked(@, requests)]
             /\ word' = cancel_prearm(word, reason)
        BY <2>4, <3>2
      <4>1. word' \in Word /\ ~word'.suspend /\ word'.phase \notin PreArm
        BY <1>2, WordSteps
      <4>2. asked(player[slot], requests) \in PlayerRecord
            /\ asked(player[slot], requests).release = player[slot].release
            /\ asked(player[slot], requests).handle = player[slot].handle
        BY <1>2 DEF asked, PlayerRecord
      <4> QED BY <1>2, <4>1, <4>2
    <3> QED BY <3>1, <3>2
  <2> HIDE DEF a, m
  <2> QED BY <1>2, <2>1, <2>3, <2>5, SupervisingMoves DEF MonitorOnly, Supervising
<1>6. CASE monitor_poll
  <2> DEFINE status == poll_status(current)
             event == IF active[current].stop THEN "Stopping" ELSE playback_event_state(status)
  <2>1. /\ monitor.pc = "poll" /\ MonitorOnly
        /\ UNCHANGED <<slot, starter, active, player, word, activity>>
        /\ monitor' \in {[monitor EXCEPT !.pc = "join"], [monitor EXCEPT !.pc = "top"],
                         [monitor EXCEPT !.pc = "state", !.event = event]}
    BY <1>6 DEF monitor_poll
  <2>2. event \in PlaybackSessionState
    BY DEF playback_event_state, PlaybackSessionState, Live
  <2> HIDE DEF event
  <2>3. monitor' \in MonitorRecord /\ monitor'.pc \in {"join", "top", "state"}
    BY <1>2, <2>1, <2>2 DEF MonitorRecord
  <2> QED BY <1>2, <2>1, <2>3, SupervisingMoves DEF MonitorOnly, Supervising
<1>7. CASE monitor_state
  <2>1. /\ monitor.pc = "state" /\ MonitorOnly
        /\ UNCHANGED <<slot, starter, player, word, activity>>
        /\ active' = [active EXCEPT ![slot].state = monitor.event]
        /\ monitor' = [monitor EXCEPT !.pc = "acknowledge"]
    BY <1>2, <1>7 DEF monitor_state, To
  <2>2. monitor' \in MonitorRecord /\ monitor'.pc = "acknowledge"
        /\ monitor.event \in PlaybackSessionState
    BY <1>2, <2>1 DEF MonitorRecord
  <2>3. active' \in [Sessions -> ActiveRecord] /\ active'[slot].done = active[slot].done
        /\ \A t \in Sessions \ {slot} : active'[t] = active[t]
    BY <1>2, <2>1, <2>2 DEF ActiveRecord
  <2> QED BY <1>2, <2>1, <2>2, <2>3, SupervisingMoves DEF MonitorOnly, Supervising
<1>8. CASE monitor_acknowledge
  <2>1. /\ monitor.pc = "acknowledge" /\ MonitorOnly
        /\ UNCHANGED <<slot, starter, player, word, activity>>
        /\ monitor' = [monitor EXCEPT !.pc = "top", !.last = monitor.event, !.event = "Starting"]
    BY <1>8 DEF monitor_acknowledge
  <2>2. PICK c \in {"none", active[slot].pending} : active' = [active EXCEPT ![slot].pending = c]
    BY <1>2, <1>8 DEF monitor_acknowledge
  <2>3. monitor' \in MonitorRecord /\ monitor'.pc = "top"
    BY <1>2, <2>1 DEF MonitorRecord, PlaybackSessionState, Live
  <2>4. active' \in [Sessions -> ActiveRecord] /\ active'[slot].done = active[slot].done
        /\ \A t \in Sessions \ {slot} : active'[t] = active[t]
    BY <1>2, <2>2 DEF ActiveRecord
  <2> QED BY <1>2, <2>1, <2>3, <2>4, SupervisingMoves DEF MonitorOnly, Supervising
<1>9. CASE await_quiescence
  <2>1. /\ monitor.pc = "join" /\ MonitorOnly
        /\ UNCHANGED <<slot, starter, player, word, activity, monitor>>
        /\ active' = [active EXCEPT ![slot].state = "Stopping"]
    BY <1>2, <1>9 DEF await_quiescence
  <2>2. active' \in [Sessions -> ActiveRecord] /\ active'[slot].done = active[slot].done
        /\ \A t \in Sessions \ {slot} : active'[t] = active[t]
    BY <1>2, <2>1 DEF ActiveRecord, PlaybackSessionState
  <2> QED BY <1>2, <2>1, <2>2, SupervisingMoves DEF MonitorOnly, Supervising
<1>10. CASE retire
  <2> DEFINE verdict == terminal_state(slot)
             failed_ == verdict = "Failed"
             a == [active[slot] EXCEPT !.state = "Stopping", !.stop = @ \/ failed_]
  <2>1. /\ monitor.pc = "join" /\ joined(slot) /\ MonitorOnly
        /\ UNCHANGED <<slot, starter, player, word, activity>>
        /\ active' = [active EXCEPT ![slot] = a]
        /\ monitor' = [monitor EXCEPT !.pc = "retire", !.verdict = verdict]
    BY <1>2, <1>10 DEF retire
  <2>2. verdict \in Ended
    BY DEF terminal_state, Ended
  <2>3. a \in ActiveRecord /\ a.done = active[slot].done
    <3>1. (active[slot].stop \/ failed_) \in BOOLEAN
      OBVIOUS
    <3> QED BY <1>2, <3>1 DEF ActiveRecord, PlaybackSessionState
  <2> HIDE DEF a, verdict
  <2>4. monitor' \in MonitorRecord /\ monitor'.pc = "retire" /\ monitor'.verdict \in Ended
    BY <1>2, <2>1, <2>2 DEF MonitorRecord
  <2>5. ~Running(slot)
    BY <1>2, <2>1 DEF joined, WorkerAt, Running, Supervising
  <2> QED BY <1>2, <2>1, <2>3, <2>4, <2>5, SupervisingMoves DEF MonitorOnly, Supervising
<1>11. CASE release_terminal_resources
  <2>1. /\ monitor.pc = "retire" /\ MonitorOnly /\ UNCHANGED <<slot, starter, player, word>>
        /\ monitor' = [monitor EXCEPT !.pc = "finalize"] /\ starter = "idle"
    BY <1>2, <1>11 DEF release_terminal_resources, To, ThreadsOK, Inv, TypeOK
  <2>2. monitor' \in MonitorRecord /\ monitor'.pc = "finalize" /\ monitor'.verdict \in Ended
    BY <1>2, <2>1 DEF MonitorRecord, ThreadsOK, Terminating
  <2> DEFINE b == released(slot)
  <2>3. /\ active' = [active EXCEPT ![slot].pending = "none", ![slot].verified = b]
        /\ b \in BOOLEAN
    BY <1>2, <1>11 DEF release_terminal_resources, released
  <2> HIDE DEF b
  <2>4. active' \in [Sessions -> ActiveRecord] /\ active'[slot].done = active[slot].done
        /\ \A t \in Sessions \ {slot} : active'[t] = active[t]
    BY <1>2, <2>3 DEF ActiveRecord
  <2>5. activity.physical_playback = slot /\ ~activity.calibration /\ ~activity.update
    BY <1>2, <2>1 DEF OwnerOK
  <2>6. /\ ActivityTypeOK' /\ activity'.physical_playback = NoSession
        /\ activity'.closing = activity.closing
        /\ activity'.calibration = activity.calibration /\ activity'.update = activity.update
        /\ activity.quarantined => activity'.quarantined
        /\ ~released(slot) => activity'.quarantined
    <3>1. CASE released(slot)
      BY <1>2, <1>11, <2>5, <3>1 DEF release_terminal_resources, release_playback, ActivityTypeOK
    <3>2. CASE ~released(slot)
      BY <1>2, <1>11, <2>5, <3>2 DEF release_terminal_resources, quarantine_playback, ActivityTypeOK
    <3> QED BY <3>1, <3>2
  <2>7. ThreadsOK' /\ OwnerOK'
    BY <1>2, <2>1, <2>2, <2>5, <2>6 DEF ThreadsOK, OwnerOK, MonitorOnly
  <2>8. ~Running(slot) /\ (worker[slot].held => activity'.quarantined)
    BY <1>2, <2>1, <2>6 DEF WorkerAt, HeldAt, Running, Terminating
  <2> QED BY <1>2, <2>1, <2>2, <2>4, <2>6, <2>7, <2>8 DEF SessionMoves, MonitorOnly, Supervising
<1> QED BY <1>3, <1>4, <1>5, <1>6, <1>7, <1>8, <1>9, <1>10, <1>11

\* A new session starts: nobody holds it, and nothing of it is left over.
LEMMA StartInv ==
    ASSUME Inv, start
    PROVE  Inv'
<1> USE SessionsAssumption
<1>1. /\ starter = "idle" /\ slot = NoSession /\ monitor.pc = "none"
      /\ current' = current + 1 /\ current' \in Sessions /\ slot' = current'
      /\ word' = IdleWord /\ starter' = "spawn" /\ reserve_playback(current')
      /\ UNCHANGED <<active, player, worker, monitor, caller, focus, delivery, keys_released>>
      /\ current \in 0 .. MaxSessions
  BY DEF start, Inv, TypeOK, ThreadsOK
<1>2. /\ ActivityTypeOK' /\ activity'.physical_playback = current'
      /\ activity'.quarantined = activity.quarantined /\ ~activity.quarantined
      /\ activity'.closing = activity.closing /\ ~activity.closing
      /\ ~activity'.calibration /\ ~activity'.update
  BY <1>1 DEF reserve_playback, reservable, ActivityTypeOK, Inv, TypeOK
<1>3. word' \in Word /\ word'.suspend = FALSE
  BY <1>1 DEF IdleWord, startup_word, Word, Phase, Reason
<1>4. TypeOK'
  BY <1>1, <1>2, <1>3 DEF Inv, TypeOK
<1>5. ThreadsOK' /\ OwnerOK'
  BY <1>1, <1>2 DEF ThreadsOK, OwnerOK, Terminating
<1>6. ASSUME NEW t \in Sessions PROVE WorkerAt(t)' /\ HeldAt(t)'
  <2>1. CASE t > current
    BY <1>1, <1>2, <2>1 DEF Inv, WorkerAt, HeldAt, Running, released, NewWorker, NewPlayer, Supervising
  <2>2. CASE ~(t > current)
    BY <1>1, <1>2, <2>2 DEF Inv, WorkerAt, HeldAt, Running, released, Supervising
  <2> QED BY <2>1, <2>2
<1>7. \A s \in Sessions : s > current => ~active[s].done /\ player[s].requested = {}
  BY DEF Inv, WorkerAt, NewActive, NewPlayer
<1>8. ClosingOK'
  BY <1>1, <1>2, <1>7 DEF Inv, ClosingOK
<1>9. ASSUME NEW p \in Callers
      PROVE  CallerAt(p)' /\ ~(caller'[p].pc = "flag" /\ caller'[p].s = current')
  BY <1>1 DEF Inv, CallerAt
<1>10. RequestsOK'
  BY <1>1, <1>3, <1>7, <1>9 DEF RequestsOK
<1> QED BY <1>4, <1>5, <1>6, <1>8, <1>9, <1>10 DEF Inv

\* The worker's thread begins.
LEMMA SpawnInv ==
    ASSUME Inv, spawn_worker
    PROVE  Inv'
<1> USE SessionsAssumption
<1>1. /\ starter = "worker" /\ starter' = "handle"
      /\ worker' = [worker EXCEPT ![current].pc = "prepare"]
      /\ UNCHANGED <<current, slot, active, player, word, monitor, caller, focus, delivery,
                     keys_released, activity>>
  BY DEF spawn_worker
<1>2. /\ slot # NoSession /\ slot = current /\ slot \in Sessions
      /\ worker \in [Sessions -> WorkerRecord] /\ worker[slot] \in WorkerRecord
      /\ ThreadsOK /\ WorkerAt(slot) /\ HeldAt(slot)
  BY <1>1, OfTheSlot
<1>3. monitor.pc = "parked" /\ worker[slot] = NewWorker
  BY <1>1, <1>2 DEF ThreadsOK, WorkerAt
<1>4. /\ worker' \in [Sessions -> WorkerRecord] /\ worker'[slot].pc = "prepare"
      /\ worker'[slot].held = worker[slot].held /\ worker'[slot].armed = worker[slot].armed
      /\ \A t \in Sessions \ {slot} : worker'[t] = worker[t]
  BY <1>1, <1>2 DEF WorkerRecord
<1>5. TypeOK'
  BY <1>1, <1>4 DEF Inv, TypeOK, ActivityTypeOK
<1>6. ThreadsOK' /\ OwnerOK' /\ ClosingOK' /\ RequestsOK'
  BY <1>1, <1>3 DEF Inv, ThreadsOK, OwnerOK, ClosingOK, RequestsOK
<1>7. ASSUME NEW p \in Callers PROVE CallerAt(p)'
  BY <1>1 DEF Inv, CallerAt
<1>8. ASSUME NEW t \in Sessions PROVE WorkerAt(t)' /\ HeldAt(t)'
  <2>1. CASE t = slot
    BY <1>1, <1>2, <1>3, <1>4, <2>1
       DEF Inv, WorkerAt, HeldAt, Running, Terminating, Supervising, NewWorker, released, TypeOK
  <2>2. CASE t # slot
    BY <1>1, <1>2, <1>3, <1>4, <2>2 DEF Inv, WorkerAt, HeldAt, Running, Supervising, released
  <2> QED BY <2>1, <2>2
<1> QED BY <1>5, <1>6, <1>7, <1>8 DEF Inv

\* The session is retired: its worker is gone, and so is the reservation.
LEMMA ClearInv ==
    ASSUME Inv, clear_terminal_ownership
    PROVE  Inv'
<1> USE SessionsAssumption
<1>1. monitor.pc = "finalize"
  BY DEF clear_terminal_ownership
<1>2. /\ slot # NoSession /\ slot = current /\ slot \in Sessions
      /\ active \in [Sessions -> ActiveRecord] /\ active[slot] \in ActiveRecord
      /\ player \in [Sessions -> PlayerRecord] /\ player[slot] \in PlayerRecord
      /\ worker \in [Sessions -> WorkerRecord] /\ worker[slot] \in WorkerRecord
      /\ monitor \in MonitorRecord
      /\ ThreadsOK /\ OwnerOK /\ WorkerAt(slot) /\ HeldAt(slot)
  BY <1>1, OfTheSlot
<1>3. starter = "idle" /\ monitor.verdict \in Ended /\ worker[slot].pc \in {"none", "gone"}
      /\ activity.physical_playback = NoSession /\ (worker[slot].held => activity.quarantined)
  BY <1>1, <1>2 DEF ThreadsOK, OwnerOK, WorkerAt, HeldAt, Terminating, Running, Inv, TypeOK
<1> DEFINE a == [active[slot] EXCEPT !.state = monitor.verdict, !.done = TRUE]
           d == [NewPlayer EXCEPT !.lifecycle = player[slot].lifecycle]
           w == [NewWorker EXCEPT !.pc = worker[slot].pc, !.held = worker[slot].held]
<1>4. /\ active' = [active EXCEPT ![slot] = a] /\ player' = [player EXCEPT ![slot] = d]
      /\ worker' = [worker EXCEPT ![slot] = w] /\ slot' = NoSession /\ monitor' = NoMonitor
      /\ UNCHANGED <<current, starter, word, caller, focus, delivery, keys_released, activity>>
  BY <1>2 DEF clear_terminal_ownership
<1>5. a \in ActiveRecord
  BY <1>2, <1>3 DEF ActiveRecord, PlaybackSessionState
<1>6. d \in PlayerRecord /\ d.requested = {} /\ d.release = "none"
  BY <1>2 DEF PlayerRecord, NewPlayer, Outcome, Release
<1>7. w \in WorkerRecord /\ w.pc = worker[slot].pc /\ w.held = worker[slot].held /\ ~w.armed
  BY <1>2 DEF WorkerRecord, NewWorker
<1>8. NoMonitor \in MonitorRecord /\ NoMonitor.pc = "none"
  BY DEF NoMonitor, MonitorRecord, PlaybackSessionState, Live
<1> HIDE DEF a, d, w
<1>9. /\ active' \in [Sessions -> ActiveRecord] /\ player' \in [Sessions -> PlayerRecord]
      /\ worker' \in [Sessions -> WorkerRecord] /\ monitor' \in MonitorRecord
      /\ monitor'.pc = "none"
      /\ player'[slot].requested = {} /\ player'[slot].release = "none"
      /\ worker'[slot].pc = worker[slot].pc /\ worker'[slot].held = worker[slot].held
      /\ ~worker'[slot].armed
      /\ \A t \in Sessions \ {slot} :
           active'[t] = active[t] /\ player'[t] = player[t] /\ worker'[t] = worker[t]
  BY <1>2, <1>4, <1>5, <1>6, <1>7, <1>8
<1>10. TypeOK'
  BY <1>4, <1>9 DEF Inv, TypeOK, ActivityTypeOK
<1>11. ThreadsOK' /\ OwnerOK'
  BY <1>2, <1>3, <1>4, <1>9 DEF ThreadsOK, OwnerOK, Terminating
<1>12. ASSUME NEW t \in Sessions PROVE WorkerAt(t)' /\ HeldAt(t)'
  <2>0. current \in 0 .. MaxSessions
    BY DEF Inv, TypeOK
  <2>1. CASE t = slot
    BY <1>2, <1>3, <1>4, <1>9, <2>0, <2>1
       DEF Inv, WorkerAt, HeldAt, Running, Terminating, Supervising, released
  <2>2. CASE t # slot
    BY <1>2, <1>3, <1>4, <1>9, <2>0, <2>2 DEF Inv, WorkerAt, HeldAt, Running, Supervising, released
  <2> QED BY <2>1, <2>2
<1>13. ClosingOK'
  BY <1>2, <1>4, <1>9 DEF Inv, ClosingOK
<1>14. ASSUME NEW p \in Callers PROVE CallerAt(p)'
  BY <1>4 DEF Inv, CallerAt
<1>15. RequestsOK'
  BY <1>2, <1>4, <1>9 DEF Inv, RequestsOK
<1> QED BY <1>10, <1>11, <1>12, <1>13, <1>14, <1>15 DEF Inv

\* Calibration, the updater and the focus.
LEMMA ElsewhereInv ==
    ASSUME Inv, change_focus \/ calibrate \/ end_calibration \/ update \/ end_update
    PROVE  Inv'
<1> USE SessionsAssumption
<1>1. Elsewhere /\ focus' \in BOOLEAN
  BY DEF change_focus, calibrate, end_calibration, update, end_update, Inv, TypeOK
<1>2. ActivityTypeOK
  BY DEF Inv, TypeOK
<1>3. /\ ActivityTypeOK' /\ activity'.physical_playback = activity.physical_playback
      /\ activity'.quarantined = activity.quarantined /\ activity'.closing = activity.closing
      /\ OwnerOK'
  <2>1. CASE change_focus
    BY <1>1, <1>2, <2>1 DEF change_focus, Elsewhere, OwnerOK, Inv, ActivityTypeOK
  <2>2. CASE calibrate
    BY <1>1, <1>2, <2>2 DEF calibrate, reserve_calibration, reservable, Elsewhere, OwnerOK, Inv,
                            ActivityTypeOK
  <2>3. CASE end_calibration
    BY <1>1, <1>2, <2>3 DEF end_calibration, release_calibration, Elsewhere, OwnerOK, Inv,
                            ActivityTypeOK
  <2>4. CASE update
    BY <1>1, <1>2, <2>4 DEF update, reserve_update, reservable, Elsewhere, OwnerOK, Inv,
                            ActivityTypeOK
  <2>5. CASE end_update
    BY <1>1, <1>2, <2>5 DEF end_update, release_update, Elsewhere, OwnerOK, Inv, ActivityTypeOK
  <2> QED BY <2>1, <2>2, <2>3, <2>4, <2>5
<1>4. TypeOK'
  BY <1>1, <1>3 DEF Inv, TypeOK, Elsewhere
<1>5. ThreadsOK' /\ ClosingOK' /\ RequestsOK'
  BY <1>1, <1>3 DEF Inv, ThreadsOK, ClosingOK, RequestsOK, Elsewhere
<1>6. ASSUME NEW p \in Callers PROVE CallerAt(p)'
  BY <1>1 DEF Inv, CallerAt, Elsewhere
<1>7. ASSUME NEW t \in Sessions PROVE WorkerAt(t)' /\ HeldAt(t)'
  BY <1>1, <1>3 DEF Inv, WorkerAt, HeldAt, Running, released, Elsewhere
<1> QED BY <1>3, <1>4, <1>5, <1>6, <1>7 DEF Inv

----------------------------------------------------------------------------
(***************************************************************************)
(* The theorems.                                                           *)
(***************************************************************************)
\* Before the first session there is nothing to own.
LEMMA InitInv == Init => Inv
<1> USE SessionsAssumption
<1> SUFFICES ASSUME Init PROVE Inv
  OBVIOUS
<1>1. /\ NewActive \in ActiveRecord /\ NewPlayer \in PlayerRecord /\ NewWorker \in WorkerRecord
      /\ NoMonitor \in MonitorRecord /\ Idle \in CallerRecord /\ IdleWord \in Word
  BY DEF NewActive, ActiveRecord, NewPlayer, PlayerRecord, NewWorker, WorkerRecord, NoMonitor,
         MonitorRecord, Idle, CallerRecord, IdleWord, startup_word, Word, PlaybackSessionState,
         Live, Lifecycle, Outcome, Release, Method, Request, Phase, Reason
<1>2. TypeOK
  <2>1. ActivityTypeOK
    BY DEF Init, ActivityInit, ActivityTypeOK
  <2>2. /\ active \in [Sessions -> ActiveRecord] /\ player \in [Sessions -> PlayerRecord]
        /\ worker \in [Sessions -> WorkerRecord] /\ caller \in [Callers -> CallerRecord]
    BY <1>1 DEF Init
  <2>3. current \in 0 .. MaxSessions /\ slot \in Sessions \cup {NoSession}
    BY DEF Init
  <2>4. /\ word \in Word /\ monitor \in MonitorRecord
        /\ focus \in BOOLEAN /\ delivery \in BOOLEAN /\ keys_released \in BOOLEAN
        /\ starter \in {"idle", "spawn", "arm", "watchdog", "worker", "handle", "started", "failed"}
    BY <1>1, Zenon DEF Init
  <2> QED BY <2>1, <2>2, <2>3, <2>4, Zenon DEF TypeOK
<1>3. ThreadsOK /\ OwnerOK
  BY DEF Init, ActivityInit, ThreadsOK, OwnerOK, NoMonitor, Terminating
<1>4. \A s \in Sessions : WorkerAt(s) /\ HeldAt(s)
  BY DEF Init, WorkerAt, HeldAt, NewWorker, Running, NoMonitor
<1>5. ClosingOK
  BY DEF Init, ClosingOK, NewActive, Idle, Callers
<1>6. \A p \in Callers : CallerAt(p)
  BY DEF Init, CallerAt, Idle, Sends
<1>7. RequestsOK
  BY DEF Init, RequestsOK, NewPlayer, Idle, IdleWord, startup_word
<1> QED BY <1>2, <1>3, <1>4, <1>5, <1>6, <1>7 DEF Inv

\* Every step keeps the invariant.
LEMMA NextInv == Inv /\ [Next]_vars => Inv'
<1> SUFFICES ASSUME Inv, [Next]_vars PROVE Inv'
  OBVIOUS
<1>1. CASE UNCHANGED vars
  BY <1>1 DEF vars, Inv, TypeOK, ActivityTypeOK, ThreadsOK, OwnerOK, WorkerAt, HeldAt, ClosingOK,
              CallerAt, RequestsOK, Running, released
<1>2. CASE start
  BY <1>2, StartInv
<1>3. CASE Starter
  BY <1>3, StarterSteps, SessionMovesInv, SpawnInv DEF Starter
<1>4. CASE Monitor
  BY <1>4, MonitorSteps, SessionMovesInv, ClearInv DEF Monitor, Supervision
<1>5. CASE \E s \in Sessions : Worker(s) \/ Chance(s)
  BY <1>5, WorkerSteps, WorkerMovesInv
<1>6. CASE (\E method \in Methods : command(method)) \/ fail_delivery \/ close_admission
  <2>1. {"client", "hub", "closer"} \subseteq Callers
    BY DEF Callers
  <2> QED BY <1>6, <2>1, CallersBegin, CallerMovesInv
<1>7. CASE \E p \in Callers : Caller(p)
  BY <1>7, CallerStepsMove, CallerMovesInv
<1>8. CASE change_focus \/ calibrate \/ end_calibration \/ update \/ end_update
  BY <1>8, ElsewhereInv
<1> QED BY <1>1, <1>2, <1>3, <1>4, <1>5, <1>6, <1>7, <1>8 DEF Next

\* The invariant holds in every state of every behaviour.
THEOREM Invariant == Spec => []Inv
  BY InitInv, NextInv, PTL DEF Spec

\* Every variable keeps its type: the slot and the callers hold sessions of
\* the process, and a terminal state is one that the desktop publishes.
THEOREM TypeCorrect == Spec => []TypeOK
<1>1. Inv => TypeOK
  BY DEF Inv
<1> QED BY <1>1, Invariant, PTL

\* One owner of the keyboard at a time: of the slot, the activity lease and
\* the worker's thread none outlives the other in the wrong order, whatever
\* the number of sessions and wherever a start, a join or a release failed.
THEOREM KeyboardIsExclusive == Spec => []KeyboardExclusive
<1>1. Inv => KeyboardExclusive
  <2> SUFFICES ASSUME Inv, NEW s \in Sessions
               PROVE  /\ Running(s) => slot = s /\ activity.physical_playback = s
                      /\ worker[s].held => activity.physical_playback = s \/ activity.quarantined
                      /\ activity.calibration \/ activity.update => ~Running(s) /\ ~worker[s].held
    BY DEF KeyboardExclusive
  <2>1. s # NoSession
    BY SessionsAssumption
  <2>2. Running(s) => slot = s /\ activity.physical_playback = s
    BY DEF Inv, WorkerAt, OwnerOK, Terminating
  <2>3. worker[s].held => activity.physical_playback = s \/ activity.quarantined
    BY DEF Inv, HeldAt, OwnerOK
  <2> QED BY <2>1, <2>2, <2>3 DEF Inv, OwnerOK
<1> QED BY <1>1, Invariant, PTL

\* The marker that the updater reads is never wrong: a shutdown that found no
\* session, or saw the last one done and verified, is followed by no other.
THEOREM KeysAreReleased == Spec => []KeysReleasedIsTrue
<1>1. Inv => KeysReleasedIsTrue
  BY SessionsAssumption DEF Inv, KeysReleasedIsTrue, ClosingOK, WorkerAt, HeldAt
<1> QED BY <1>1, Invariant, PTL

\* A terminal request that came before Armed wins, from whichever thread and
\* with whatever other requests around it.
THEOREM StoppedStaysUnarmed == Spec => StoppedNeverArms
<1>1. Inv /\ [Next]_vars =>
        [\A s \in Sessions :
           player[s].requested # {} /\ ~worker[s].armed => ~worker'[s].armed]_vars
  <2> SUFFICES ASSUME Inv, Next, NEW s \in Sessions, player[s].requested # {}, ~worker[s].armed
               PROVE  ~worker'[s].armed
    OBVIOUS
  <2>1. ASSUME NEW t \in Sessions, Worker(t) \/ Chance(t) PROVE ~worker'[s].armed
    <3>1. WorkerMoves(t)
      BY <2>1, WorkerSteps
    <3>2. CASE t = s
      <4>1. s = current
        BY <3>1, <3>2, SessionsAssumption DEF WorkerMoves, Inv, WorkerAt, ThreadsOK
      <4>2. word.phase \notin PreArm
        BY <4>1 DEF Inv, RequestsOK
      <4> QED BY <3>1, <3>2, <4>2 DEF WorkerMoves
    <3>3. CASE t # s
      BY <3>1, <3>3 DEF WorkerMoves
    <3> QED BY <3>2, <3>3
  <2>2. ASSUME UNCHANGED worker PROVE ~worker'[s].armed
    BY <2>2
  <2>3. CASE start
    BY <2>2, <2>3 DEF start
  <2>4. CASE Starter
    <3>1. CASE spawn_worker
      <4>1. worker' = [worker EXCEPT ![current].pc = "prepare"]
            /\ worker \in [Sessions -> WorkerRecord]
        BY <3>1 DEF spawn_worker, Inv, TypeOK
      <4> QED BY <4>1 DEF WorkerRecord
    <3>2. CASE ~spawn_worker
      <4>1. SessionMoves
        BY <2>4, <3>2, StarterSteps DEF Starter
      <4> QED BY <2>2, <4>1 DEF SessionMoves
    <3> QED BY <3>1, <3>2
  <2>5. CASE Monitor
    <3>1. CASE clear_terminal_ownership
      <4>1. /\ worker' = [worker EXCEPT ![current] =
                             [NewWorker EXCEPT !.pc = worker[current].pc,
                                               !.held = worker[current].held]]
            /\ worker \in [Sessions -> WorkerRecord]
        BY <3>1 DEF clear_terminal_ownership, Inv, TypeOK
      <4> QED BY <4>1 DEF NewWorker
    <3>2. CASE ~clear_terminal_ownership
      <4>1. SessionMoves
        BY <2>5, <3>2, MonitorSteps DEF Monitor, Supervision
      <4> QED BY <2>2, <4>1 DEF SessionMoves
    <3> QED BY <3>1, <3>2
  <2>6. CASE (\E method \in Methods : command(method)) \/ fail_delivery \/ close_admission
    <3>1. \E p \in Callers : CallerMoves(p)
      BY <2>6, CallersBegin DEF Callers
    <3> QED BY <2>2, <3>1 DEF CallerMoves, CallerOnly
  <2>7. CASE \E p \in Callers : Caller(p)
    <3>1. \E p \in Callers : CallerMoves(p)
      BY <2>7, CallerStepsMove
    <3> QED BY <2>2, <3>1 DEF CallerMoves, CallerOnly
  <2>8. CASE change_focus \/ calibrate \/ end_calibration \/ update \/ end_update
    BY <2>2, <2>8 DEF change_focus, calibrate, end_calibration, update, end_update, Elsewhere
  <2> QED BY <2>1, <2>3, <2>4, <2>5, <2>6, <2>7, <2>8 DEF Next
<1> QED BY <1>1, Invariant, PTL DEF Spec, StoppedNeverArms
============================================================================
