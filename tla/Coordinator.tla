---------------------------- MODULE Coordinator ----------------------------
(***************************************************************************)
(* Playing an admitted schedule: the dispatch coordinator, which owns the  *)
(* ledger of generations (sky_dispatch_core/src/coordinator), the stream   *)
(* of frozen commits it replays (sky_player/src/engine/worker/prepared.rs) *)
(* or the planner that replaces it in the strict profile (planning.rs,     *)
(* dispatch_loop.rs), the guard that keeps keys apart in time              *)
(* (physical_timing_guard.rs), and pauses, which release every key and     *)
(* cancel what was sounding while the stream still holds its Ups.          *)
(*                                                                         *)
(* A packet is sent and committed in one step that takes up to SendTicks;  *)
(* a failed send ends the session, like a command to stop.  PauseResume    *)
(* models how a pause begins and ends, TrackedKeys the release itself.     *)
(***************************************************************************)
EXTENDS Schedule, FiniteSets

CONSTANTS
    Songs,         \* the songs to play
    PreRoll,       \* ticks between the start and the epoch (pre_roll_us)
    SendTicks,     \* bound on the time one send takes
    MaxLate,       \* bound on how late the worker wakes
    MaxPause,      \* bound on the length of a pause
    MaxPauses      \* bound on their number

ASSUME PlayBounds == {PreRoll, SendTicks, MaxLate, MaxPause, MaxPauses} \subseteq Nat
ASSUME SlotsAssumption == IsFiniteSet(Keys)
ASSUME SongsAssumption == Songs \subseteq Seq([at : Nat, ups : SUBSET Keys, downs : SUBSET Keys])

VARIABLES
    song,
    mode,          \* prepared_normal or the planner
    phase,
    coordinator,   \* RuntimeDispatchCoordinator
    stream,        \* PreparedDispatchStream
    guard,         \* PhysicalTimingGuard
    authorized,    \* down_boundary_state: the authorized packet and its target
    clock,         \* QPC, the playback epoch and the pause
    down,          \* keys that are physically down
    since,         \* history: when a key last went down or up
    presses        \* history: how often each generation was pressed

vars == <<song, mode, phase, coordinator, stream, guard, authorized, clock, down, since, presses>>

Latest(S) == CHOOSE t \in S : \A u \in S : u <= t

\* Longer than a hold and a gap before any time of a session.
Never == -(Hold + Frame) - 1
Unauthorized == <<>>

----------------------------------------------------------------------------
(***************************************************************************)
(* The coordinator.  An operation gives the new coordinator and whether it *)
(* was accepted.                                                           *)
(***************************************************************************)
Zero == [released |-> 0, dropped_expired |-> 0, cancelled |-> 0]

\* try_new_ticks_with_checkpoint
NewCoordinator(packets) ==
    [packets   |-> packets,
     cursor    |-> 1,
     location  |-> UpLocations(packets),
     state     |-> [g \in Generations(packets) |-> "Scheduled"],
     counters  |-> Zero,
     activated |-> 0,
     active    |-> [k \in Keys |-> NoGen],
     floor     |-> [k \in Keys |-> 0],       \* release_not_before_ticks
     token     |-> [k \in Keys |-> NoGen]]   \* cancelled_up_by_slot

Check(ok, c) == [ok |-> ok, c |-> c]

Live(c) == {k \in Keys : c.active[k] # NoGen}
InState(c, s) == {g \in DOMAIN c.state : c.state[g] = s}
Terminal(c) == c.counters.released + c.counters.dropped_expired + c.counters.cancelled

\* validate_invalidated_up_identity: the Up lost its generation, not its key.
Invalidated(c, g) ==
    LET p == c.packets[c.location[g]] IN p.ups[g[2]] = NoGen /\ g[2] \in p.up_mask

\* validate_dropped_expired_up_identity: it lost both.
Dropped(c, g) ==
    LET p == c.packets[c.location[g]] IN p.ups[g[2]] = NoGen /\ g[2] \notin p.up_mask

\* invalidate_authored_up_for_resumable_cancellation: the Ups of these keys
\* lose their generation and stay in the packet's mask.
Orphaned(p, keys) ==
    [p EXCEPT !.ups = [k \in DOMAIN p.ups |-> IF k \in keys THEN NoGen ELSE p.ups[k]]]

\* invalidate_up_for_generation: they leave the mask as well.
Withdrawn(p, keys) ==
    [Orphaned(p, keys) EXCEPT !.up_mask = p.up_mask \ keys]

\* check_local_invariants and check_invariants.
LocallyConsistent(c) ==
    /\ c.counters.released + Cardinality(Live(c)) <= c.activated
    /\ c.activated <= Cardinality(DOMAIN c.state)
    /\ Terminal(c) + Cardinality(Live(c)) <= Cardinality(DOMAIN c.state)
    /\ \A k \in Live(c) : c.token[k] = NoGen /\ c.state[c.active[k]] = "Active"
    /\ \A k \in Keys : c.token[k] # NoGen =>
           Invalidated(c, c.token[k]) /\ c.state[c.token[k]] = "Cancelled"

Consistent(c) ==
    /\ LocallyConsistent(c)
    /\ Cardinality(InState(c, "Active")) = Cardinality(Live(c))
    /\ Terminal(c) = Cardinality(DOMAIN c.state \ (InState(c, "Active") \cup InState(c, "Scheduled")))

\* Counts only the released.
Fault_is_finished(c) ==
    /\ c.cursor > Len(c.packets)
    /\ Live(c) = {}
    /\ c.counters.released = Cardinality(DOMAIN c.state)

is_finished(c) ==
    /\ c.cursor > Len(c.packets)
    /\ Live(c) = {}
    /\ \A k \in Keys : c.token[k] = NoGen
    /\ Terminal(c) = Cardinality(DOMAIN c.state)

\* prepare_current_authored_packet: the Ups of live generations, now or
\* deferred to their hold floor, and the Up a cancellation token stands for.
Prepare(c) ==
    LET p == c.packets[c.cursor]
        owned == {k \in DOMAIN p.ups : p.ups[k] # NoGen}
        tokens == {k \in DOMAIN p.ups \ owned :
                      c.token[k] # NoGen /\ c.location[c.token[k]] = c.cursor}
        deferred == {k \in owned : c.floor[k] > p.at}
    IN [ok       |-> /\ \A k \in owned : c.active[k] = p.ups[k] /\ c.location[p.ups[k]] = c.cursor
                     /\ \A k \in tokens : Invalidated(c, c.token[k]),
        packet   |-> c.cursor,
        at       |-> p.at,
        ups      |-> [k \in owned \cup tokens |-> IF k \in owned THEN p.ups[k] ELSE c.token[k]],
        deferred |-> deferred,
        downs    |-> p.downs]

Ups(f) == DOMAIN f.ups
Downs(f) == DOMAIN f.downs
Physical(f) == Ups(f) # {} \/ Downs(f) # {}

\* An inconsistent packet and a deferred release end a plan.
Outcome(f) == IF ~f.ok THEN "error" ELSE IF f.deferred # {} THEN "deferred" ELSE "play"

\* validate_frozen_authored_commit: before anything is sent.
Frozen(c, f) ==
    /\ \A k \in Ups(f) :
           LET g == f.ups[k]
               p == c.packets[f.packet]
           IN /\ c.location[g] = f.packet
              /\ \/ c.state[g] = "Active" /\ p.ups[k] = g /\ c.active[k] = g /\ c.token[k] = NoGen
                 \/ c.state[g] = "Cancelled" /\ c.token[k] = g /\ c.active[k] = NoGen /\ Invalidated(c, g)
                 \/ c.state[g] = "DroppedExpired" /\ Dropped(c, g)
    /\ \A k \in Downs(f) : c.token[k] = NoGen

\* The token is spent, the generation stays cancelled.
Fault_CommitUps(c, f, started) ==
    LET live == {k \in Ups(f) : c.active[k] # NoGen}
        over == {f.ups[k] : k \in live}
    IN Check(f.packet = c.cursor,
             [c EXCEPT !.state = [g \in DOMAIN @ |-> IF g \in over THEN "Released" ELSE @[g]],
                       !.counters.released = @ + Cardinality(over),
                       !.active = [k \in Keys |-> IF k \in live THEN NoGen ELSE @[k]],
                       !.floor = [k \in Keys |-> IF k \in live THEN 0 ELSE @[k]],
                       !.token = [k \in Keys |-> IF k \in Ups(f) THEN NoGen ELSE @[k]]])

\* commit_prepared_up_intents_frozen: a live generation is released, a
\* cancelled one is reconciled with its token, a dropped one left alone.
CommitUps(c, f, started) ==
    LET live == {k \in Ups(f) : c.active[k] # NoGen}
        reconciled == {k \in Ups(f) \ live : c.token[k] = f.ups[k]}
        over == {f.ups[k] : k \in live \cup reconciled}
    IN Check(/\ f.packet = c.cursor
             /\ \A k \in live : /\ c.active[k] = f.ups[k]
                                /\ c.state[f.ups[k]] = "Active"
                                /\ started >= c.floor[k]
             /\ \A k \in reconciled : c.state[f.ups[k]] = "Cancelled" /\ Invalidated(c, f.ups[k])
             /\ \A k \in Ups(f) \ (live \cup reconciled) :
                    c.state[f.ups[k]] = "DroppedExpired" /\ Dropped(c, f.ups[k]),
             [c EXCEPT !.state = [g \in DOMAIN @ |-> IF g \in over THEN "Released" ELSE @[g]],
                       !.counters.released = @ + Cardinality(over),
                       !.counters.cancelled = @ - Cardinality(reconciled),
                       !.active = [k \in Keys |-> IF k \in live THEN NoGen ELSE @[k]],
                       !.floor = [k \in Keys |-> IF k \in live THEN 0 ELSE @[k]],
                       !.token = [k \in Keys |-> IF k \in reconciled THEN NoGen ELSE @[k]]])

\* What both commits need of the packet's Downs.
DownsFree(c, f) == \A k \in Downs(f) : c.active[k] = NoGen /\ c.state[f.downs[k]] = "Scheduled"
Pressed(f) == {f.downs[k] : k \in Downs(f)}

\* commit_prepared_authored_frame_success_frozen
CommitSuccess(c, f, started) ==
    LET up == CommitUps(c, f, started) IN
    Check(Frozen(c, f) /\ up.ok /\ DownsFree(up.c, f),
          [up.c EXCEPT !.state = [g \in DOMAIN @ |-> IF g \in Pressed(f) THEN "Active" ELSE @[g]],
                       !.activated = @ + Cardinality(Pressed(f)),
                       !.active = [k \in Keys |-> IF k \in Downs(f) THEN f.downs[k] ELSE @[k]],
                       !.floor = [k \in Keys |-> IF k \in Downs(f) THEN f.at + Hold ELSE @[k]],
                       !.cursor = @ + 1])

\* commit_prepared_authored_frame_deadline_miss: the Ups as ever, the Downs
\* dropped, and the Ups of what was dropped taken out of their packets.
CommitMiss(c, f, started) ==
    LET up == CommitUps(c, f, started) IN
    Check(Frozen(c, f) /\ up.ok /\ DownsFree(up.c, f),
          [up.c EXCEPT !.state = [g \in DOMAIN @ |-> IF g \in Pressed(f) THEN "DroppedExpired" ELSE @[g]],
                       !.counters.dropped_expired = @ + Cardinality(Pressed(f)),
                       !.packets = [i \in DOMAIN @ |->
                           Withdrawn(@[i], {k \in Downs(f) : c.location[f.downs[k]] = i})],
                       !.cursor = @ + 1])

\* commit_prepared_authored_frame_metadata_frozen
CommitMetadata(c, f) ==
    LET up == CommitUps(c, f, f.at) IN
    Check(~Physical(f) /\ up.ok, [up.c EXCEPT !.cursor = @ + 1])

\* prepare_current_stale_packet: no key is left in the packet's masks.
Stale(c) ==
    LET p == c.packets[c.cursor] IN p.up_mask = {} /\ DOMAIN p.downs = {}

\* commit_stale_packet
CommitStale(c) ==
    Check(\A k \in DOMAIN c.packets[c.cursor].ups : c.packets[c.cursor].ups[k] = NoGen,
          [c EXCEPT !.cursor = @ + 1])

\* Cancels without the tokens.
Fault_CancelLive(c) ==
    LET gone == {c.active[k] : k \in Live(c)} IN
    Check(LocallyConsistent(c),
          [c EXCEPT !.state = [g \in DOMAIN @ |-> IF g \in gone THEN "Cancelled" ELSE @[g]],
                    !.counters.cancelled = @ + Cardinality(gone),
                    !.active = [k \in Keys |-> NoGen],
                    !.floor = [k \in Keys |-> 0]])

\* cancel_live_generations_after_verified_resumable_cleanup: a cancelled
\* generation leaves a token for the Up its packet still holds.
CancelLive(c) ==
    LET gone == {c.active[k] : k \in Live(c)}
        next == [c EXCEPT !.state = [g \in DOMAIN @ |-> IF g \in gone THEN "Cancelled" ELSE @[g]],
                          !.counters.cancelled = @ + Cardinality(gone),
                          !.packets = [i \in DOMAIN @ |->
                              Orphaned(@[i], {k \in Live(c) : c.location[c.active[k]] = i})],
                          !.token = [k \in Keys |-> IF k \in Live(c) THEN c.active[k] ELSE @[k]],
                          !.active = [k \in Keys |-> NoGen],
                          !.floor = [k \in Keys |-> 0]]
    IN Check(/\ LocallyConsistent(c)
             /\ \A k \in Live(c) : /\ c.packets[c.location[c.active[k]]].ups[k] = c.active[k]
                                   /\ k \in c.packets[c.location[c.active[k]]].up_mask
             /\ LocallyConsistent(next),
             next)

\* cancel_all, at the end of the session.
CancelAll(c) ==
    LET gone == InState(c, "Scheduled") \cup InState(c, "Active")
    IN [c EXCEPT !.state = [g \in DOMAIN @ |-> IF g \in gone THEN "Cancelled" ELSE @[g]],
                 !.counters.cancelled = @ + Cardinality(gone),
                 !.packets = [i \in DOMAIN @ |->
                     Withdrawn(@[i], {k \in DOMAIN @[i].ups : @[i].ups[k] \in gone})],
                 !.active = [k \in Keys |-> NoGen],
                 !.floor = [k \in Keys |-> 0],
                 !.token = [k \in Keys |-> NoGen]]
----------------------------------------------------------------------------
(***************************************************************************)
(* Starting.                                                               *)
(***************************************************************************)
Idle == NewCoordinator(<<>>)
Empty == [entries |-> <<>>, cursor |-> 1]
Midnight == [now |-> 0, epoch |-> PreRoll, paused |-> Never, focus |-> FALSE, pauses |-> 0]
Open == [up |-> [k \in Keys |-> Never], down |-> [k \in Keys |-> Never], barrier |-> Never]

Init ==
    /\ song \in Songs
    /\ mode \in {"prepared", "planner"}
    /\ phase = "new"
    /\ coordinator = Idle
    /\ stream = Empty
    /\ guard = Open
    /\ authorized = Unauthorized
    /\ clock = Midnight
    /\ down = {}
    /\ since = [k \in Keys |-> Never]
    /\ presses = <<>>

\* NativeDispatchSession::new refuses a schedule it could not play.
admit ==
    /\ phase = "new"
    /\ phase' = IF Admits(song) THEN "ready" ELSE "refused"
    /\ UNCHANGED <<song, mode, coordinator, stream, guard, authorized, clock, down, since, presses>>

\* The worker boots with a coordinator; normally it simulates the session.
boot ==
    /\ phase = "ready"
    /\ coordinator' = NewCoordinator(Compile(song))
    /\ presses' = [g \in Generations(Compile(song)) |-> 0]
    /\ phase' = IF mode = "prepared" THEN "simulate" ELSE "play"
    /\ UNCHANGED <<song, mode, stream, guard, authorized, clock, down, since>>

\* build_with_checkpoints: the simulated session plays every packet on time
\* and freezes its commit; a deferred Up or a refused commit ends it.
simulate ==
    /\ phase = "simulate"
    /\ coordinator.cursor <= Len(coordinator.packets)
    /\ LET f == Prepare(coordinator)
           r == IF Physical(f) THEN CommitSuccess(coordinator, f, f.at)
                ELSE CommitMetadata(coordinator, f)
       IN /\ coordinator' = r.c
          /\ stream' = [stream EXCEPT !.entries = Append(@, f)]
          /\ phase' = CASE Outcome(f) # "play" -> Outcome(f)
                        [] Outcome(f) = "play" /\ ~r.ok -> "error"
                        [] OTHER -> "simulate"
    /\ UNCHANGED <<song, mode, guard, authorized, clock, down, since, presses>>

\* The session itself starts with a fresh coordinator.
start ==
    /\ phase = "simulate"
    /\ coordinator.cursor > Len(coordinator.packets)
    /\ coordinator' = NewCoordinator(Compile(song))
    /\ phase' = "play"
    /\ UNCHANGED <<song, mode, stream, guard, authorized, clock, down, since, presses>>

----------------------------------------------------------------------------
(***************************************************************************)
(* The guard and the clock.                                                *)
(***************************************************************************)
Playing == phase = "play" /\ clock.paused = Never /\ ~is_finished(coordinator)

\* The frame to play: the stream's next entry, or the planner's plan.
Current ==
    IF mode = "prepared" THEN stream.entries[stream.cursor] ELSE Prepare(coordinator)
HasCurrent ==
    IF mode = "prepared" THEN stream.cursor <= Len(stream.entries)
    ELSE coordinator.cursor <= Len(coordinator.packets)

Target(f) == clock.epoch + f.at
Elapsed == clock.now - clock.epoch

\* query: no Up before its hold, no Down before its gap or the resume barrier.
Floors(f) == {guard.up[k] : k \in Ups(f)}
                 \cup {guard.down[k] : k \in Downs(f)}
                 \cup {guard.barrier : k \in Downs(f)}

NotBefore(f) == Latest({Target(f)} \cup Floors(f))

Due(f) == \A t \in {Target(f)} \cup Floors(f) : t <= clock.now

\* observe_successful_packet: the floors count from the completion.
observe(ups, downs, done) ==
    guard' = [guard EXCEPT
        !.up = [k \in Keys |-> IF k \in downs THEN done + Hold ELSE IF k \in ups THEN Never ELSE @[k]],
        !.down = [k \in Keys |-> IF k \in downs THEN Never ELSE IF k \in ups THEN done + Frame ELSE @[k]]]

\* The physical packet: Ups before Downs, complete at done.
Send(f, ups, downs, done) ==
    /\ clock' = [clock EXCEPT !.now = done]
    /\ down' = (down \ ups) \cup downs
    /\ since' = [k \in Keys |-> IF k \in downs \cup (ups \cap down) THEN done ELSE since[k]]
    /\ presses' = [g \in DOMAIN presses |-> IF g \in {f.downs[k] : k \in downs} THEN presses[g] + 1
                                                                             ELSE presses[g]]
    /\ observe(ups, downs, done)

Completions == clock.now .. clock.now + SendTicks

\* Time passes while the worker sleeps, is late, or is paused.
Tick ==
    /\ phase = "play"
    /\ \/ clock.paused # Never /\ clock.now - clock.paused < MaxPause
       \/ Playing /\ HasCurrent /\ clock.now < NotBefore(Current) + MaxLate
    /\ clock' = [clock EXCEPT !.now = @ + 1]
    /\ UNCHANGED <<song, mode, phase, coordinator, stream, guard, authorized, down, since, presses>>

----------------------------------------------------------------------------
(***************************************************************************)
(* The stream.                                                             *)
(***************************************************************************)
Committed(r) ==
    /\ coordinator' = r.c
    /\ phase' = IF r.ok THEN "play" ELSE "error"

\* dispatch_prepared_normal_frame, however late; validated before it is sent.
dispatch_prepared ==
    /\ Playing /\ mode = "prepared" /\ HasCurrent
    /\ LET f == Current IN
       /\ Physical(f) /\ Due(f)
       /\ IF Frozen(coordinator, f)
          THEN /\ \E done \in Completions : Send(f, Ups(f), Downs(f), done)
               /\ Committed(CommitSuccess(coordinator, f, Elapsed))
               /\ stream' = [stream EXCEPT !.cursor = @ + 1]
          ELSE phase' = "error" /\ UNCHANGED <<coordinator, stream, guard, clock, down, since, presses>>
    /\ UNCHANGED <<song, mode, authorized>>

dispatch_metadata ==
    /\ Playing /\ mode = "prepared" /\ HasCurrent
    /\ ~Physical(Current) /\ Target(Current) <= clock.now
    /\ Committed(CommitMetadata(coordinator, Current))
    /\ stream' = [stream EXCEPT !.cursor = @ + 1]
    /\ UNCHANGED <<song, mode, guard, authorized, clock, down, since, presses>>

----------------------------------------------------------------------------
(***************************************************************************)
(* The planner.                                                            *)
(***************************************************************************)
Planning == Playing /\ mode = "planner" /\ HasCurrent /\ ~Stale(coordinator)
Stamp(f) == <<f.packet, Target(f)>>

\* A packet with nothing left to play goes at once.
dispatch_stale ==
    /\ Playing /\ mode = "planner" /\ HasCurrent
    /\ Stale(coordinator)
    /\ Committed(CommitStale(coordinator))
    /\ UNCHANGED <<song, mode, stream, guard, authorized, clock, down, since, presses>>

Planned == Planning /\ Outcome(Current) = "play"

\* observe_future_down_boundary: only a Down seen before its time may be sent.
observe_future ==
    /\ Planned
    /\ Downs(Current) # {} /\ authorized # Stamp(Current)
    /\ Target(Current) > clock.now
    /\ authorized' = Stamp(Current)
    /\ UNCHANGED <<song, mode, phase, coordinator, stream, guard, clock, down, since, presses>>

\* dispatch_due_from_plan with an authorized Down, or without a Down; a plan
\* that fails ends the session.
dispatch_planned ==
    /\ Planning
    /\ LET f == Current IN
       IF Outcome(f) # "play" \/ ~Frozen(coordinator, f)
       THEN /\ phase' = IF Outcome(f) = "play" THEN "error" ELSE Outcome(f)
            /\ UNCHANGED <<coordinator, guard, authorized, clock, down, since, presses>>
       ELSE /\ Due(f)
            /\ Downs(f) # {} => authorized = Stamp(f)
            /\ authorized' = IF Downs(f) # {} THEN Unauthorized ELSE authorized
            /\ \E done \in Completions : Send(f, Ups(f), Downs(f), done)
            /\ Committed(CommitSuccess(coordinator, f, Elapsed))
    /\ UNCHANGED <<song, mode, stream>>

\* recover_missed_down_boundary: a Down nobody saw coming is dropped; the
\* packet's Ups are still sent.  Under strict timing it ends the session
\* instead (down_unobserved_backlog), which is one of the ways of stop.
dispatch_missed ==
    /\ Planned
    /\ LET f == Current IN
       /\ Due(f)
       /\ Downs(f) # {} /\ authorized # Stamp(f)
       /\ authorized' = Unauthorized
       /\ Frozen(coordinator, f)
       /\ IF Ups(f) = {} THEN UNCHANGED <<guard, clock, down, since, presses>>
          ELSE \E done \in Completions : Send(f, Ups(f), {}, done)
       /\ Committed(CommitMiss(coordinator, f, Elapsed))
    /\ UNCHANGED <<song, mode, stream>>

\* The final gate turns an authorized Down away: its authorization is spent.
admission_rejected ==
    /\ Planned /\ Due(Current)
    /\ Downs(Current) # {} /\ authorized = Stamp(Current)
    /\ authorized' = Unauthorized
    /\ UNCHANGED <<song, mode, phase, coordinator, stream, guard, clock, down, since, presses>>

----------------------------------------------------------------------------
(***************************************************************************)
(* Pauses and the end.                                                     *)
(***************************************************************************)
\* The barrier after a pause is left out.
Fault_barrier == Never

\* establish_resume_down_barrier
barrier == clock.now + Frame

\* The keys go up, their generations stay active.
Fault_suspend_live_input ==
    /\ down' = {}
    /\ since' = [k \in Keys |-> IF k \in down THEN clock.now ELSE since[k]]
    /\ guard' = [Open EXCEPT !.barrier = barrier]
    /\ authorized' = Unauthorized
    /\ UNCHANGED <<coordinator, phase>>

\* suspend_live_input: every key up, floors cleared, what sounded cancelled.
suspend_live_input ==
    /\ down' = {}
    /\ since' = [k \in Keys |-> IF k \in down THEN clock.now ELSE since[k]]
    /\ guard' = [Open EXCEPT !.barrier = barrier]
    /\ authorized' = Unauthorized
    /\ Committed(CancelLive(coordinator))

\* Only once a key was pressed: earlier, a pause ends the session.
MayPause ==
    Playing /\ clock.pauses < MaxPauses /\ coordinator.activated > 0

Pauses(focus) ==
    clock' = [clock EXCEPT !.paused = clock.now, !.focus = focus, !.pauses = @ + 1]
Resumes ==
    clock' = [clock EXCEPT !.epoch = @ + clock.now - clock.paused, !.paused = Never, !.focus = FALSE]

manual_pause ==
    /\ MayPause
    /\ suspend_live_input
    /\ Pauses(FALSE)
    /\ UNCHANGED <<song, mode, stream, presses>>

manual_resume ==
    /\ phase = "play" /\ clock.paused # Never /\ ~clock.focus
    /\ Resumes
    /\ UNCHANGED <<song, mode, phase, coordinator, stream, guard, authorized, down, since, presses>>

\* enter_focus_pause: the keys stay until the window is back.
focus_pause ==
    /\ MayPause
    /\ authorized' = Unauthorized
    /\ Pauses(TRUE)
    /\ UNCHANGED <<song, mode, phase, coordinator, stream, guard, down, since, presses>>

focus_restore ==
    /\ phase = "play" /\ clock.paused # Never /\ clock.focus
    /\ suspend_live_input
    /\ Resumes
    /\ UNCHANGED <<song, mode, stream, presses>>

\* clean_generation_accounting_proven, before the cancellation.
Clean(c) ==
    /\ c.activated = Cardinality(DOMAIN c.state)
    /\ c.counters = [Zero EXCEPT !.released = Cardinality(DOMAIN c.state)]

\* check_post_cleanup_invariants
CleanedUp(c) ==
    /\ Consistent(c)
    /\ Live(c) = {} /\ \A k \in Keys : c.token[k] = NoGen
    /\ InState(c, "Scheduled") \cup InState(c, "Active") = {}

\* The terminal cleanup: every key up, everything cancelled; what the worker
\* held is dropped with it.
Finalize(outcome) ==
    /\ down' = {}
    /\ since' = [k \in Keys |-> Never]
    /\ coordinator' = CancelAll(coordinator)
    /\ phase' = IF Consistent(coordinator) /\ CleanedUp(coordinator') THEN outcome ELSE "error"
    /\ stream' = Empty /\ guard' = Open /\ authorized' = Unauthorized /\ clock' = Midnight
    /\ UNCHANGED <<song, mode, presses>>

\* The loop ends; a stream exhausted before the ledger is an error
\* (prepared_stream_requires_terminal), a song with dropped notes ends the
\* session with one (clean_completion_proven).
finish ==
    /\ phase = "play"
    /\ is_finished(coordinator) \/ (Playing /\ ~HasCurrent /\ mode = "prepared")
    /\ Finalize(CASE ~is_finished(coordinator) -> "error"
                  [] is_finished(coordinator) /\ Clean(coordinator) -> "finished"
                  [] OTHER -> "unclean")

stop == phase = "play" /\ Finalize("stopped")

Dispatch ==
    \/ dispatch_prepared \/ dispatch_metadata
    \/ dispatch_stale \/ dispatch_planned \/ dispatch_missed
    \/ finish
Resume == manual_resume \/ focus_restore

Next ==
    \/ admit \/ boot \/ simulate \/ start \/ Tick \/ Dispatch \/ observe_future \/ admission_rejected
    \/ manual_pause \/ focus_pause \/ Resume \/ stop

Spec == Init /\ [][Next]_vars

\* Time passes, the worker wakes, and a pause is ended.
LiveSpec ==
    /\ Spec
    /\ WF_vars(admit \/ boot \/ simulate \/ start) /\ WF_vars(Tick) /\ WF_vars(Dispatch) /\ WF_vars(Resume)

----------------------------------------------------------------------------
(***************************************************************************)
(* Properties.                                                             *)
(***************************************************************************)

\* CompiledPairs: the compiler accepts exactly the songs in which every press
\* is closed before its key is pressed again, and pairs every press with the
\* first Up that follows it (compile_runtime_intents against its meaning).
CompiledPairs == phase \in {"refused", "ready"} => PairsAsAuthored(song)

\* AdmittedNeverDefers: a schedule that passed admission never makes the
\* coordinator defer a release to its hold floor, neither when the stream is
\* frozen (which would be refused at boot) nor in the planner, whatever the
\* rounding from microseconds to ticks does.
AdmittedNeverDefers == phase # "deferred"

\* NeverRefused: no operation of the coordinator is ever refused, no plan
\* fails and the stream is never exhausted early, whatever was paused, late
\* or dropped; those errors would end the session in the middle of a song.
NeverRefused == phase # "error"

\* LedgerMatchesKeys: a key is down exactly while a generation is active on
\* its slot (active_by_slot against what was sent).
LedgerMatchesKeys == phase = "play" => down = Live(coordinator)

\* EveryNoteAccounted: when a song has played to its end, every note was
\* pressed once and released, a pause in the middle of it notwithstanding, or,
\* in the planner only, was dropped unpressed, and a session that says it
\* completed cleanly dropped none.
EveryNoteAccounted ==
    phase \in {"finished", "unclean"} =>
        /\ \A g \in DOMAIN presses :
            \/ coordinator.state[g] = "Released" /\ presses[g] = 1
            \/ coordinator.state[g] = "DroppedExpired" /\ presses[g] = 0 /\ phase = "unclean"
        /\ phase = "unclean" => mode = "planner" /\ \E g \in DOMAIN presses : presses[g] = 0

\* KeysSpaced: no key is pressed within a frame of its last release, by a
\* packet or by a pause, and no packet releases a key before its hold is
\* over, both counted from when the earlier event was complete.
KeysSpaced ==
    [][/\ \A k \in down' \ down : clock.now >= since[k] + Frame
       /\ coordinator'.cursor > coordinator.cursor =>
              \A k \in down \ down' : clock.now >= since[k] + Hold]_vars

\* PlaybackEnds: an admitted song plays to its end or is stopped, through
\* every pause, delay and dropped note.
PlaybackEnds == (phase = "ready") ~> (phase \in {"finished", "unclean", "stopped"})
=============================================================================
