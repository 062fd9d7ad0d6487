---------------------------- MODULE TrackedKeys ----------------------------
(***************************************************************************)
(* The worker's input backend, TrackedKeyState: the four masks that record *)
(* which instrument keys the player may be holding down, the one-call      *)
(* packet sender that injects key events, and the release state machine    *)
(* that clears them again (sky_dispatch_win32/src/input/tracked).          *)
(*                                                                         *)
(* A u16 mask over the instrument slots is the set of the slots whose bit  *)
(* is set.  The keyboard the events go to is part of the model: `down' is  *)
(* the key state GetAsyncKeyState reports, `injected' the part of it the   *)
(* player's own Downs caused.  The masks are the program's knowledge; the  *)
(* properties compare it with the keyboard.                                *)
(***************************************************************************)
EXTENDS Integers, FiniteSets

CONSTANTS
    NumKeys,      \* instrument slots (MAX_KEYS, 15 in the program)
    MaxAttempts,  \* release rounds per invocation (4 in the program)
    HasClock,     \* whether the state was built with a QPC clock
    Transport     \* what SendInput and the clock may do, see below

ASSUME KeysAssumption == NumKeys \in Nat \ {0}
ASSUME AttemptsAssumption == MaxAttempts \in Nat \ {0}
ASSUME ClockAssumption == HasClock \in BOOLEAN

\* "perfect": every event is inserted and takes effect, QPC never fails.
\* "faulty":  a call may insert only a prefix, or QPC may fail around it.
\* "lossy":   faulty, and an event counted as inserted may have no effect
\*            (the count is insertion evidence, not proof).
ASSUME TransportAssumption == Transport \in {"perfect", "faulty", "lossy"}

\* FULL_INSTRUMENT_MASK
Keys == 0 .. NumKeys - 1

VARIABLES
    active, possibly_active, failed_release, in_flight,  \* the four masks
    last_error,    \* last_error.is_some()
    down,          \* keys the operating system reports as held
    injected,      \* the keys held because of a Down of ours
    swallowed,     \* an event counted as inserted has had no effect (history)
    pc,            \* where the worker is inside the backend
    live,          \* the dispatch loop still runs (no panic unwound it)
    packet,        \* the packet of the send in progress
    sent,          \* status and confirmed mask of the SendInput just made
    release,       \* locals of the release_scope invocation in progress
    outcome        \* the ReleaseAllOutcome returned, until the next call

masks == <<active, possibly_active, failed_release, in_flight>>
keyboard == <<down, injected, swallowed>>
vars == <<masks, last_error, keyboard, pc, live, packet, sent, release, outcome>>

Status == {"Complete", "PreparationRejected", "ZeroProgress",
           "IntegrityLost", "ClockFailureBeforeSend", "ClockFailureAfterSend"}
Scope == {"Tracked", "FullInstrument"}
Packet == [up : SUBSET Keys, down : SUBSET Keys]
NoPacket == [up |-> {}, down |-> {}]
Sent == [status : Status, confirmed : SUBSET Keys]
NoSent == [status |-> "Complete", confirmed |-> {}]
Release == [scope : Scope, requested : SUBSET Keys,
            unresolved : SUBSET Keys, attempt : 0 .. MaxAttempts]
Outcome == [attempted : SUBSET Keys, success : BOOLEAN,
            stuck : SUBSET Keys, inconclusive : BOOLEAN]
NoRelease == [scope |-> "Tracked", requested |-> {},
              unresolved |-> {}, attempt |-> 0]
Released(mask) == [attempted |-> mask, success |-> TRUE,
                   stuck |-> {}, inconclusive |-> FALSE]

\* Every key that still carries a release obligation.
release_obligation_mask == active \cup possibly_active \cup failed_release \cup in_flight

Init ==
    /\ active = {} /\ possibly_active = {} /\ failed_release = {} /\ in_flight = {}
    /\ last_error = FALSE
    /\ down = {} /\ injected = {} /\ swallowed = FALSE
    /\ pc = "idle"
    /\ live = TRUE
    /\ packet = NoPacket
    /\ sent = NoSent
    /\ release = NoRelease
    /\ outcome = Released({})

----------------------------------------------------------------------------
(***************************************************************************)
(* The transport: one SendInput call between two QPC reads.                *)
(***************************************************************************)

\* try_new_internal and valid_packet: the packets that can be prepared.
valid_packet(p) == /\ p.up \cap p.down = {}
                   /\ p.up \cup p.down # {}

\* SendInput inserts a prefix of the packet: all Up events in slot order,
\* then all Down events in slot order.
Prefixes(p) ==
    {ins \in SUBSET (p.up \cup p.down) :
        \A a \in ins, b \in p.up \cup p.down :
            \/ b \in p.up /\ a \in p.down
            \/ b < a /\ (b \in p.up \/ a \in p.down)
            => b \in ins}

\* classify_send_status: what the inserted events and the clock amount to.
\* GetLastError is read only after a short insertion.
classify_send_status(requested, inserted, clock) ==
    CASE clock = "before" -> "ClockFailureBeforeSend"
      [] clock = "after" -> "ClockFailureAfterSend"
      [] inserted = requested -> "Complete"
      [] inserted = {} -> "ZeroProgress"
      [] OTHER -> "IntegrityLost"

\* The ways one call for p can end: which events were inserted, which of
\* those took effect, and what the clock reads around the call did.
Calls(p) ==
    LET all == p.up \cup p.down
    IN  {c \in [inserted : Prefixes(p), effective : SUBSET all,
                clock : {"ok", "before", "after"}] :
            /\ c.effective \subseteq c.inserted
            /\ Transport = "perfect" => c.inserted = all /\ c.clock = "ok"
            /\ Transport # "lossy" => c.effective = c.inserted
            /\ c.clock = "before" => c.inserted = {}}

\* The call itself: status and evidence for the caller, events for the
\* keyboard.  confirmed_mask is the whole packet or nothing.
SendInput(p) ==
    \E c \in Calls(p) :
        LET status == classify_send_status(p.up \cup p.down, c.inserted, c.clock)
        IN  /\ sent' = [status |-> status,
                        confirmed |-> IF status = "Complete" THEN p.up \cup p.down ELSE {}]
            /\ down' = (down \ (p.up \cap c.effective)) \cup (p.down \cap c.effective)
            /\ injected' = (injected \ (p.up \cap c.effective)) \cup (p.down \cap c.effective)
            /\ swallowed' = (swallowed \/ c.effective # c.inserted)

\* No syscall is made: the state has no clock to bound the call with.
NoSend(status) == /\ sent' = [status |-> status, confirmed |-> {}]
                  /\ UNCHANGED keyboard

----------------------------------------------------------------------------
(***************************************************************************)
(* Sending a prepared packet.  The in-flight bits are set before the call  *)
(* and cleared by apply_packet_outcome after it; a panic in between leaves *)
(* them set for the finalizer.                                             *)
(***************************************************************************)

send_prepared_physical_packet_view(p) ==
    /\ pc = "idle" /\ live
    /\ valid_packet(p)
    /\ packet' = p
    /\ pc' = "sent"
    /\ IF HasClock
       THEN /\ in_flight' = in_flight \cup p.up \cup p.down
            /\ SendInput(p)
       ELSE NoSend("ZeroProgress") /\ UNCHANGED in_flight
    /\ outcome' = Released({})
    /\ UNCHANGED <<active, possibly_active, failed_release, last_error, live, release>>

\* Takes a clock failure after the send for a send that never happened.
Fault_UncertainStatus == {"IntegrityLost"}

\* The statuses after which any of the packet's keys may be down.
UncertainStatus == {"IntegrityLost", "ClockFailureAfterSend"}

\* A success clears last_error only when no failed release is left.
RetainedError(failed) == last_error /\ failed # {}

apply_packet_outcome ==
    LET union == packet.up \cup packet.down
        uncertain == sent.status \in UncertainStatus
        complete == sent.status = "Complete"
        \* The mask updates of the status match, before the failed-Up step.
        active1 == CASE complete -> (active \ packet.up) \cup packet.down
                     [] uncertain -> active \ union
                     [] OTHER -> active
        possibly1 == CASE complete -> possibly_active \ union
                       [] uncertain -> possibly_active \cup union
                       [] OTHER -> possibly_active
        failed1 == IF complete THEN failed_release \ packet.up ELSE failed_release
        failedUp == packet.up # {} /\ ~complete
    IN  /\ pc = "sent"
        /\ active' = IF failedUp THEN active1 \ sent.confirmed ELSE active1
        /\ possibly_active' = IF failedUp THEN possibly1 \ sent.confirmed ELSE possibly1
        /\ failed_release' = IF failedUp
                             THEN (failed1 \ sent.confirmed) \cup (packet.up \ sent.confirmed)
                             ELSE failed1
        /\ in_flight' = in_flight \ union
        /\ last_error' = (~complete \/ RetainedError(failed1))
        /\ pc' = "idle"
        /\ packet' = NoPacket /\ sent' = NoSent
        /\ UNCHANGED <<keyboard, live, release, outcome>>

----------------------------------------------------------------------------
(***************************************************************************)
(* The release state machine, release_scope.                               *)
(***************************************************************************)

release_scope(scope) ==
    LET requested == IF scope = "Tracked" THEN release_obligation_mask ELSE Keys
    IN  /\ pc = "idle"
        /\ outcome' = Released({})
        /\ IF requested = {}
           THEN UNCHANGED <<pc, release>>
           ELSE /\ pc' = "emit"
                /\ release' = [scope |-> scope, requested |-> requested,
                               unresolved |-> requested, attempt |-> 0]
        /\ UNCHANGED <<masks, last_error, keyboard, live, packet, sent>>

\* One Up event for every unresolved key, one SendInput, no retry inside.
do_emit_up_once ==
    /\ pc = "emit"
    /\ pc' = "probe"
    /\ IF HasClock
       THEN SendInput([up |-> release.unresolved, down |-> {}])
       ELSE NoSend("PreparationRejected")
    /\ release' = [release EXCEPT !.attempt = @ + 1]
    /\ UNCHANGED <<masks, last_error, live, packet, outcome>>

\* resolve_release_probe: the foreground-scoped key-state snapshot, or
\* nothing when the target lost the foreground or a key cannot be mapped.
Probes(requested) ==
    {[seen |-> "Inconclusive", held |-> {}],
     [seen |-> IF down \cap requested = {} THEN "AllUp" ELSE "Held",
      held |-> down \cap requested]}

\* Trusts the transport without looking at the keyboard.
Fault_Reconcile(requested, confirmed, probe) ==
    IF requested \subseteq confirmed
    THEN [verdict |-> "VerifiedAllUp", mask |-> {}]
    ELSE [verdict |-> "Inconclusive", mask |-> requested \ confirmed]

\* reconcile_logical_release_observation: transport confirmation and the
\* physical observation together decide which keys stay unresolved.
Reconcile(requested, confirmed, probe) ==
    CASE probe.seen = "AllUp" /\ requested \subseteq confirmed ->
            [verdict |-> "VerifiedAllUp", mask |-> {}]
      [] probe.seen = "AllUp" /\ ~(requested \subseteq confirmed) ->
            [verdict |-> "Inconclusive", mask |-> requested \ confirmed]
      [] probe.seen = "Held" /\ probe.held \subseteq requested /\ probe.held # {} ->
            [verdict |-> "Held", mask |-> requested \cap (probe.held \cup (Keys \ confirmed))]
      [] OTHER ->
            [verdict |-> "Inconclusive", mask |-> requested]

Exhausted == release.attempt = MaxAttempts

\* A malformed empty residual cannot discharge a nonempty request.
Normalized(previous, reconciled) ==
    IF reconciled.verdict # "VerifiedAllUp" /\ reconciled.mask = {}
    THEN [verdict |-> "Inconclusive", mask |-> previous]
    ELSE reconciled

\* An inconclusive release reports nothing stuck.
Fault_stuck_mask(final) == IF final.verdict = "Held" THEN final.mask ELSE {}

\* What a release that gives up reports and keeps as failed.
stuck_mask(final) == IF final.verdict = "VerifiedAllUp" THEN {} ELSE final.mask

\* The rest of one round: probe, reconcile, drop the resolved bits from all
\* four masks, and return or go round again.
reconcile_release ==
    /\ pc = "probe"
    /\ \E probe \in Probes(release.unresolved) :
        LET previous == release.unresolved
            final == Normalized(previous, Reconcile(previous, sent.confirmed, probe))
            verified == final.verdict = "VerifiedAllUp"
            resolved == previous \ final.mask
            failed1 == failed_release \ resolved
        IN  /\ active' = active \ resolved
            /\ possibly_active' = possibly_active \ resolved
            /\ in_flight' = in_flight \ resolved
            /\ failed_release' = IF Exhausted /\ ~verified
                                 THEN failed1 \cup stuck_mask(final) ELSE failed1
            /\ last_error' = IF verified THEN RetainedError(failed1)
                             ELSE last_error \/ Exhausted
            /\ IF verified \/ Exhausted
               THEN /\ pc' = "idle"
                    /\ release' = NoRelease
                    /\ outcome' = [attempted |-> release.requested,
                                   success |-> verified,
                                   stuck |-> stuck_mask(final),
                                   inconclusive |-> final.verdict = "Inconclusive"]
               ELSE /\ pc' = "emit"
                    /\ release' = [release EXCEPT !.unresolved = final.mask]
                    /\ UNCHANGED outcome
    /\ sent' = NoSent
    /\ UNCHANGED <<keyboard, live, packet>>

\* The worker unwinds out of the backend: after SendInput returned and
\* before its outcome was applied, or inside the release machine.  The
\* backend survives the unwind and goes to the finalizer, which only
\* releases.
WorkerPanic ==
    /\ pc # "idle"
    /\ pc' = "idle"
    /\ live' = FALSE
    /\ packet' = NoPacket /\ sent' = NoSent /\ release' = NoRelease
    /\ UNCHANGED <<masks, last_error, keyboard, outcome>>

\* The player's keyboard is also the user's.
UserPress(k) == /\ k \notin down
                /\ down' = down \cup {k}
                /\ UNCHANGED <<masks, last_error, injected, swallowed, pc, live, packet, sent, release, outcome>>
UserLift(k) == /\ k \in down
               /\ down' = down \ {k}
               /\ injected' = injected \ {k}
               /\ UNCHANGED <<masks, last_error, swallowed, pc, live, packet, sent, release, outcome>>

Next ==
    \/ \E p \in Packet : send_prepared_physical_packet_view(p)
    \/ apply_packet_outcome
    \/ \E scope \in Scope : release_scope(scope)
    \/ do_emit_up_once
    \/ reconcile_release
    \/ WorkerPanic
    \/ \E k \in Keys : UserPress(k) \/ UserLift(k)

Spec == Init /\ [][Next]_vars
----------------------------------------------------------------------------
(***************************************************************************)
(* Properties.                                                             *)
(***************************************************************************)

\* Every mask stays inside the instrument, and the release machine never
\* counts more rounds than its budget (the `for attempt_idx in 0..4' loop
\* of release_scope).
TypeOK ==
    /\ active \subseteq Keys /\ possibly_active \subseteq Keys
    /\ failed_release \subseteq Keys /\ in_flight \subseteq Keys
    /\ last_error \in BOOLEAN
    /\ down \subseteq Keys /\ injected \subseteq Keys /\ swallowed \in BOOLEAN
    /\ pc \in {"idle", "sent", "emit", "probe"}
    /\ live \in BOOLEAN
    /\ packet \in Packet
    /\ sent \in Sent
    /\ release \in Release
    /\ outcome \in Outcome

\* No key is held by the player without an obligation to release it:
\* whatever SendInput and the clock did, and wherever a panic struck, a key
\* that is down because of us is in release_obligation_mask, for as long as
\* every event that SendInput counted has taken effect.
HeldIsOwed == ~swallowed => injected \subseteq release_obligation_mask

\* A release of the tracked keys that reports success leaves nothing of ours
\* down, be it the empty request that returns at once or a request verified
\* after several rounds (release_state_verified is what the finalizer and
\* suspend_live_input trust), under the same condition.
TrackedReleaseClears ==
    [][~swallowed =>
        /\ release_scope("Tracked") /\ pc' = "idle" => injected' = {}
        /\ reconcile_release /\ pc' = "idle" /\ outcome'.success => injected' = {}]_vars

\* A failed release is never silent: while failed_release_mask is nonempty
\* last_error is set, whatever successful sends came in between.
FailedReleaseReported == failed_release # {} => last_error

\* Even when SendInput counts events that had no effect, a release that
\* reports success leaves none of the keys it was asked to release held.
VerifiedReleaseSound ==
    [][reconcile_release /\ pc' = "idle" /\ outcome'.success
        => injected' \cap outcome'.attempted = {}]_vars

\* A release that gives up names every requested key that is still held as
\* stuck, and keeps each of those as a failed release for the finalizer.
FailedReleaseAccounts ==
    [][reconcile_release /\ pc' = "idle" /\ ~outcome'.success
        => /\ outcome'.stuck # {}
           /\ injected' \cap outcome'.attempted \subseteq outcome'.stuck
           /\ outcome'.stuck \subseteq failed_release']_vars

\* The release machine drops an obligation only for a key whose Up the
\* transport confirmed and which the keyboard shows as up.
DischargedOnlyWhenUp ==
    [][reconcile_release
        => \A k \in release_obligation_mask \ release_obligation_mask' :
              k \in sent.confirmed /\ k \notin down]_vars
============================================================================
