------------------------- MODULE TrackedKeysProofs -------------------------
(***************************************************************************)
(* Proofs about TrackedKeys for every number of keys and release rounds,   *)
(* with or without a clock, and for every transport.  The results that     *)
(* compare the masks with the keyboard after a packet hold for as long as  *)
(* the events that SendInput counted have taken effect.                    *)
(***************************************************************************)
EXTENDS TrackedKeys, TLAPS

USE KeysAssumption, AttemptsAssumption, ClockAssumption, TransportAssumption

(***************************************************************************)
(* Type correctness.                                                       *)
(***************************************************************************)

\* The verdict a release round ends with, as reconcile_release computes it.
Final(probe) ==
    Normalized(release.unresolved,
               Reconcile(release.unresolved, sent.confirmed, probe))

\* What one round does to the masks and locals, given the snapshot taken.
RoundEffect(probe) ==
    LET final == Final(probe)
        verified == final.verdict = "VerifiedAllUp"
        resolved == release.unresolved \ final.mask
        failed1 == failed_release \ resolved
    IN  /\ active' = active \ resolved
        /\ possibly_active' = possibly_active \ resolved
        /\ in_flight' = in_flight \ resolved
        /\ failed_release' = IF Exhausted /\ ~verified
                             THEN failed1 \cup stuck_mask(final) ELSE failed1
        /\ last_error' = IF verified THEN RetainedError(failed1)
                         ELSE last_error \/ Exhausted
        /\ IF verified \/ Exhausted
           THEN /\ pc' = "idle"
                /\ release' = NoRelease
                /\ outcome' = [attempted |-> release.requested,
                               success |-> verified,
                               stuck |-> stuck_mask(final),
                               inconclusive |-> final.verdict = "Inconclusive"]
           ELSE /\ pc' = "emit"
                /\ release' = [release EXCEPT !.unresolved = final.mask]
                /\ UNCHANGED outcome

\* The attempt counter is below its budget whenever another round starts.
AttemptOK ==
    /\ pc = "emit" => release.attempt < MaxAttempts
    /\ pc = "probe" => release.attempt \in 1 .. MaxAttempts

TypeInv == TypeOK /\ AttemptOK

\* SendInput keeps the keyboard inside the instrument and returns a status.
LEMMA SendInputType ==
    ASSUME NEW p \in Packet, down \subseteq Keys, injected \subseteq Keys,
           SendInput(p)
    PROVE  sent' \in Sent /\ down' \subseteq Keys /\ injected' \subseteq Keys /\ swallowed' \in BOOLEAN
<1>1. PICK c \in Calls(p) :
        LET status == classify_send_status(p.up \cup p.down, c.inserted, c.clock)
        IN  /\ sent' = [status |-> status,
                        confirmed |-> IF status = "Complete" THEN p.up \cup p.down ELSE {}]
            /\ down' = (down \ (p.up \cap c.effective)) \cup (p.down \cap c.effective)
            /\ injected' = (injected \ (p.up \cap c.effective)) \cup (p.down \cap c.effective)
  BY DEF SendInput
<1>2. p.up \subseteq Keys /\ p.down \subseteq Keys
  BY DEF Packet
<1>3. classify_send_status(p.up \cup p.down, c.inserted, c.clock) \in Status
  BY DEF classify_send_status, Status
<1>4. sent' \in Sent
  BY <1>1, <1>2, <1>3 DEF Sent
<1>5. down' \subseteq Keys /\ injected' \subseteq Keys
  BY <1>1, <1>2
<1>6. swallowed' \in BOOLEAN
  BY Zenon DEF SendInput
<1> QED BY <1>4, <1>5, <1>6

\* What a round resolves is a subset of the request; a verified round
\* resolves all of it, and any other round keeps something of a nonempty
\* request (Normalized).
LEMMA FinalShape ==
    ASSUME NEW probe \in Probes(release.unresolved)
    PROVE  /\ Final(probe).mask \subseteq release.unresolved
           /\ Final(probe).verdict \in {"VerifiedAllUp", "Held", "Inconclusive"}
           /\ Final(probe).verdict = "VerifiedAllUp" => Final(probe).mask = {}
           /\ Final(probe).verdict # "VerifiedAllUp" /\ release.unresolved # {}
                => Final(probe).mask # {}
           /\ stuck_mask(Final(probe)) = Final(probe).mask
  BY DEF Final, Normalized, Reconcile, Probes, stuck_mask

\* A release round is RoundEffect of some snapshot.
LEMMA RoundShape ==
    ASSUME reconcile_release
    PROVE  \E probe \in Probes(release.unresolved) : RoundEffect(probe)
  BY DEF reconcile_release, RoundEffect, Final

\* A resolved key had its Up confirmed by the transport and is not held
\* according to the keyboard.
LEMMA ResolvedAreUp ==
    ASSUME NEW probe \in Probes(release.unresolved),
           release.unresolved \subseteq Keys,
           NEW k \in release.unresolved \ Final(probe).mask
    PROVE  k \in sent.confirmed /\ k \notin down
  BY DEF Final, Normalized, Reconcile, Probes

\* The values the locals of the backend have between calls are typed.
LEMMA NullValues ==
    /\ NoPacket \in Packet /\ NoSent \in Sent /\ NoRelease \in Release
    /\ \A m \in SUBSET Keys : Released(m) \in Outcome
  BY DEF NoPacket, NoSent, NoRelease, Released, Packet, Sent, Status, Release, Scope, Outcome

\* A ReleaseAllOutcome built from masks and flags is typed.
LEMMA OutcomeRecord ==
    ASSUME NEW a \in SUBSET Keys, NEW m \in SUBSET Keys,
           NEW ok \in BOOLEAN, NEW unsure \in BOOLEAN
    PROVE  [attempted |-> a, success |-> ok, stuck |-> m, inconclusive |-> unsure] \in Outcome
  BY DEF Outcome

\* The initial masks are empty.
LEMMA TypeInit == Init => TypeInv
<1> SUFFICES ASSUME Init PROVE TypeInv
  OBVIOUS
<1>1. packet \in Packet /\ sent \in Sent /\ release \in Release /\ outcome \in Outcome
  BY NullValues DEF Init
<1> QED BY <1>1 DEF Init, TypeInv, TypeOK, AttemptOK

\* Every step of the backend, of the keyboard's user and every panic keeps
\* the types.
LEMMA TypeStep == TypeInv /\ [Next]_vars => TypeInv'
<1> SUFFICES ASSUME TypeInv, [Next]_vars PROVE TypeInv'
  OBVIOUS
<1> USE DEF TypeInv
<1>1. ASSUME NEW p \in Packet, send_prepared_physical_packet_view(p) PROVE TypeInv'
  <2>1. sent' \in Sent /\ down' \subseteq Keys /\ injected' \subseteq Keys /\ swallowed' \in BOOLEAN
    <3>1. CASE HasClock
      BY <1>1, <3>1, SendInputType DEF send_prepared_physical_packet_view, TypeOK
    <3>2. CASE ~HasClock
      BY <1>1, <3>2 DEF send_prepared_physical_packet_view, TypeOK, NoSend, Sent, Status, keyboard
    <3> QED BY <3>1, <3>2
  <2>2. in_flight' \subseteq Keys
    BY <1>1 DEF send_prepared_physical_packet_view, TypeOK, Packet
  <2> QED BY NullValues, <1>1, <2>1, <2>2 DEF send_prepared_physical_packet_view, TypeOK, AttemptOK
<1>2. CASE apply_packet_outcome
  <2>1. /\ packet.up \subseteq Keys /\ packet.down \subseteq Keys
        /\ active \subseteq Keys /\ possibly_active \subseteq Keys
        /\ failed_release \subseteq Keys /\ in_flight \subseteq Keys
    BY DEF TypeOK, Packet
  <2>2. active' \subseteq Keys /\ possibly_active' \subseteq Keys
    BY <1>2, <2>1 DEF apply_packet_outcome
  <2>3. failed_release' \subseteq Keys /\ in_flight' \subseteq Keys
    BY <1>2, <2>1 DEF apply_packet_outcome
  <2>4. last_error' \in BOOLEAN
    BY <1>2, Zenon DEF apply_packet_outcome
  <2> QED BY NullValues, <1>2, <2>2, <2>3, <2>4 DEF apply_packet_outcome, TypeOK, AttemptOK, keyboard
<1>3. ASSUME NEW scope \in Scope, release_scope(scope) PROVE TypeInv'
  <2>1. release_obligation_mask \subseteq Keys
    BY DEF TypeOK, release_obligation_mask
  <2>2. release' \in Release /\ (pc' = "emit" => release'.attempt < MaxAttempts)
    BY <1>3, <2>1 DEF release_scope, TypeOK, AttemptOK, Release, Scope
  <2>3. pc' \in {"idle", "emit"}
    BY <1>3 DEF release_scope
  <2> QED BY NullValues, <1>3, <2>2, <2>3 DEF release_scope, TypeOK, AttemptOK, masks, keyboard
<1>4. CASE do_emit_up_once
  <2>1. [up |-> release.unresolved, down |-> {}] \in Packet
    BY DEF TypeOK, Release, Packet
  <2>2. sent' \in Sent /\ down' \subseteq Keys /\ injected' \subseteq Keys /\ swallowed' \in BOOLEAN
    <3>1. CASE HasClock
      BY <1>4, <2>1, <3>1, SendInputType DEF do_emit_up_once, TypeOK
    <3>2. CASE ~HasClock
      BY <1>4, <3>2 DEF do_emit_up_once, TypeOK, NoSend, Sent, Status, keyboard
    <3> QED BY <3>1, <3>2
  <2>3. release' \in Release /\ release'.attempt \in 1 .. MaxAttempts
    BY <1>4 DEF do_emit_up_once, TypeOK, AttemptOK, Release
  <2> QED BY <1>4, <2>2, <2>3 DEF do_emit_up_once, TypeOK, AttemptOK, masks
<1>5. CASE reconcile_release
  <2>1. PICK probe \in Probes(release.unresolved) : RoundEffect(probe)
    BY <1>5, RoundShape
  <2>2. /\ Final(probe).mask \subseteq release.unresolved
        /\ stuck_mask(Final(probe)) = Final(probe).mask
    BY FinalShape
  <2>3. release.unresolved \subseteq Keys /\ release.requested \subseteq Keys
    BY DEF TypeOK, Release
  <2>4. /\ active' \subseteq Keys /\ possibly_active' \subseteq Keys
        /\ failed_release' \subseteq Keys /\ in_flight' \subseteq Keys
    BY <2>1, <2>2, <2>3 DEF TypeOK, RoundEffect
  <2>5. last_error' \in BOOLEAN
    <3>1. last_error \in BOOLEAN
      BY DEF TypeOK
    <3> QED BY <2>1, <3>1, Zenon DEF RoundEffect, RetainedError, Exhausted
  <2>6. CASE Final(probe).verdict = "VerifiedAllUp" \/ Exhausted
    <3>1. outcome' \in Outcome
      <4>1. release.requested \in SUBSET Keys /\ stuck_mask(Final(probe)) \in SUBSET Keys
        BY <2>2, <2>3
      <4>2. outcome' = [attempted |-> release.requested,
                        success |-> Final(probe).verdict = "VerifiedAllUp",
                        stuck |-> stuck_mask(Final(probe)),
                        inconclusive |-> Final(probe).verdict = "Inconclusive"]
        BY <2>1, <2>6 DEF RoundEffect
      <4> QED BY <4>1, <4>2, OutcomeRecord, Zenon
    <3> QED BY NullValues, <1>5, <2>1, <2>4, <2>5, <2>6, <3>1
            DEF reconcile_release, RoundEffect, TypeOK, AttemptOK, keyboard
  <2>7. CASE ~(Final(probe).verdict = "VerifiedAllUp" \/ Exhausted)
    <3>1. release' \in Release /\ release'.attempt < MaxAttempts
      BY <1>5, <2>1, <2>2, <2>3, <2>7 DEF reconcile_release, RoundEffect, TypeOK, AttemptOK,
                                          Release, Exhausted
    <3> QED BY NullValues, <1>5, <2>1, <2>4, <2>5, <2>7, <3>1
            DEF reconcile_release, RoundEffect, TypeOK, AttemptOK, keyboard
  <2> QED BY <2>6, <2>7
<1>6. CASE WorkerPanic
  BY NullValues, <1>6 DEF WorkerPanic, TypeOK, AttemptOK, masks, keyboard
<1>7. ASSUME NEW k \in Keys, UserPress(k) \/ UserLift(k) PROVE TypeInv'
  BY <1>7 DEF UserPress, UserLift, TypeOK, AttemptOK, masks
<1>8. CASE UNCHANGED vars
  BY <1>8 DEF vars, masks, keyboard, TypeOK, AttemptOK
<1> QED BY <1>1, <1>2, <1>3, <1>4, <1>5, <1>6, <1>7, <1>8 DEF Next

\* Every mask stays inside the instrument and the release machine stays
\* within its rounds, for every NumKeys, MaxAttempts and transport: no shift
\* or union in send, apply_packet_outcome or release_scope leaves the
\* fifteen-bit instrument, and the attempt counter never overruns.
THEOREM TypeCorrect == Spec => []TypeOK
<1>1. TypeInv => TypeOK
  BY DEF TypeInv
<1> QED BY TypeInit, TypeStep, <1>1, PTL DEF Spec

(***************************************************************************)
(* Accounting of releases.                                                 *)
(***************************************************************************)

\* A failed release is never silent: as long as failed_release_mask is
\* nonempty, last_error is set, whatever the transport does.
THEOREM FailedReleaseIsReported == Spec => []FailedReleaseReported
<1>1. Init => FailedReleaseReported
  BY DEF Init, FailedReleaseReported
<1>2. FailedReleaseReported /\ [Next]_vars => FailedReleaseReported'
  <2> SUFFICES ASSUME FailedReleaseReported, [Next]_vars, failed_release' # {}
               PROVE  last_error'
    BY DEF FailedReleaseReported
  <2>1. CASE apply_packet_outcome
    BY <2>1, Zenon DEF apply_packet_outcome, FailedReleaseReported, RetainedError
  <2>2. CASE reconcile_release
    <3>1. PICK probe \in Probes(release.unresolved) : RoundEffect(probe)
      BY <2>2, RoundShape
    <3> DEFINE verified == Final(probe).verdict = "VerifiedAllUp"
               failed1 == failed_release \ (release.unresolved \ Final(probe).mask)
    <3>2. CASE verified
      <4>1. failed_release' = failed1 /\ last_error' = RetainedError(failed1)
        BY <3>1, <3>2 DEF RoundEffect
      <4> QED BY <4>1, Zenon DEF FailedReleaseReported, RetainedError
    <3>3. CASE ~verified /\ Exhausted
      <4>1. last_error' = (last_error \/ Exhausted)
        BY <3>1, <3>3, Zenon DEF RoundEffect
      <4> QED BY <4>1, <3>3
    <3>4. CASE ~verified /\ ~Exhausted
      <4>1. last_error' = (last_error \/ Exhausted)
        BY <3>1, <3>4, Zenon DEF RoundEffect
      <4>2. failed_release' = failed1
        BY <3>1, <3>4 DEF RoundEffect
      <4>3. failed_release # {}
        BY <4>2
      <4> QED BY <4>1, <4>3 DEF FailedReleaseReported
    <3> QED BY <3>2, <3>3, <3>4
  <2>3. CASE failed_release' = failed_release /\ last_error' = last_error
    BY <2>3 DEF FailedReleaseReported
  <2> QED BY <2>1, <2>2, <2>3 DEF Next, vars, masks, keyboard, WorkerPanic, UserPress,
             UserLift, release_scope, do_emit_up_once, send_prepared_physical_packet_view
<1> QED BY <1>1, <1>2, PTL DEF Spec

(***************************************************************************)
(* The release machine, on any transport.  While it runs, a requested key  *)
(* the player still holds is unresolved: nothing is injected during a      *)
(* release, and a key leaves the unresolved set only when the snapshot     *)
(* shows it up.                                                            *)
(***************************************************************************)

ReleaseOK ==
    pc \in {"emit", "probe"} =>
        /\ release.unresolved # {}
        /\ injected \cap release.requested \subseteq release.unresolved

RInv == /\ TypeInv
        /\ injected \subseteq down
        /\ ReleaseOK

\* Up events never press a key, and whatever a call injects is down.
LEMMA SendInputDown ==
    ASSUME NEW p, SendInput(p), injected \subseteq down
    PROVE  /\ injected' \subseteq down'
           /\ p.down = {} => injected' \subseteq injected
  BY DEF SendInput

\* Every step keeps what the release machine knows about its request.
LEMMA RStep == RInv /\ [Next]_vars => RInv'
<1> SUFFICES ASSUME RInv, [Next]_vars PROVE RInv'
  OBVIOUS
<1>0. TypeInv /\ TypeInv'
  BY TypeStep DEF RInv
<1> SUFFICES injected' \subseteq down' /\ ReleaseOK'
  BY <1>0 DEF RInv
<1> USE DEF RInv, ReleaseOK
<1>1. ASSUME NEW p \in Packet, send_prepared_physical_packet_view(p)
      PROVE  injected' \subseteq down' /\ ReleaseOK'
  <2>1. CASE HasClock
    BY <1>1, <2>1, SendInputDown DEF send_prepared_physical_packet_view
  <2>2. CASE ~HasClock
    BY <1>1, <2>2 DEF send_prepared_physical_packet_view, NoSend, keyboard
  <2> QED BY <2>1, <2>2
<1>2. CASE apply_packet_outcome
  BY <1>2 DEF apply_packet_outcome, keyboard
<1>3. ASSUME NEW scope \in Scope, release_scope(scope)
      PROVE  injected' \subseteq down' /\ ReleaseOK'
  BY <1>3 DEF release_scope, keyboard
<1>4. CASE do_emit_up_once
  <2>1. injected' \subseteq down' /\ injected' \subseteq injected
    <3>1. CASE HasClock
      BY <1>4, <3>1, SendInputDown DEF do_emit_up_once
    <3>2. CASE ~HasClock
      BY <1>4, <3>2 DEF do_emit_up_once, NoSend, keyboard
    <3> QED BY <3>1, <3>2
  <2>2. /\ release'.unresolved = release.unresolved
        /\ release'.requested = release.requested
    BY <1>0, <1>4 DEF do_emit_up_once, TypeInv, TypeOK, Release
  <2> QED BY <1>4, <2>1, <2>2 DEF do_emit_up_once
<1>5. CASE reconcile_release
  <2>1. PICK probe \in Probes(release.unresolved) : RoundEffect(probe)
    BY <1>5, RoundShape
  <2>2. pc = "probe" /\ UNCHANGED keyboard
    BY <1>5 DEF reconcile_release
  <2>3. release \in Release /\ release.unresolved \subseteq Keys
    BY <1>0 DEF TypeInv, TypeOK, Release
  <2>4. CASE pc' = "emit"
    <3>1. Final(probe).verdict # "VerifiedAllUp"
      BY <2>1, <2>4 DEF RoundEffect
    <3>2. /\ release'.unresolved = Final(probe).mask
          /\ release'.requested = release.requested
      BY <2>1, <2>3, <2>4 DEF RoundEffect, Release
    <3>3. Final(probe).mask # {}
      BY <2>2, <3>1, FinalShape
    <3>4. injected \cap release.requested \subseteq Final(probe).mask
      BY <2>2, <2>3, ResolvedAreUp
    <3> QED BY <2>2, <3>2, <3>3, <3>4 DEF keyboard
  <2>5. CASE pc' = "idle"
    BY <2>2, <2>5 DEF keyboard
  <2> QED BY <2>1, <2>4, <2>5 DEF RoundEffect
<1>6. CASE WorkerPanic
  BY <1>6 DEF WorkerPanic, keyboard
<1>7. ASSUME NEW k \in Keys, UserPress(k) \/ UserLift(k)
      PROVE  injected' \subseteq down' /\ ReleaseOK'
  BY <1>7 DEF UserPress, UserLift
<1>8. CASE UNCHANGED vars
  BY <1>8 DEF vars, keyboard
<1> QED BY <1>1, <1>2, <1>3, <1>4, <1>5, <1>6, <1>7, <1>8 DEF Next

\* The release machine's invariant holds on every transport.
LEMMA ReleaseInvariant == Spec => []RInv
<1>1. Init => RInv
  BY TypeInit DEF Init, RInv, ReleaseOK
<1> QED BY <1>1, RStep, PTL DEF Spec

\* Even when SendInput counts events that have no effect, a release that
\* reports success leaves none of the requested keys held by the player.
THEOREM VerifiedReleaseIsSound == Spec => VerifiedReleaseSound
<1>1. ASSUME RInv, reconcile_release, pc' = "idle", outcome'.success
      PROVE  injected' \cap outcome'.attempted = {}
  <2>1. PICK probe \in Probes(release.unresolved) : RoundEffect(probe)
    BY <1>1, RoundShape
  <2>0. outcome' = [attempted |-> release.requested,
                    success |-> Final(probe).verdict = "VerifiedAllUp",
                    stuck |-> stuck_mask(Final(probe)),
                    inconclusive |-> Final(probe).verdict = "Inconclusive"]
    BY <1>1, <2>1 DEF RoundEffect
  <2>2. /\ outcome'.attempted = release.requested
        /\ outcome'.success <=> Final(probe).verdict = "VerifiedAllUp"
    BY <2>0, Zenon
  <2>3. Final(probe).mask = {}
    BY <1>1, <2>2, FinalShape
  <2>4. /\ pc = "probe" /\ injected' = injected
        /\ release.unresolved \subseteq Keys
    BY <1>1 DEF reconcile_release, keyboard, RInv, TypeInv, TypeOK, Release
  <2>5. injected \cap release.requested \subseteq {}
    BY <1>1, <2>3, <2>4, ResolvedAreUp DEF RInv, ReleaseOK
  <2> QED BY <2>2, <2>4, <2>5
<1>2. RInv => [reconcile_release /\ pc' = "idle" /\ outcome'.success
                => injected' \cap outcome'.attempted = {}]_vars
  BY <1>1
<1> QED BY <1>2, ReleaseInvariant, PTL DEF VerifiedReleaseSound

\* A release that gives up names every requested key still held as stuck and
\* retains it as a failed release, on every transport.
THEOREM FailedReleaseIsAccounted == Spec => FailedReleaseAccounts
<1>1. ASSUME RInv, reconcile_release, pc' = "idle", ~outcome'.success
      PROVE  /\ outcome'.stuck # {}
             /\ injected' \cap outcome'.attempted \subseteq outcome'.stuck
             /\ outcome'.stuck \subseteq failed_release'
  <2>1. PICK probe \in Probes(release.unresolved) : RoundEffect(probe)
    BY <1>1, RoundShape
  <2>0. outcome' = [attempted |-> release.requested,
                    success |-> Final(probe).verdict = "VerifiedAllUp",
                    stuck |-> stuck_mask(Final(probe)),
                    inconclusive |-> Final(probe).verdict = "Inconclusive"]
    BY <1>1, <2>1 DEF RoundEffect
  <2>2. /\ outcome'.attempted = release.requested
        /\ outcome'.stuck = Final(probe).mask
        /\ outcome'.success <=> Final(probe).verdict = "VerifiedAllUp"
    BY <2>0, FinalShape, Zenon
  <2>3. Final(probe).verdict # "VerifiedAllUp"
    BY <1>1, <2>2
  <2>4. /\ pc = "probe" /\ injected' = injected
        /\ release.unresolved \subseteq Keys /\ release.unresolved # {}
    BY <1>1 DEF reconcile_release, keyboard, RInv, TypeInv, TypeOK, Release, ReleaseOK
  <2>5. Final(probe).mask # {}
    BY <2>3, <2>4, FinalShape
  <2>6. injected \cap release.requested \subseteq Final(probe).mask
    BY <1>1, <2>4, ResolvedAreUp DEF RInv, ReleaseOK
  <2>7. Final(probe).mask \subseteq failed_release'
    BY <1>1, <2>1, <2>3, FinalShape DEF RoundEffect
  <2> QED BY <2>2, <2>4, <2>5, <2>6, <2>7
<1>2. RInv => [reconcile_release /\ pc' = "idle" /\ ~outcome'.success
                => /\ outcome'.stuck # {}
                   /\ injected' \cap outcome'.attempted \subseteq outcome'.stuck
                   /\ outcome'.stuck \subseteq failed_release']_vars
  BY <1>1
<1> QED BY <1>2, ReleaseInvariant, PTL DEF FailedReleaseAccounts

\* The release machine drops an obligation only for a key whose Up was
\* confirmed and which the keyboard shows as up.
THEOREM ObligationsDischargedOnlyWhenUp == Spec => DischargedOnlyWhenUp
<1>1. ASSUME RInv, reconcile_release,
             NEW k \in release_obligation_mask \ release_obligation_mask'
      PROVE  k \in sent.confirmed /\ k \notin down
  <2>1. PICK probe \in Probes(release.unresolved) : RoundEffect(probe)
    BY <1>1, RoundShape
  <2>2. k \in release.unresolved \ Final(probe).mask
    BY <1>1, <2>1 DEF RoundEffect, release_obligation_mask
  <2>3. release.unresolved \subseteq Keys
    BY <1>1 DEF RInv, TypeInv, TypeOK, Release
  <2> QED BY <2>2, <2>3, ResolvedAreUp
<1>2. RInv => [reconcile_release
                => \A k \in release_obligation_mask \ release_obligation_mask' :
                      k \in sent.confirmed /\ k \notin down]_vars
  BY <1>1
<1> QED BY <1>2, ReleaseInvariant, PTL DEF DischargedOnlyWhenUp

(***************************************************************************)
(* The masks and the keyboard, on a transport whose inserted events take   *)
(* effect.                                                                 *)
(***************************************************************************)

\* The obligations apart from those of the packet in flight.
Owed == active \cup possibly_active \cup failed_release

\* Between the SendInput and apply_packet_outcome: what the status says
\* about the keyboard.
PacketOK ==
    pc = "sent" =>
        /\ live
        /\ in_flight \subseteq packet.up \cup packet.down
        /\ sent.status = "Complete"
             => injected \subseteq (Owed \ packet.up) \cup packet.down
        /\ sent.status \in UncertainStatus
             => injected \subseteq Owed \cup packet.up \cup packet.down
        /\ sent.status \notin UncertainStatus \cup {"Complete"}
             => injected \subseteq Owed
        /\ sent.status # "Complete" => sent.confirmed = {}

\* Outside a send the in-flight bits are clear, until a panic strands them.
InFlightOK == live /\ pc # "sent" => in_flight = {}

\* A running release was asked about every key the player holds.
RequestOK == pc \in {"emit", "probe"} => injected \subseteq release.requested

HInv == /\ RInv
        /\ ~swallowed => /\ HeldIsOwed
                         /\ PacketOK
                         /\ InFlightOK
                         /\ RequestOK

\* What one call does to the keys the player holds, by its status.
LEMMA SendInputHeld ==
    ASSUME ~swallowed', NEW p \in Packet, SendInput(p)
    PROVE  /\ injected' \subseteq injected \cup p.up \cup p.down
           /\ sent'.status = "Complete"
                => injected' \subseteq (injected \ p.up) \cup p.down
           /\ sent'.status \notin UncertainStatus \cup {"Complete"}
                => injected' \subseteq injected
           /\ sent'.status # "Complete" => sent'.confirmed = {}
<1>1. PICK c \in Calls(p) :
        LET status == classify_send_status(p.up \cup p.down, c.inserted, c.clock)
        IN  /\ sent' = [status |-> status,
                        confirmed |-> IF status = "Complete" THEN p.up \cup p.down ELSE {}]
            /\ injected' = (injected \ (p.up \cap c.effective)) \cup (p.down \cap c.effective)
            /\ swallowed' = (swallowed \/ c.effective # c.inserted)
  BY DEF SendInput
<1>2. /\ c.effective = c.inserted
      /\ c.clock \in {"ok", "before", "after"}
      /\ c.clock = "before" => c.inserted = {}
  BY <1>1 DEF Calls
<1>3. sent'.status = classify_send_status(p.up \cup p.down, c.inserted, c.clock)
  BY <1>1
<1>4. sent'.status = "Complete" => c.inserted = p.up \cup p.down
  BY <1>3 DEF classify_send_status
<1>5. sent'.status \notin UncertainStatus \cup {"Complete"} => c.inserted = {}
  BY <1>2, <1>3 DEF classify_send_status, UncertainStatus
<1> QED BY <1>1, <1>2, <1>4, <1>5

\* An event that had no effect is remembered.
LEMMA SwallowedStays == [Next]_vars /\ ~swallowed' => ~swallowed
<1>1. ASSUME NEW p, SendInput(p), ~swallowed' PROVE ~swallowed
  BY <1>1 DEF SendInput
<1> QED BY <1>1 DEF Next, vars, keyboard, send_prepared_physical_packet_view, apply_packet_outcome,
          release_scope, do_emit_up_once, NoSend, reconcile_release, WorkerPanic, UserPress, UserLift

\* Every step keeps the relation between the masks and the keyboard.
LEMMA HStep == HInv /\ [Next]_vars => HInv'
<1> SUFFICES ASSUME HInv, [Next]_vars PROVE HInv'
  OBVIOUS
<1>0. RInv /\ RInv'
  BY RStep DEF HInv
<1> DEFINE Good == HeldIsOwed /\ PacketOK /\ InFlightOK /\ RequestOK
<1> SUFFICES ASSUME ~swallowed' PROVE Good'
  BY <1>0 DEF HInv
<1>s. ~swallowed
  BY SwallowedStays
<1>a. Good
  BY <1>s DEF HInv
<1> USE <1>s DEF HeldIsOwed, release_obligation_mask, Owed
<1>1. ASSUME NEW p \in Packet, send_prepared_physical_packet_view(p) PROVE Good'
  <2>1. in_flight = {} /\ injected \subseteq Owed
    BY <1>1, <1>a DEF send_prepared_physical_packet_view, InFlightOK
  <2>2. pc' = "sent" /\ live' /\ packet' = p /\ Owed' = Owed
    BY <1>1 DEF send_prepared_physical_packet_view
  <2>3. CASE HasClock
    <3>1. SendInput(p) /\ in_flight' = p.up \cup p.down
      BY <1>1, <2>1, <2>3 DEF send_prepared_physical_packet_view
    <3> QED BY <2>1, <2>2, <3>1, SendInputHeld DEF PacketOK, InFlightOK, RequestOK
  <2>4. CASE ~HasClock
    <3>1. /\ in_flight' = {} /\ injected' = injected
          /\ sent' = [status |-> "ZeroProgress", confirmed |-> {}]
      BY <1>1, <2>1, <2>4 DEF send_prepared_physical_packet_view, NoSend, keyboard
    <3> QED BY <2>1, <2>2, <3>1 DEF PacketOK, InFlightOK, RequestOK, UncertainStatus
  <2> QED BY <2>3, <2>4
<1>2. CASE apply_packet_outcome
  <2>1. pc = "sent" /\ pc' = "idle" /\ injected' = injected /\ live' = live
    BY <1>2 DEF apply_packet_outcome, keyboard
  <2>2. in_flight' = {}
    BY <1>2, <1>a, <2>1 DEF apply_packet_outcome, PacketOK
  <2>3. CASE sent.status = "Complete"
    BY <1>2, <1>a, <2>1, <2>2, <2>3
       DEF apply_packet_outcome, PacketOK, InFlightOK, RequestOK, UncertainStatus
  <2>4. CASE sent.status \in UncertainStatus
    BY <1>2, <1>a, <2>1, <2>2, <2>4
       DEF apply_packet_outcome, PacketOK, InFlightOK, RequestOK, UncertainStatus
  <2>5. CASE sent.status \notin UncertainStatus \cup {"Complete"}
    BY <1>2, <1>a, <2>1, <2>2, <2>5
       DEF apply_packet_outcome, PacketOK, InFlightOK, RequestOK
  <2> QED BY <2>3, <2>4, <2>5
<1>3. ASSUME NEW scope \in Scope, release_scope(scope) PROVE Good'
  <2>1. injected \subseteq Keys
    BY <1>0 DEF RInv, TypeInv, TypeOK
  <2> QED BY <1>3, <1>a, <2>1
          DEF release_scope, PacketOK, InFlightOK, RequestOK, masks, keyboard
<1>4. CASE do_emit_up_once
  <2>1. injected' \subseteq injected
    <3>1. CASE HasClock
      BY <1>0, <1>4, <3>1, SendInputDown DEF do_emit_up_once, RInv
    <3>2. CASE ~HasClock
      BY <1>4, <3>2 DEF do_emit_up_once, NoSend, keyboard
    <3> QED BY <3>1, <3>2
  <2>2. release'.requested = release.requested
    BY <1>0, <1>4 DEF do_emit_up_once, RInv, TypeInv, TypeOK, Release
  <2> QED BY <1>4, <1>a, <2>1, <2>2 DEF do_emit_up_once, PacketOK, InFlightOK, RequestOK, masks
<1>5. CASE reconcile_release
  <2>1. PICK probe \in Probes(release.unresolved) : RoundEffect(probe)
    BY <1>5, RoundShape
  <2>2. pc = "probe" /\ injected' = injected /\ live' = live /\ injected \subseteq down
    BY <1>0, <1>5 DEF reconcile_release, keyboard, RInv
  <2>3. injected \cap (release.unresolved \ Final(probe).mask) = {}
    BY <1>0, <2>2, ResolvedAreUp DEF RInv, TypeInv, TypeOK, Release
  <2>4. HeldIsOwed' /\ InFlightOK'
    BY <1>a, <2>1, <2>2, <2>3 DEF RoundEffect, InFlightOK
  <2>5. pc' \in {"idle", "emit"}
        /\ (pc' = "emit" => release'.requested = release.requested)
    BY <1>0, <2>1 DEF RoundEffect, RInv, TypeInv, TypeOK, Release
  <2> QED BY <1>a, <2>2, <2>4, <2>5 DEF PacketOK, RequestOK
<1>6. CASE WorkerPanic
  BY <1>6, <1>a DEF WorkerPanic, PacketOK, InFlightOK, RequestOK, masks, keyboard
<1>7. ASSUME NEW k \in Keys, UserPress(k) \/ UserLift(k) PROVE Good'
  <2>1. injected' \subseteq injected
    BY <1>7 DEF UserPress, UserLift
  <2> QED BY <1>7, <1>a, <2>1
          DEF UserPress, UserLift, PacketOK, InFlightOK, RequestOK, masks
<1>8. CASE UNCHANGED vars
  BY <1>8, <1>a DEF vars, masks, keyboard, PacketOK, InFlightOK, RequestOK
<1> QED BY <1>1, <1>2, <1>3, <1>4, <1>5, <1>6, <1>7, <1>8 DEF Next

\* The invariant that relates masks and keyboard, when events take effect.
LEMMA HeldInvariant == Spec => []HInv
<1>1. Init => HInv
  BY TypeInit DEF Init, HInv, RInv, ReleaseOK, HeldIsOwed, PacketOK, InFlightOK, RequestOK
<1>2. HInv /\ [Next]_vars => HInv'
  BY HStep
<1> QED BY <1>1, <1>2, PTL DEF Spec

\* No key is held by the player without a release obligation, for any number
\* of keys, whatever prefix SendInput inserts, wherever the clock fails and
\* wherever a panic unwinds the worker.
THEOREM EveryHeldKeyIsOwed == Spec => []HeldIsOwed
<1>1. Spec => []HInv
  BY HeldInvariant
<1>2. HInv => HeldIsOwed
  BY DEF HInv, HeldIsOwed
<1> QED BY <1>1, <1>2, PTL

\* A release that reports success leaves nothing of the player's down: the
\* empty tracked request that returns at once, and any request whose last
\* round was verified.
THEOREM TrackedReleaseLeavesNothing == Spec => TrackedReleaseClears
<1>1. Spec => []HInv
  BY HeldInvariant
<1>2. ASSUME HInv, ~swallowed, release_scope("Tracked"), pc' = "idle" PROVE injected' = {}
  BY <1>2 DEF release_scope, HInv, HeldIsOwed, keyboard
<1>3. ASSUME HInv, ~swallowed, reconcile_release, pc' = "idle", outcome'.success PROVE injected' = {}
  <2>1. PICK probe \in Probes(release.unresolved) : RoundEffect(probe)
    BY <1>3, RoundShape
  <2>2. outcome' = [attempted |-> release.requested,
                    success |-> Final(probe).verdict = "VerifiedAllUp",
                    stuck |-> stuck_mask(Final(probe)),
                    inconclusive |-> Final(probe).verdict = "Inconclusive"]
    BY <1>3, <2>1 DEF RoundEffect
  <2>3. Final(probe).verdict = "VerifiedAllUp"
    BY <1>3, <2>2, Zenon
  <2>4. /\ pc = "probe" /\ injected' = injected /\ injected \subseteq down
        /\ release.unresolved \subseteq Keys /\ injected \subseteq release.requested
        /\ injected \cap release.requested \subseteq release.unresolved
    BY <1>3 DEF reconcile_release, keyboard, HInv, RInv, TypeInv, TypeOK, Release,
                ReleaseOK, RequestOK
  <2>5. Final(probe).mask = {}
    BY <2>3, FinalShape
  <2> QED BY <2>4, <2>5, ResolvedAreUp
<1>4. HInv => [~swallowed =>
                  /\ release_scope("Tracked") /\ pc' = "idle" => injected' = {}
                  /\ reconcile_release /\ pc' = "idle" /\ outcome'.success
                        => injected' = {}]_vars
  BY <1>2, <1>3
<1> QED BY <1>1, <1>4, PTL DEF TrackedReleaseClears
============================================================================
