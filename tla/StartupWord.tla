---------------------------- MODULE StartupWord ----------------------------
(***************************************************************************)
(* The startup publication word (sky_player/src/engine/shared/startup.rs): *)
(* one AtomicU32 that holds the startup phase, the abort reason, the two   *)
(* evidence bits and the suspend latch.  Packing is injective on the       *)
(* values the program stores, so the word is the record of its fields and  *)
(* a compare-exchange compares records.                                    *)
(***************************************************************************)

Phase == {"Idle", "Preparing", "Ready", "Arming", "Armed", "Cancelled", "Failed"}

\* The reasons that a later suspend does not displace.
ErrorReason == {"PanicRelease", "SupervisorLeaseExpired", "FocusInvalidated",
                "TargetInvalidated", "OwnerInvalidated", "WorkerFailure"}
Reason == {"None", "Quit", "Skip", "SystemSuspend"} \cup ErrorReason

\* Phases that a cancellation or a failure can still replace.
PreArm == {"Idle", "Preparing", "Ready", "Arming"}

Word == [phase : Phase, reason : Reason, ready : BOOLEAN, armed : BOOLEAN,
         suspend : BOOLEAN]

\* startup_word with the suspend bit clear.
startup_word(phase, reason, ready, armed) ==
    [phase |-> phase, reason |-> reason, ready |-> ready, armed |-> armed,
     suspend |-> FALSE]

IdleWord == startup_word("Idle", "None", FALSE, FALSE)

\* decode_startup_word: the reason readers see.  The latch displaces a user's
\* reason and never an error.
abort_reason(w) ==
    IF w.suspend /\ w.reason \notin ErrorReason THEN "SystemSuspend" ELSE w.reason

\* move_startup_phase gives up on a word that left the expected phase or
\* carries the latch.
movable(w, from) == w.phase = from /\ ~w.suspend

\* The worker's four moves: begin_preparing, publish_ready, begin_arming and
\* publish_armed, and the word each of them stores.
NextPhase(phase) ==
    CASE phase = "Idle" -> "Preparing"
      [] phase = "Preparing" -> "Ready"
      [] phase = "Ready" -> "Arming"
      [] phase = "Arming" -> "Armed"
moved(w) ==
    LET to == NextPhase(w.phase)
    IN  [phase |-> to, reason |-> "None", ready |-> to # "Preparing",
         armed |-> to = "Armed", suspend |-> w.suspend]

\* cancel_startup_before_arm: a user's reason yields to the latch.
cancellable(w, reason) ==
    /\ w.suspend => reason = "SystemSuspend" \/ reason \in ErrorReason
    /\ w.phase \in PreArm
cancelled(w, reason) == [w EXCEPT !.phase = "Cancelled", !.reason = reason]

\* fail: a startup failure also replaces only a pre-arm phase.
failed(w, reason) == [w EXCEPT !.phase = "Failed", !.reason = reason]
============================================================================
