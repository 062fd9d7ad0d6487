------------------------------ MODULE Activity ------------------------------
(***************************************************************************)
(* ActivityCoordinator (apps/desktop/src-tauri/src/app_state.rs): the      *)
(* admission authority for everything that may own the physical keyboard.  *)
(* Every operation runs under one mutex, so each is one step.              *)
(***************************************************************************)
CONSTANTS
    Sessions,    \* identities of playback sessions
    NoSession

VARIABLE activity

ActivityTypeOK ==
    activity \in [physical_playback : Sessions \cup {NoSession},
                  quarantined : BOOLEAN, calibration : BOOLEAN,
                  update : BOOLEAN, closing : BOOLEAN]

ActivityInit ==
    activity = [physical_playback |-> NoSession, quarantined |-> FALSE,
                calibration |-> FALSE, update |-> FALSE, closing |-> FALSE]

\* What the three reservations ask, whatever the order of their refusals.
reservable ==
    /\ ~activity.closing
    /\ ~activity.quarantined
    /\ ~activity.calibration
    /\ ~activity.update
    /\ activity.physical_playback = NoSession

reserve_playback(s) ==
    reservable /\ activity' = [activity EXCEPT !.physical_playback = s]
reserve_calibration == reservable /\ activity' = [activity EXCEPT !.calibration = TRUE]
reserve_update == reservable /\ activity' = [activity EXCEPT !.update = TRUE]

\* Dropping a lease; a session that does not own the reservation leaves it.
release_playback(s) ==
    activity' = IF activity.physical_playback = s
                THEN [activity EXCEPT !.physical_playback = NoSession]
                ELSE activity
release_calibration == activity' = [activity EXCEPT !.calibration = FALSE]
release_update == activity' = [activity EXCEPT !.update = FALSE]

\* quarantine_playback: refused while another session owns the reservation.
quarantinable(s) == activity.physical_playback \in {s, NoSession}
quarantine_playback(s) ==
    /\ quarantinable(s)
    /\ activity' = [activity EXCEPT !.physical_playback = NoSession,
                                    !.quarantined = TRUE]

begin_shutdown == activity' = [activity EXCEPT !.closing = TRUE]
============================================================================
