--------------------------- MODULE Presentation ---------------------------
(***************************************************************************)
(* What a playback session tells the user interface, and how it ends       *)
(* (native_runtime/playback/presentation.rs): the supervisor hands states, *)
(* snapshots and at last the finalization to a consumer thread through a   *)
(* bounded queue and a one-frame slot; the consumer publishes them to the  *)
(* event hub and retires the session when the terminal event is in.        *)
(*                                                                         *)
(* One session.  An action is what a thread does between two accesses of   *)
(* state another thread uses; locks are only tried, so that a lock held    *)
(* elsewhere is a choice.  `failed' is stored just before `closed' and     *)
(* read together with it: the model has one flag, `closed'.                *)
(***************************************************************************)
EXTENDS EventHub

CONSTANTS
    CriticalCapacity,   \* PLAYBACK_PRESENTATION_CRITICAL_CAPACITY, 64
    MaxStates,          \* bound on state changes of the session
    MaxSnapshots,       \* bound on snapshots of the session
    MaxOther            \* bound on lifecycle events of other components

ASSUME PresentationAssumption ==
    /\ CriticalCapacity \in Nat \ {0}
    /\ MaxStates \in Nat /\ MaxSnapshots \in Nat /\ MaxOther \in Nat

VARIABLES
    queue,      \* PlaybackPresentationQueue and the channel of critical messages
    unsettled,  \* snapshots handed over, neither published nor counted as dropped
    mon,        \* the supervisor thread
    con,        \* the consumer thread
    left,       \* what the bounds leave: states, snapshots, others
    terminal,   \* the terminal event is in the hub
    retired     \* the session has left the active slot (done)

vars == <<hubvars, queue, unsettled, mon, con, left, terminal, retired>>

None == [kind |-> "none", order |-> 0]
Message(kind, order) == [kind |-> kind, order |-> order]

Init ==
    /\ HubInit
    /\ queue = [closed |-> FALSE, order |-> 0, critical |-> <<>>, latest |-> 0,
                receiver |-> TRUE]
    /\ unsettled = 0
    /\ mon = [pc |-> "loop", message |-> None, failed |-> FALSE]
    /\ con = [pc |-> "receive", critical |-> None, snapshot |-> 0, work |-> None]
    /\ left = [states |-> MaxStates, snapshots |-> MaxSnapshots, others |-> MaxOther]
    /\ terminal = FALSE /\ retired = FALSE

order == queue.order + 1

----------------------------------------------------------------------------
(***************************************************************************)
(* The supervisor thread.                                                  *)
(***************************************************************************)

\* It sees the flag that anybody may have set, and stops the player.
observe_failure ==
    /\ mon.pc = "loop" /\ ~mon.failed /\ delivery_failure
    /\ mon' = [mon EXCEPT !.failed = TRUE]
    /\ quit' = TRUE
    /\ UNCHANGED <<hub, delivery_failure, publisher, published, received, queue, unsettled,
                   con, left, terminal, retired>>

\* try_publish_critical, first half: a closed queue rejects the message.
Critical(kind) ==
    /\ mon.pc = "loop"
    /\ mon' = [mon EXCEPT !.pc = IF queue.closed THEN "reject" ELSE "send",
                          !.message = Message(kind, order)]
    /\ queue' = [queue EXCEPT !.order = order]
    /\ UNCHANGED <<hubvars, unsettled, con, terminal, retired>>

\* The notice that the session is stopping is sent even after a failure.
publish_state ==
    /\ left.states > 0
    /\ left' = [left EXCEPT !.states = @ - 1]
    /\ Critical("State")

\* The worker has ended and its keys are released or quarantined.
finalize == Critical("Finalize") /\ UNCHANGED left

full == Len(queue.critical) >= CriticalCapacity

\* The second half: the message enters the queue, or comes back.
try_send ==
    /\ mon.pc = "send"
    /\ IF ~queue.receiver \/ full
       THEN /\ mon' = [mon EXCEPT !.pc = "reject"]
            /\ UNCHANGED queue
       ELSE /\ queue' = [queue EXCEPT !.critical = Append(@, mon.message)]
            /\ mon' = [mon EXCEPT !.pc = IF mon.message.kind = "Finalize" THEN "done" ELSE "loop",
                                  !.message = None]
    /\ UNCHANGED <<hubvars, unsettled, con, left, terminal, retired>>

\* fail, record_failure: nothing more is taken.
close_queue ==
    /\ mon.pc = "reject"
    /\ queue' = [queue EXCEPT !.closed = TRUE]
    /\ mon' = [mon EXCEPT !.pc = "fail"]
    /\ UNCHANGED <<hubvars, unsettled, con, left, terminal, retired>>

\* The rest of fail, and the completion of a rejected finalization.
fail ==
    /\ mon.pc = "fail"
    /\ delivery_failure' = TRUE
    /\ quit' = TRUE
    /\ retired' = (retired \/ mon.message.kind = "Finalize")
    /\ mon' = [pc |-> IF mon.message.kind = "Finalize" THEN "done" ELSE "loop",
               message |-> None, failed |-> TRUE]
    /\ UNCHANGED <<hub, publisher, published, received, queue, unsettled, con, left, terminal>>

\* publish_snapshot up to the slot's lock; nothing is asked of a closed queue.
publish_snapshot ==
    /\ mon.pc = "loop" /\ ~mon.failed
    /\ left.snapshots > 0
    /\ left' = [left EXCEPT !.snapshots = @ - 1]
    /\ ~queue.closed /\ ~retired
    /\ mon' = [mon EXCEPT !.pc = "slot", !.message = Message("Snapshot", order)]
    /\ queue' = [queue EXCEPT !.order = order]
    /\ unsettled' = unsettled + 1
    /\ UNCHANGED <<hubvars, con, terminal, retired>>

\* Only the first look at the flag counts.
Fault_recheck == FALSE

\* The second look at the flag, under the slot's lock.
recheck == queue.closed \/ retired

\* The frame replaces the one nobody fetched; one of the two is dropped.
fill_slot ==
    /\ mon.pc = "slot"
    /\ ~recheck
    /\ queue' = [queue EXCEPT !.latest = mon.message.order]
    /\ unsettled' = IF queue.latest # 0 THEN unsettled - 1 ELSE unsettled
    /\ mon' = [mon EXCEPT !.pc = "loop", !.message = None]
    /\ UNCHANGED <<hubvars, con, left, terminal, retired>>

\* The slot's lock is held, or the queue is closed by now: dropped.
drop_snapshot ==
    /\ mon.pc = "slot"
    /\ unsettled' = unsettled - 1
    /\ mon' = [mon EXCEPT !.pc = "loop", !.message = None]
    /\ UNCHANGED <<hubvars, queue, con, left, terminal, retired>>

----------------------------------------------------------------------------
(***************************************************************************)
(* The consumer thread.                                                    *)
(***************************************************************************)

ConsumerOnly == UNCHANGED <<mon, left>>

\* try_recv, if no critical message is waiting for its turn.
receive ==
    /\ con.pc = "receive"
    /\ IF con.critical.kind = "none" /\ queue.critical # <<>>
       THEN /\ con' = [con EXCEPT !.critical = Head(queue.critical), !.pc = "take"]
            /\ queue' = [queue EXCEPT !.critical = Tail(@)]
       ELSE con' = [con EXCEPT !.pc = "take"] /\ UNCHANGED queue
    /\ ConsumerOnly /\ UNCHANGED <<hubvars, unsettled, terminal, retired>>

\* The slot is emptied, unless its lock is held: a newer frame supersedes.
take_snapshot ==
    /\ con.pc = "take"
    /\ \/ /\ con' = [con EXCEPT !.pc = "choose"]
          /\ UNCHANGED <<queue, unsettled>>
       \/ /\ queue.latest # 0
          /\ con' = [con EXCEPT !.pc = "choose", !.snapshot = queue.latest]
          /\ queue' = [queue EXCEPT !.latest = 0]
          /\ unsettled' = IF con.snapshot # 0 THEN unsettled - 1 ELSE unsettled
    /\ ConsumerOnly /\ UNCHANGED <<hubvars, terminal, retired>>

\* Parks without a look at the flag.
Fault_choose ==
    /\ con.pc = "choose"
    /\ LET critical == con.critical.kind # "none"
           snapshot == con.snapshot # 0
           first == critical /\ (snapshot => con.critical.order <= con.snapshot)
       IN  con' = CASE first ->
                         [con EXCEPT !.pc = "work", !.work = con.critical, !.critical = None]
                    [] ~first /\ snapshot ->
                         [con EXCEPT !.pc = "work", !.work = Message("Snapshot", con.snapshot),
                                     !.snapshot = 0]
                    [] OTHER -> [con EXCEPT !.pc = "receive"]
    /\ ConsumerOnly /\ UNCHANGED <<hubvars, queue, unsettled, terminal, retired>>

\* The older of the two, or nothing: then a closed queue ends the thread, and
\* an open one parks it for at most 50 ms.
choose ==
    /\ con.pc = "choose"
    /\ LET critical == con.critical.kind # "none"
           snapshot == con.snapshot # 0
           first == critical /\ (snapshot => con.critical.order <= con.snapshot)
       IN  con' = CASE first ->
                         [con EXCEPT !.pc = "work", !.work = con.critical, !.critical = None]
                    [] ~first /\ snapshot ->
                         [con EXCEPT !.pc = "work", !.work = Message("Snapshot", con.snapshot),
                                     !.snapshot = 0]
                    [] OTHER -> [con EXCEPT !.pc = IF queue.closed THEN "discard" ELSE "receive"]
    /\ ConsumerOnly /\ UNCHANGED <<hubvars, queue, unsettled, terminal, retired>>

\* Nothing holds the session any more: not the slot, not the supervisor, not
\* the completion of a finalization.
Unreferenced ==
    /\ retired /\ mon.pc = "done"
    /\ "Finalize" \notin {m.kind : m \in ToSet(queue.critical) \cup {con.critical, con.work}}

orphaned ==
    /\ con.pc = "work"
    /\ Unreferenced
    /\ unsettled' = IF con.work.kind = "Snapshot" THEN unsettled - 1 ELSE unsettled
    /\ con' = [con EXCEPT !.pc = "discard", !.work = None]
    /\ ConsumerOnly /\ UNCHANGED <<hubvars, queue, terminal, retired>>

\* Best-effort work is skipped, a finalization rejected, once the session's
\* delivery has failed.
moot == queue.closed \/ delivery_failure

begin_work ==
    /\ con.pc = "work"
    /\ \/ ~moot /\ (con.work.kind = "Snapshot" => ~retired)
          /\ con' = [con EXCEPT !.pc = con.work.kind]
          /\ UNCHANGED <<unsettled, delivery_failure, retired>>
       \/ moot /\ con.work.kind = "State"
          /\ con' = [con EXCEPT !.pc = "receive", !.work = None]
          /\ UNCHANGED <<unsettled, delivery_failure, retired>>
       \/ con.work.kind = "Snapshot" /\ (moot \/ retired)
          /\ con' = [con EXCEPT !.pc = "receive", !.work = None]
          /\ unsettled' = unsettled - 1
          /\ UNCHANGED <<delivery_failure, retired>>
       \/ moot /\ con.work.kind = "Finalize"
          /\ retired' = TRUE /\ delivery_failure' = TRUE
          /\ con' = [con EXCEPT !.pc = "fail", !.work = None]
          /\ UNCHANGED unsettled
    /\ ConsumerOnly
    /\ UNCHANGED <<hub, publisher, published, received, queue, quit, terminal>>

\* A publication of the consumer: the hub's answer, or an error of its own (a
\* panic, a poisoned lock, an event that does not validate).
Publishes(e, ok) ==
    \/ Publish(e, ok)
    \/ ~ok /\ UNCHANGED hubvars

\* The snapshot: published, or lost to an error that fails the consumer and
\* counts it as dropped.  A queue that was closed since begin_work looked
\* cancels it: the publication returns Ok all the same, so that the frame
\* passes for published and nothing counts it.
snapshot_work ==
    /\ con.pc = "Snapshot"
    /\ \/ /\ queue.closed
          /\ con' = [con EXCEPT !.pc = "diagnostics", !.work = None]
          /\ UNCHANGED <<hubvars, unsettled>>
       \/ /\ ~queue.closed
          /\ \E ok \in BOOLEAN :
                /\ Publishes(PlaybackSnapshot, ok)
                /\ con' = [con EXCEPT !.pc = IF ok THEN "diagnostics" ELSE "fail", !.work = None]
          /\ unsettled' = unsettled - 1
    /\ ConsumerOnly /\ UNCHANGED <<queue, terminal, retired>>

\* The diagnostics that follow a snapshot; the gate may hold them back.
diagnostics_work ==
    /\ con.pc = "diagnostics"
    /\ \/ /\ con' = [con EXCEPT !.pc = "receive", !.work = None]
          /\ UNCHANGED hubvars
       \/ /\ ~moot
          /\ \E ok \in BOOLEAN :
                /\ Publishes(DiagnosticsSnapshot, ok)
                /\ con' = [con EXCEPT !.pc = IF ok THEN "receive" ELSE "fail", !.work = None]
    /\ ConsumerOnly /\ UNCHANGED <<queue, unsettled, terminal, retired>>

state_work ==
    /\ con.pc = "State"
    /\ \E ok \in BOOLEAN :
          /\ Publishes(Lifecycle, ok)
          /\ con' = [con EXCEPT !.pc = IF ok THEN "receive" ELSE "fail", !.work = None]
    /\ ConsumerOnly /\ UNCHANGED <<queue, unsettled, terminal, retired>>

\* The finalization: diagnostics, terminal state, terminal event.
final_diagnostics ==
    /\ con.pc = "Finalize"
    /\ \/ /\ queue.closed
          /\ con' = [con EXCEPT !.pc = "complete_error"]
          /\ UNCHANGED hubvars
       \/ /\ ~queue.closed
          /\ \E ok \in BOOLEAN :
                /\ Publishes(DiagnosticsSnapshot, ok)
                /\ con' = [con EXCEPT !.pc = IF ok THEN "final_state" ELSE "complete_error"]
    /\ ConsumerOnly /\ UNCHANGED <<queue, unsettled, terminal, retired>>

final_state ==
    /\ con.pc = "final_state"
    /\ \E ok \in BOOLEAN :
          /\ Publishes(Lifecycle, ok)
          /\ con' = [con EXCEPT !.pc = IF ok THEN "terminal_event" ELSE "complete_error"]
    /\ ConsumerOnly /\ UNCHANGED <<queue, unsettled, terminal, retired>>

publish_terminal_event ==
    /\ con.pc = "terminal_event"
    /\ \E ok \in BOOLEAN :
          /\ Publishes(Lifecycle, ok)
          /\ terminal' = ok
          /\ con' = [con EXCEPT !.pc = IF ok THEN "complete" ELSE "complete_error"]
    /\ ConsumerOnly /\ UNCHANGED <<queue, unsettled, retired>>

\* The session is retired before its terminal event is published.
Fault_completed ==
    /\ con.pc \in {"final_state", "complete", "complete_error"}
    /\ con' = [con EXCEPT !.pc = IF @ = "complete_error" THEN "fail" ELSE "close", !.work = None]
    /\ delivery_failure' = (delivery_failure \/ con.pc = "complete_error")
    /\ retired' = TRUE
    /\ ConsumerOnly
    /\ UNCHANGED <<hub, publisher, published, received, queue, unsettled, quit, terminal>>

\* terminal_presentation_completion: the session leaves the active slot.
completed ==
    /\ con.pc \in {"complete", "complete_error"}
    /\ con' = [con EXCEPT !.pc = IF @ = "complete_error" THEN "fail" ELSE "close", !.work = None]
    /\ delivery_failure' = (delivery_failure \/ con.pc = "complete_error")
    /\ retired' = TRUE
    /\ ConsumerOnly
    /\ UNCHANGED <<hub, publisher, published, received, queue, unsettled, quit, terminal>>

close_presentation ==
    /\ con.pc = "close"
    /\ queue' = [queue EXCEPT !.closed = TRUE]
    /\ con' = [con EXCEPT !.pc = "discard"]
    /\ ConsumerOnly /\ UNCHANGED <<hubvars, unsettled, terminal, retired>>

\* The error exit: record_failure.
record_failure ==
    /\ con.pc = "fail"
    /\ queue' = [queue EXCEPT !.closed = TRUE]
    /\ con' = [con EXCEPT !.pc = "cleanup"]
    /\ ConsumerOnly /\ UNCHANGED <<hubvars, unsettled, terminal, retired>>

\* The flag, the player, and the finalization that waited for its turn.
cleanup_failed_event_delivery ==
    /\ con.pc = "cleanup"
    /\ delivery_failure' = TRUE
    /\ quit' = TRUE
    /\ retired' = (retired \/ con.critical.kind = "Finalize")
    /\ con' = [con EXCEPT !.pc = "drain", !.critical = None]
    /\ ConsumerOnly
    /\ UNCHANGED <<hub, publisher, published, received, queue, unsettled, terminal>>

\* Every message that is queued is taken out, and a finalization completed.
reject_queued_presentation_finalizers ==
    /\ con.pc = "drain"
    /\ IF queue.critical = <<>>
       THEN con' = [con EXCEPT !.pc = "discard"] /\ UNCHANGED <<queue, retired, delivery_failure>>
       ELSE LET finalizer == Head(queue.critical).kind = "Finalize"
            IN  /\ queue' = [queue EXCEPT !.critical = Tail(@)]
                /\ retired' = (retired \/ finalizer)
                /\ delivery_failure' = (delivery_failure \/ finalizer)
                /\ UNCHANGED con
    /\ ConsumerOnly
    /\ UNCHANGED <<hub, publisher, published, received, unsettled, quit, terminal>>

\* The frames that will not be shown are counted as dropped.
discard_snapshots ==
    /\ con.pc = "discard"
    /\ unsettled' = unsettled - (IF con.snapshot # 0 THEN 1 ELSE 0)
                              - (IF queue.latest # 0 THEN 1 ELSE 0)
    /\ queue' = [queue EXCEPT !.latest = 0]
    /\ con' = [con EXCEPT !.pc = "exit", !.snapshot = 0]
    /\ ConsumerOnly /\ UNCHANGED <<hubvars, terminal, retired>>

\* The thread ends; what is still queued goes with the receiver.
exit ==
    /\ con.pc = "exit"
    /\ queue' = [queue EXCEPT !.receiver = FALSE, !.critical = <<>>]
    /\ con' = [con EXCEPT !.pc = "done", !.critical = None]
    /\ ConsumerOnly /\ UNCHANGED <<hubvars, unsettled, terminal, retired>>

----------------------------------------------------------------------------
Session == <<queue, unsettled, mon, con, terminal, retired>>

\* Another component of the application publishes a lifecycle event.
other_publish ==
    /\ left.others > 0
    /\ left' = [left EXCEPT !.others = @ - 1]
    /\ \E ok \in BOOLEAN : Publish(Lifecycle, ok)
    /\ UNCHANGED <<queue, unsettled, mon, con, terminal, retired>>

\* The hub's own failures and its end reach the registered player.
HubEnds ==
    /\ \/ subscribe_fails
       \/ send_fails
       \/ \E alive \in {TRUE, ~retired} : close(alive)
    /\ UNCHANGED <<queue, unsettled, mon, con, left, terminal, retired>>

HubRuns ==
    /\ subscribe \/ take_event \/ publisher_finishes \/ send_event
    /\ UNCHANGED <<Session, left>>

Monitor ==
    \/ observe_failure \/ publish_state \/ finalize \/ try_send \/ close_queue \/ fail
    \/ publish_snapshot \/ fill_slot \/ drop_snapshot

Consumer ==
    \/ receive \/ take_snapshot \/ choose \/ orphaned \/ begin_work \/ snapshot_work
    \/ diagnostics_work \/ state_work \/ final_diagnostics \/ final_state
    \/ publish_terminal_event \/ completed \/ close_presentation \/ record_failure
    \/ cleanup_failed_event_delivery \/ reject_queued_presentation_finalizers
    \/ discard_snapshots \/ exit

Next == Monitor \/ Consumer \/ other_publish \/ HubEnds \/ HubRuns

\* Every thread runs.  A player that was told to quit ends, so that its
\* supervisor comes to the finalization; a send that was begun returns.
Fairness ==
    /\ WF_vars(Consumer)
    /\ WF_vars(observe_failure) /\ WF_vars(try_send \/ close_queue \/ fail)
    /\ WF_vars(fill_slot \/ drop_snapshot)
    /\ WF_vars(quit /\ finalize)
    /\ WF_vars(HubRuns)

Spec == Init /\ [][Next]_vars /\ Fairness

----------------------------------------------------------------------------
(***************************************************************************)
(* Properties.                                                             *)
(***************************************************************************)

Kind == {"none", "State", "Snapshot", "Finalize"}
Bound == MaxStates + MaxSnapshots + 1
Messages == [kind : Kind, order : 0 .. Bound]

\* TypeOK: hub, critical queue and slot stay within their capacities, the event
\* being sent included, and the threads are in states they have.
TypeOK ==
    /\ HubTypeOK
    /\ queue.closed \in BOOLEAN /\ queue.receiver \in BOOLEAN
    /\ queue.order \in 0 .. Bound /\ queue.latest \in 0 .. Bound
    /\ queue.critical \in Seq(Messages) /\ Len(queue.critical) <= CriticalCapacity
    /\ unsettled \in Nat
    /\ mon \in [pc : {"loop", "send", "reject", "fail", "slot", "done"},
                message : Messages, failed : BOOLEAN]
    /\ con.pc \in {"receive", "take", "choose", "work", "Snapshot", "diagnostics", "State",
                   "Finalize", "final_state", "terminal_event", "complete", "complete_error",
                   "close", "fail", "cleanup", "drain", "discard", "exit", "done"}
    /\ con.critical \in Messages /\ con.work \in Messages /\ con.snapshot \in 0 .. Bound
    /\ terminal \in BOOLEAN /\ retired \in BOOLEAN

\* No lifecycle event is lost, doubled or overtaken, whatever snapshots are
\* coalesced or evicted around it: what is in the hub is what follows the last
\* one received, in order, unless the failure of the delivery is flagged or
\* the hub is closed.
LifecycleInOrder ==
    LET transit == hub.in_flight \o hub.buffered
        events == {i \in DOMAIN transit : ~is_snapshot(transit[i])}
    IN  \/ /\ {transit[i] : i \in events} = received + 1 .. published
           /\ \A i, j \in events : i < j => transit[i] < transit[j]
        \/ delivery_failure \/ hub.closed

\* The snapshots that one of the threads or the slot still holds.
Held == (IF mon.pc = "slot" THEN 1 ELSE 0)
        + (IF queue.latest # 0 THEN 1 ELSE 0)
        + (IF con.snapshot # 0 THEN 1 ELSE 0)
        + (IF con.work.kind = "Snapshot" /\ con.pc \in {"work", "Snapshot"} THEN 1 ELSE 0)

\* Every snapshot ends up published or counted as dropped, on every way out of
\* the two threads, but for one: the frame whose publication a closing queue
\* cancels.  A session loses at most that one, an open queue loses none, and
\* none is left in the slot of a consumer that is gone.
SnapshotsSettled ==
    /\ unsettled = Held \/ (queue.closed /\ unsettled = Held + 1)
    /\ con.pc = "done" => queue.latest = 0

\* A session leaves the active slot, and makes room for a successor, only when
\* its terminal event is in the hub or the delivery has failed for good.
RetiredAfterTerminal == retired => terminal \/ delivery_failure

\* The lifecycle events that were accepted reach the frontend, all of them in
\* the end, unless delivery fails, the hub is closed or there is no frontend.
LifecycleArrives ==
    published > received ~> received = published \/ delivery_failure \/ hub.closed \/ ~hub.channel

\* A delivery that failed, in the hub or in the presentation, stops the player,
\* and a session that is stopped or finalized leaves no thread behind.
SessionEnds == delivery_failure \/ mon.pc = "done" ~> mon.pc = "done" /\ con.pc = "done"

\* A session that never leaves the active slot says so: when both threads have
\* ended, its completion has run or the failure of its delivery is flagged.
FinalizedOrFlagged == mon.pc = "done" /\ con.pc = "done" => retired \/ delivery_failure

\* Once the supervisor has handed over the finalization and the consumer has
\* ended, the session has left the active slot.
FinalizerCompletes == mon.pc = "done" /\ con.pc = "done" => retired
============================================================================
