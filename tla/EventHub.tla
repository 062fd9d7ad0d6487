----------------------------- MODULE EventHub -----------------------------
(***************************************************************************)
(* The application's queue of user interface events and the thread that    *)
(* sends them (NativeEventHub, native_runtime.rs): snapshots are           *)
(* best-effort, one per key is kept and the oldest makes room; everything  *)
(* else is a lifecycle event, which is sent in order or fails the delivery *)
(* for good.                                                               *)
(*                                                                         *)
(* A lifecycle event is the number of its publication, so that order and   *)
(* loss show; a snapshot is its key, a negative number.                    *)
(***************************************************************************)
EXTENDS Integers, Sequences, SequencesExt

CONSTANT MaxNativeEvents   \* MAX_NATIVE_EVENTS, 128 in the program

ASSUME HubAssumption == MaxNativeEvents \in Nat \ {0}

VARIABLES
    hub,               \* NativeEventHubState, under its mutex
    delivery_failure,  \* the flag of the queue, shared with every session
    publisher,         \* where the publisher thread is
    published,         \* lifecycle events accepted so far
    received,          \* the last lifecycle event the channel took
    quit               \* panic_release and quit were requested of the player

hubvars == <<hub, delivery_failure, publisher, published, received, quit>>

\* The keys of PlaybackSnapshot and DiagnosticsSnapshot (snapshot_key).
PlaybackSnapshot == -1
DiagnosticsSnapshot == -2
Snapshot == {PlaybackSnapshot, DiagnosticsSnapshot}

\* Any event that is not a snapshot; the hub numbers it.
Lifecycle == 0

HubInit ==
    /\ hub = [buffered |-> <<1>>, channel |-> FALSE, closed |-> FALSE,
              failure |-> FALSE, in_flight |-> <<>>]
    /\ delivery_failure = FALSE
    /\ publisher = "none"
    /\ published = 1      \* the Starting event of the session
    /\ received = 0
    /\ quit = FALSE

is_snapshot(e) == e \in Snapshot

at_capacity(h) == Len(h.buffered) + Len(h.in_flight) >= MaxNativeEvents

\* Evicts the oldest event, whatever it is.
Fault_remove_oldest_snapshot(buffered) == Tail(buffered)

\* The buffer without its oldest snapshot; unchanged when it has none.
remove_oldest_snapshot(buffered) ==
    LET i == SelectInSeq(buffered, is_snapshot)
    IN  IF i = 0 THEN buffered ELSE RemoveAt(buffered, i)

\* What publish makes of the hub, and whether it returns Ok.
publish(e) ==
    LET refused == hub.closed \/ hub.failure
        coalesced == is_snapshot(e) /\ e \in ToSet(hub.buffered)
        kept == IF at_capacity(hub) THEN remove_oldest_snapshot(hub.buffered) ELSE hub.buffered
        room == ~at_capacity(hub) \/ kept # hub.buffered
        event == IF is_snapshot(e) THEN e ELSE published + 1
    IN  CASE refused -> [answer |-> "refused", hub |-> [hub EXCEPT !.failure = TRUE]]
          [] ~refused /\ coalesced -> [answer |-> "ok", hub |-> hub]
          [] ~refused /\ ~coalesced /\ room ->
                [answer |-> "ok", hub |-> [hub EXCEPT !.buffered = Append(kept, event)]]
          [] ~refused /\ ~coalesced /\ ~room /\ is_snapshot(e) -> [answer |-> "ok", hub |-> hub]
          [] OTHER -> [answer |-> "overflow", hub |-> [hub EXCEPT !.failure = TRUE]]

\* A caller publishes e; ok says what it is told.  An overflow stops the player.
Publish(e, ok) ==
    LET p == publish(e)
    IN  /\ ok = (p.answer = "ok")
        /\ hub' = p.hub
        /\ delivery_failure' = (delivery_failure \/ ~ok)
        /\ published' = IF ok /\ ~is_snapshot(e) THEN published + 1 ELSE published
        /\ quit' = (quit \/ p.answer = "overflow")
        /\ UNCHANGED <<publisher, received>>

\* The frontend connects; the publisher thread starts with the first channel.
subscribe ==
    /\ publisher = "none" /\ ~hub.closed /\ ~hub.channel
    /\ hub' = [hub EXCEPT !.channel = TRUE]
    /\ publisher' = "wait"
    /\ UNCHANGED <<delivery_failure, published, received, quit>>

\* fail_delivery and the termination of the registered player.
fail_delivery ==
    /\ delivery_failure' = TRUE
    /\ quit' = TRUE
    /\ hub' = [hub EXCEPT !.failure = TRUE, !.closed = TRUE, !.channel = FALSE,
                          !.buffered = <<>>, !.in_flight = <<>>]

\* The publisher thread cannot be started.
subscribe_fails ==
    /\ publisher = "none" /\ ~hub.closed /\ ~hub.channel
    /\ fail_delivery
    /\ UNCHANGED <<publisher, published, received>>

\* The publisher takes the oldest event and gives the lock back to send it.
take_event ==
    /\ publisher = "wait"
    /\ hub.channel /\ hub.buffered # <<>>
    /\ hub' = [hub EXCEPT !.in_flight = <<Head(hub.buffered)>>, !.buffered = Tail(hub.buffered)]
    /\ publisher' = "send"
    /\ UNCHANGED <<delivery_failure, published, received, quit>>

\* Ends as soon as there is nothing to send.
Fault_publisher_finishes ==
    /\ publisher = "wait"
    /\ hub.buffered = <<>>
    /\ publisher' = "finished"
    /\ UNCHANGED <<hub, delivery_failure, published, received, quit>>

publisher_finishes ==
    /\ publisher = "wait"
    /\ hub.closed /\ hub.buffered = <<>>
    /\ hub' = [hub EXCEPT !.channel = FALSE]
    /\ publisher' = "finished"
    /\ UNCHANGED <<delivery_failure, published, received, quit>>

\* channel.send returns, and the event is no longer in flight.
send_event ==
    /\ publisher = "send"
    /\ received' = IF is_snapshot(hub.in_flight[1]) THEN received ELSE hub.in_flight[1]
    /\ hub' = [hub EXCEPT !.in_flight = <<>>]
    /\ publisher' = "wait"
    /\ UNCHANGED <<delivery_failure, published, quit>>

\* channel.send fails or panics: the end of all delivery.
send_fails ==
    /\ publisher = "send"
    /\ fail_delivery
    /\ publisher' = "finished"
    /\ UNCHANGED <<published, received>>

\* The application closes; a session that still has a player is told.
close(alive) ==
    /\ ~hub.closed
    /\ hub' = [hub EXCEPT !.closed = TRUE, !.buffered = <<>>]
    /\ delivery_failure' = (delivery_failure \/ alive)
    /\ quit' = (quit \/ alive)
    /\ UNCHANGED <<publisher, published, received>>

PublisherStep == take_event \/ publisher_finishes \/ send_event \/ send_fails

HubTypeOK ==
    /\ hub.buffered \in Seq(Snapshot \cup 1 .. published)
    /\ Len(hub.buffered) + Len(hub.in_flight) <= MaxNativeEvents
    /\ \A f \in {"channel", "closed", "failure"} : hub[f] \in BOOLEAN
    /\ hub.in_flight \in Seq(Snapshot \cup 1 .. published) /\ Len(hub.in_flight) <= 1
    /\ (publisher = "send") = (hub.in_flight # <<>>)
    /\ delivery_failure \in BOOLEAN /\ quit \in BOOLEAN
    /\ publisher \in {"none", "wait", "send", "finished"}
    /\ published \in Nat /\ received \in 0 .. published
============================================================================
