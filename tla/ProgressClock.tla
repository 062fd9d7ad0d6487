--------------------------- MODULE ProgressClock ---------------------------
(***************************************************************************)
(* The playback anchor that the worker publishes and the session's callers *)
(* project the position from (SharedProgressClock in                       *)
(* sky_player/src/engine/shared.rs): a sequence lock without a mutex, with *)
(* one writer and a reader that retries.  Every atomic access is a step.   *)
(* The sequence never comes round: it would take 2^63 publications.        *)
(***************************************************************************)
EXTENDS Integers

CONSTANTS
    Ticks,          \* QPC values that occur in anchors
    MaxSequence     \* bound on the sequence: two per publication

ASSUME TicksAssumption == Ticks \subseteq Nat \ {0}
ASSUME MaxSequenceAssumption == MaxSequence \in Nat

VARIABLES
    sequence, epoch_qpc, pause_started_qpc, pause_started_valid,
    paused, frozen, valid,        \* the atomics
    writer,                       \* program counter and argument of publish_anchor
    reader,                       \* program counter and locals of load
    got,                          \* what the last load returned
    published                     \* history: the last published anchor

payload == <<epoch_qpc, pause_started_qpc, pause_started_valid, paused, frozen, valid>>
clockvars == <<sequence, payload, writer, reader, got, published>>

\* ProgressClockSnapshot; 0 stands for no pause.
Anchor == [epoch : Ticks, pause : Ticks \cup {0}, paused : BOOLEAN, frozen : BOOLEAN]
NoAnchor == [epoch |-> 0, pause |-> 0, paused |-> FALSE, frozen |-> FALSE]

NotLoaded == [NoAnchor EXCEPT !.frozen = TRUE]

WriterPc == {"idle", "epoch", "pause", "pause_valid", "paused", "frozen", "valid", "close"}
ReaderPc == {"idle", "before", "valid", "epoch", "pause", "pause_valid", "paused", "frozen",
             "after"}
NotRead == [sequence |-> 0, valid |-> FALSE, epoch |-> 0, pause |-> 0, pause_valid |-> FALSE,
            paused |-> FALSE, frozen |-> FALSE]
NoReader == [pc |-> "idle", read |-> NotRead]

ClockInit ==
    /\ sequence = 0 /\ epoch_qpc = 0 /\ pause_started_qpc = 0
    /\ pause_started_valid = FALSE /\ paused = FALSE /\ frozen = FALSE /\ valid = FALSE
    /\ writer = [pc |-> "idle", anchor |-> NoAnchor]
    /\ reader = NoReader
    /\ got = NotLoaded
    /\ published = NoAnchor

Odd(n) == n % 2 = 1

----------------------------------------------------------------------------
(***************************************************************************)
(* publish_anchor.                                                         *)
(***************************************************************************)

\* publish takes the clock as it is; a paused clock has a pause start.
Live == {a \in Anchor : ~a.frozen /\ a.paused = (a.pause # 0)}
\* publish_terminal freezes the clock at its pause start or at the last tick.
Terminal == {a \in Anchor : a.frozen /\ a.paused /\ a.pause # 0}

publish_anchor(a) ==
    /\ writer.pc = "idle"
    /\ sequence + 2 <= MaxSequence
    /\ sequence' = sequence + 1
    /\ writer' = [pc |-> "epoch", anchor |-> a]
    /\ UNCHANGED <<payload, reader, got, published>>

Continue(pc) == writer' = [writer EXCEPT !.pc = pc]

store_epoch ==
    /\ writer.pc = "epoch"
    /\ epoch_qpc' = writer.anchor.epoch
    /\ Continue("pause")
    /\ UNCHANGED <<sequence, pause_started_qpc, pause_started_valid, paused, frozen, valid,
                   reader, got, published>>

store_pause ==
    /\ writer.pc = "pause"
    /\ pause_started_qpc' = writer.anchor.pause
    /\ Continue("pause_valid")
    /\ UNCHANGED <<sequence, epoch_qpc, pause_started_valid, paused, frozen, valid,
                   reader, got, published>>

store_pause_valid ==
    /\ writer.pc = "pause_valid"
    /\ pause_started_valid' = (writer.anchor.pause # 0)
    /\ Continue("paused")
    /\ UNCHANGED <<sequence, epoch_qpc, pause_started_qpc, paused, frozen, valid,
                   reader, got, published>>

store_paused ==
    /\ writer.pc = "paused"
    /\ paused' = writer.anchor.paused
    /\ Continue("frozen")
    /\ UNCHANGED <<sequence, epoch_qpc, pause_started_qpc, pause_started_valid, frozen, valid,
                   reader, got, published>>

store_frozen ==
    /\ writer.pc = "frozen"
    /\ frozen' = writer.anchor.frozen
    /\ Continue("valid")
    /\ UNCHANGED <<sequence, epoch_qpc, pause_started_qpc, pause_started_valid, paused, valid,
                   reader, got, published>>

store_valid ==
    /\ writer.pc = "valid"
    /\ valid' = TRUE
    /\ Continue("close")
    /\ UNCHANGED <<sequence, epoch_qpc, pause_started_qpc, pause_started_valid, paused, frozen,
                   reader, got, published>>

\* Leaves the sequence odd.
Fault_close_sequence ==
    /\ writer.pc = "close"
    /\ published' = writer.anchor
    /\ writer' = [pc |-> "idle", anchor |-> NoAnchor]
    /\ UNCHANGED <<sequence, payload, reader, got>>

close_sequence ==
    /\ writer.pc = "close"
    /\ sequence' = sequence + 1
    /\ published' = writer.anchor
    /\ writer' = [pc |-> "idle", anchor |-> NoAnchor]
    /\ UNCHANGED <<payload, reader, got>>

----------------------------------------------------------------------------
(***************************************************************************)
(* load: retry until the sequence was even and unchanged.                  *)
(***************************************************************************)
begin_load ==
    /\ reader.pc = "idle"
    /\ reader' = [reader EXCEPT !.pc = "before"]
    /\ UNCHANGED <<sequence, payload, writer, got, published>>

Loads(pc) == /\ reader.pc = pc
             /\ UNCHANGED <<sequence, payload, writer, got, published>>

load_before ==
    /\ Loads("before")
    /\ ~Odd(sequence)
    /\ reader' = [pc |-> "valid", read |-> [NotRead EXCEPT !.sequence = sequence]]

load_valid == /\ Loads("valid")
              /\ reader' = [pc |-> "epoch", read |-> [reader.read EXCEPT !.valid = valid]]

load_epoch == /\ Loads("epoch")
              /\ reader' = [pc |-> "pause", read |-> [reader.read EXCEPT !.epoch = epoch_qpc]]

load_pause ==
    /\ Loads("pause")
    /\ reader' = [pc |-> "pause_valid", read |-> [reader.read EXCEPT !.pause = pause_started_qpc]]

load_pause_valid ==
    /\ Loads("pause_valid")
    /\ reader' = [pc |-> "paused",
                  read |-> [reader.read EXCEPT !.pause_valid = pause_started_valid]]

load_paused == /\ Loads("paused")
               /\ reader' = [pc |-> "frozen", read |-> [reader.read EXCEPT !.paused = paused]]

load_frozen == /\ Loads("frozen")
               /\ reader' = [pc |-> "after", read |-> [reader.read EXCEPT !.frozen = frozen]]

\* Only asks whether a publication is in progress.
Fault_unchanged == ~Odd(sequence)

unchanged == reader.read.sequence = sequence /\ ~Odd(sequence)

\* The snapshot of a coherent read; none before the first publication.
snapshot(r) == IF r.valid THEN [epoch |-> r.epoch, pause |-> IF r.pause_valid THEN r.pause ELSE 0,
                                paused |-> r.paused, frozen |-> r.frozen]
               ELSE NoAnchor

load_after ==
    /\ reader.pc = "after"
    /\ IF unchanged
       THEN got' = snapshot(reader.read) /\ reader' = NoReader
       ELSE reader' = [pc |-> "before", read |-> NotRead] /\ UNCHANGED got
    /\ UNCHANGED <<sequence, payload, writer, published>>

Writer ==
    \/ store_epoch \/ store_pause \/ store_pause_valid \/ store_paused \/ store_frozen
    \/ store_valid \/ close_sequence

Reader ==
    \/ load_before \/ load_valid \/ load_epoch \/ load_pause \/ load_pause_valid
    \/ load_paused \/ load_frozen \/ load_after

ClockNext == Writer \/ Reader \/ begin_load \/ \E a \in Live \cup Terminal : publish_anchor(a)

ClockSpec == ClockInit /\ [][ClockNext]_clockvars

\* Threads inside a call keep running.
ClockLiveSpec == ClockSpec /\ WF_clockvars(Writer) /\ WF_clockvars(Reader)

----------------------------------------------------------------------------
(***************************************************************************)
(* Properties.                                                             *)
(***************************************************************************)

\* ClockTypeOK: every variable has its type, and the sequence is odd exactly
\* while publish_anchor is running.
SequenceOK == sequence \in 0 .. MaxSequence /\ (Odd(sequence) <=> writer.pc # "idle")
AtomicsOK ==
    /\ epoch_qpc \in Ticks \cup {0} /\ pause_started_qpc \in Ticks \cup {0}
    /\ pause_started_valid \in BOOLEAN /\ paused \in BOOLEAN
    /\ frozen \in BOOLEAN /\ valid \in BOOLEAN
WriterOK == writer \in [pc : WriterPc, anchor : Anchor \cup {NoAnchor}]
ReaderOK ==
    reader \in [pc : ReaderPc,
                read : [sequence : 0 .. MaxSequence, valid : BOOLEAN,
                        epoch : Ticks \cup {0}, pause : Ticks \cup {0},
                        pause_valid : BOOLEAN, paused : BOOLEAN, frozen : BOOLEAN]]
ValuesOK ==
    /\ got \in Anchor \cup {NoAnchor, NotLoaded}
    /\ published \in Anchor \cup {NoAnchor}
ClockTypeOK == SequenceOK /\ AtomicsOK /\ WriterOK /\ ReaderOK /\ ValuesOK

\* What load returns is the anchor of one publication, the last one, never a
\* mixture of two: the lock-free clock implements an atomic register, so no
\* position is projected from the epoch of one moment and the pause of another.
Register == INSTANCE AtomicRegister
                WITH Values <- Anchor, Initial <- NoAnchor, NoValue <- NotLoaded,
                     cur <- published, got <- got
SnapshotIsAtomic == Register!Spec

\* The reader spins without a bound, yet every load returns once the worker
\* is between publications long enough.
LoadReturns == reader.pc # "idle" ~> reader.pc = "idle"
============================================================================
