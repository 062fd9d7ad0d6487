------------------------- MODULE SystemPowerProofs -------------------------
(***************************************************************************)
(* Proofs about SystemPower, for any finite number of callback threads,    *)
(* any number of owners and any epoch range.                               *)
(***************************************************************************)
EXTENDS SystemPower, FiniteSetTheorems, TLAPS

USE CallbacksAssumption, AttemptsAssumption, EpochAssumption, OwnersAssumption,
    ReasonsAssumption

InsideSet == {c \in Callbacks : cb[c].pc \in Inside}

\* The mutex: the owner inside an operation is the holder, and a held mutex
\* means that no worker runs.
MutexOK ==
    /\ \A o \in Owners : owner[o].pc # "idle" <=> lifecycle = o
    /\ lifecycle # Free => WorkerQuiescent

\* After close_epoch the epoch is odd until the owner opens the next one.
EpochOK ==
    /\ \A o \in Owners : owner[o].pc \notin {"idle", "locked"} => callback_epoch % 2 = 1
    /\ \A c \in Callbacks : cb[c].pc # "out" =>
         cb[c].captured % 2 = 0 /\ cb[c].captured <= callback_epoch

\* The clearing of an owner runs alone.
Alone(pc) == pc \in {"clear", "clear_word", "drain", "open"}
QuietOK ==
    \A o \in Owners : Alone(owner[o].pc) => \A c \in Callbacks : cb[c].pc \notin Acting

\* What a step of a callback, an owner or the worker leaves alone.
CallbackFrame == UNCHANGED <<callback_epoch, lifecycle, owner, worker, late>>
OwnerFrame == UNCHANGED <<callbacks_in_flight, cb>>
WorkerFrame == UNCHANGED <<state, callback_epoch, callbacks_in_flight, lifecycle, cb, owner>>

\* Every callback step moves one callback and keeps the frame.
LEMMA CallbackShape ==
    ASSUME Types, NEW c \in Callbacks, capture_epoch(c) \/ CallbackStep(c)
    PROVE  /\ CallbackFrame
           /\ \A d \in Callbacks \ {c} : cb'[d] = cb[d]
  BY DEF Types, CallbackFrame, capture_epoch, CallbackStep, count_in, validate_epoch,
         latch_suspend, load_state, cas_state, exhaust_attempts, signal, leave, Goto, Leaving, CbOut, CbAt

\* Owners never touch a callback.
LEMMA OwnerShape ==
    ASSUME Types, NEW o \in Owners, lock(o) \/ OwnerStep(o)
    PROVE  /\ OwnerFrame
           /\ \A p \in Owners \ {o} : owner'[p] = owner[p]
  BY DEF Types, OwnerFrame, lock, OwnerStep, close_epoch, rundown, clear_state, reset_startup,
         drain, open_epoch

\* The worker changes the startup word and the event, nothing else outside
\* itself.
LEMMA WorkerShape ==
    ASSUME StartWorker \/ WorkerStep PROVE WorkerFrame
  BY DEF WorkerFrame, StartWorker, WorkerStep, WorkerOnly, load_word, cas_word, check_control,
         wait_interrupted, drain_interrupt, wait_deadline, final_control_precheck, send_down

\* Publishing the next phase yields a word.
LEMMA MovedType ==
    ASSUME NEW w \in Word, w.phase \in PreArm
    PROVE  moved(w) \in Word /\ moved(w).suspend = w.suspend
<1>1. NextPhase(w.phase) \in Phase
  BY DEF NextPhase, PreArm, Phase
<1>2. \A p \in Phase, r, a, s \in BOOLEAN :
        [phase |-> p, reason |-> "None", ready |-> r, armed |-> a, suspend |-> s] \in Word
  BY DEF Word, Reason
<1>3. w.suspend \in BOOLEAN
  BY DEF Word
<1>4. moved(w) \in Word
  BY <1>1, <1>2, <1>3, Zenon DEF moved
<1>5. moved(w).suspend = w.suspend
  BY Zenon DEF moved
<1> QED BY <1>4, <1>5

\* A cancellation keeps the latch and the evidence, and ends the startup.
LEMMA CancelledType ==
    ASSUME NEW w \in Word, NEW reason \in Reason
    PROVE  /\ cancelled(w, reason) \in Word
           /\ cancelled(w, reason).suspend = w.suspend
           /\ cancelled(w, reason).armed = w.armed
           /\ cancelled(w, reason).phase = "Cancelled"
  BY DEF cancelled, Word, Phase

\* The null values are typed.
LEMMA NullTypes ==
    /\ IdleWord \in Word /\ ~IdleWord.suspend
    /\ CbOut \in CbState /\ OwnerIdle \in OwnerState /\ NoWorker \in WorkerState
    /\ CbAt("leaving") \in CbState /\ CbAt("leaving").pc = "leaving"
  BY DEF IdleWord, startup_word, Word, Phase, Reason, CbOut, CbAt, CbState, CbPc, OwnerIdle,
         OwnerState, OwnerPc, NoWorker, WorkerState, WorkerPc

\* The tries of a callback that may still fail a compare-exchange stay below
\* the budget.
TriesOK ==
    \A c \in Callbacks : cb[c].pc \notin {"overflow", "signal", "leaving"}
                            => cb[c].tries < Attempts

\* What the worker loaded before its compare-exchange could be moved.
SeenOK == worker.pc = "cas" => worker.seen.phase \in PreArm /\ ~worker.seen.suspend

\* A callback step keeps the callbacks typed and within their attempts.
LEMMA CallbackTypes ==
    ASSUME Types, TriesOK, NEW c \in Callbacks, capture_epoch(c) \/ CallbackStep(c)
    PROVE  cb' \in [Callbacks -> CbState] /\ TriesOK'
<1> USE DEF Types, TriesOK
<1>0. cb[c] \in CbState
  OBVIOUS
<1>1. CASE capture_epoch(c)
  BY <1>1 DEF capture_epoch, CbOut, CbAt, CbState, CbPc
<1>2. CASE count_in(c)
  BY <1>2 DEF count_in, Goto, CbState, CbPc
<1>3. CASE validate_epoch(c)
  <2>1. CASE callback_epoch = cb[c].captured
    BY <1>3, <2>1 DEF validate_epoch, Goto, CbState, CbPc
  <2>2. CASE callback_epoch # cb[c].captured
    BY <1>3, <2>2, NullTypes DEF validate_epoch, Leaving
  <2> QED BY <2>1, <2>2
<1>4. CASE latch_suspend(c)
  BY <1>4 DEF latch_suspend, Goto, CbState, CbPc
<1>5. CASE load_state(c)
  <2>1. CASE ("OS_SUSPENDED" \in state) = cb[c].suspended
    BY <1>5, <2>1, NullTypes DEF load_state, Leaving
  <2>2. CASE ("OS_SUSPENDED" \in state) # cb[c].suspended
    BY <1>5, <2>2 DEF load_state, CbState, CbPc
  <2> QED BY <2>1, <2>2
<1>6. CASE cas_state(c)
  BY <1>6 DEF cas_state, Goto, CbState, CbPc
<1>7. CASE exhaust_attempts(c)
  BY <1>7 DEF exhaust_attempts, Goto, CbState, CbPc
<1>8. CASE signal(c)
  BY <1>8, NullTypes DEF signal, Leaving
<1>9. CASE leave(c)
  BY <1>9 DEF leave, CbOut, CbAt, CbState, CbPc
<1> QED BY <1>1, <1>2, <1>3, <1>4, <1>5, <1>6, <1>7, <1>8, <1>9 DEF CallbackStep

\* The set of callbacks inside changes exactly when the counter does.
LEMMA CallbackCount ==
    ASSUME Types, TypeOK, NEW c \in Callbacks, capture_epoch(c) \/ CallbackStep(c)
    PROVE  /\ callbacks_in_flight' \in Nat
           /\ callbacks_in_flight' = Cardinality(InsideSet')
<1> USE DEF Types
<1>0. IsFiniteSet(InsideSet) /\ callbacks_in_flight = Cardinality(InsideSet)
  BY FS_Subset DEF InsideSet, TypeOK
<1>a. Cardinality(InsideSet) \in Nat
  BY <1>0, FS_CardinalityType
<1>1. CASE count_in(c)
  <2>1. InsideSet' = InsideSet \cup {c} /\ c \notin InsideSet
    BY <1>1 DEF count_in, Goto, InsideSet, Inside, Acting, CbState
  <2>2. Cardinality(InsideSet \cup {c}) = Cardinality(InsideSet) + 1
    BY <1>0, <2>1, FS_AddElement
  <2> QED BY <1>0, <1>1, <1>a, <2>1, <2>2 DEF count_in
<1>2. CASE leave(c)
  <2>1. InsideSet' = InsideSet \ {c} /\ c \in InsideSet
    BY <1>2 DEF leave, CbOut, CbAt, InsideSet, Inside, Acting, CbState
  <2>2. /\ Cardinality(InsideSet \ {c}) = Cardinality(InsideSet) - 1
        /\ IsFiniteSet(InsideSet \ {c})
    BY <1>0, <2>1, FS_RemoveElement
  <2>3. Cardinality(InsideSet \ {c}) \in Nat
    BY <2>2, FS_CardinalityType
  <2> QED BY <1>0, <1>2, <1>a, <2>1, <2>2, <2>3 DEF leave
<1>3. CASE ~count_in(c) /\ ~leave(c)
  <2>1. callbacks_in_flight' = callbacks_in_flight
    BY <1>3 DEF CallbackStep, capture_epoch, validate_epoch, latch_suspend, load_state, cas_state,
                exhaust_attempts, signal
  <2>2. cb'[c].pc \in Inside <=> cb[c].pc \in Inside
    <3>1. CASE capture_epoch(c)
      BY <3>1 DEF capture_epoch, CbOut, CbAt, Inside, Acting
    <3>2. CASE validate_epoch(c) \/ latch_suspend(c) \/ load_state(c)
      BY <3>2 DEF validate_epoch, latch_suspend, load_state, Goto, Leaving, CbAt, Inside,
                   Acting, CbState
    <3>3. CASE cas_state(c) \/ exhaust_attempts(c) \/ signal(c)
      BY <3>3 DEF cas_state, exhaust_attempts, signal, Goto, Leaving, CbAt, Inside, Acting, CbState
    <3> QED BY <1>3, <3>1, <3>2, <3>3 DEF CallbackStep
  <2>3. \A d \in Callbacks \ {c} : cb'[d] = cb[d]
    BY CallbackShape
  <2>4. InsideSet' = InsideSet
    BY <2>2, <2>3 DEF InsideSet
  <2> QED BY <1>0, <1>a, <2>1, <2>4
<1> QED BY <1>1, <1>2, <1>3

\* Every step keeps the types, the budget and the exact count.
LEMMA TypeStep == TypeOK /\ TriesOK /\ SeenOK /\ [Next]_vars => TypeOK' /\ TriesOK' /\ SeenOK'
<1> SUFFICES ASSUME TypeOK, TriesOK, SeenOK, [Next]_vars PROVE TypeOK' /\ TriesOK' /\ SeenOK'
  OBVIOUS
<1>0. Types /\ callbacks_in_flight = Cardinality(InsideSet)
  BY DEF TypeOK, InsideSet
<1> SUFFICES Types' /\ callbacks_in_flight' = Cardinality(InsideSet') /\ TriesOK' /\ SeenOK'
  BY DEF TypeOK, InsideSet
<1>1. ASSUME NEW c \in Callbacks, capture_epoch(c) \/ CallbackStep(c)
      PROVE  Types' /\ callbacks_in_flight' = Cardinality(InsideSet') /\ TriesOK' /\ SeenOK'
  <2>1. cb' \in [Callbacks -> CbState] /\ TriesOK'
    BY <1>0, <1>1, CallbackTypes
  <2>2. callbacks_in_flight' \in Nat /\ callbacks_in_flight' = Cardinality(InsideSet')
    BY <1>0, <1>1, CallbackCount
  <2>3. CallbackFrame
    BY <1>0, <1>1, CallbackShape
  <2>4. state' \subseteq Bits /\ word' \in Word /\ interrupt' \subseteq Signallers
    <3>1. cb[c].suspended \in BOOLEAN
      BY <1>0 DEF Types, CbState
    <3>2. CASE latch_suspend(c)
      BY <1>0, <3>1, <3>2 DEF latch_suspend, Types, Word
    <3>3. CASE ~latch_suspend(c)
      BY <1>0, <1>1, <3>3 DEF Types, CallbackStep, capture_epoch, count_in,
            validate_epoch, load_state, cas_state, exhaust_attempts, signal, leave, Bits, Signallers
    <3> QED BY <3>2, <3>3
  <2> QED BY <1>0, <2>1, <2>2, <2>3, <2>4 DEF Types, CallbackFrame, SeenOK
<1>2. ASSUME NEW o \in Owners, lock(o) \/ OwnerStep(o)
      PROVE  Types' /\ callbacks_in_flight' = Cardinality(InsideSet') /\ TriesOK' /\ SeenOK'
  <2>1. OwnerFrame
    BY <1>0, <1>2, OwnerShape
  <2>2. InsideSet' = InsideSet /\ TriesOK'
    BY <2>1 DEF OwnerFrame, InsideSet, TriesOK
  <2>3. owner' \in [Owners -> OwnerState] /\ lifecycle' \in Owners \cup {Free}
    <3>1. CASE lock(o)
      BY <1>0, <3>1 DEF Types, lock, OwnerState, OwnerPc
    <3>2. CASE close_epoch(o) \/ rundown(o)
      BY <1>0, <3>2 DEF Types, close_epoch, rundown, OwnerState, OwnerPc
    <3>3. CASE clear_state(o) \/ reset_startup(o)
      BY <1>0, <3>3 DEF Types, clear_state, reset_startup, OwnerState, OwnerPc
    <3>4. CASE drain(o)
      BY <1>0, <3>4, NullTypes DEF Types, drain, OwnerState, OwnerPc
    <3>5. CASE open_epoch(o)
      BY <1>0, <3>5, NullTypes DEF Types, open_epoch
    <3> QED BY <1>2, <3>1, <3>2, <3>3, <3>4, <3>5 DEF OwnerStep
  <2>4. callback_epoch' \in 0 .. LastEpoch
    BY <1>0, <1>2 DEF Types, lock, OwnerStep, close_epoch, rundown, clear_state,
          reset_startup, drain, open_epoch
  <2>5. state' \subseteq Bits /\ word' \in Word /\ interrupt' \subseteq Signallers
        /\ worker' \in WorkerState /\ late' \in Nat
    <3>1. CASE reset_startup(o)
      BY <1>0, <3>1, NullTypes DEF Types, reset_startup
    <3>2. CASE open_epoch(o)
      BY <1>0, <3>2, NullTypes DEF Types, open_epoch
    <3>3. CASE clear_state(o) \/ drain(o)
      BY <1>0, <3>3 DEF Types, clear_state, drain
    <3>4. CASE lock(o) \/ close_epoch(o) \/ rundown(o)
      BY <1>0, <3>4 DEF Types, lock, close_epoch, rundown
    <3> QED BY <1>2, <3>1, <3>2, <3>3, <3>4 DEF OwnerStep
  <2>6. SeenOK'
    BY <1>2 DEF SeenOK, lock, OwnerStep, close_epoch, rundown, clear_state, reset_startup, drain,
          open_epoch, NoWorker
  <2> QED BY <1>0, <2>1, <2>2, <2>3, <2>4, <2>5, <2>6 DEF Types, OwnerFrame
<1>3. CASE StartWorker \/ WorkerStep
  <2>1. WorkerFrame
    BY <1>3, WorkerShape
  <2>2. InsideSet' = InsideSet /\ TriesOK'
    BY <2>1 DEF WorkerFrame, InsideSet, TriesOK
  <2>3. word' \in Word /\ worker' \in WorkerState
    <3>1. CASE cas_word
      <4>1. CASE word = worker.seen
        BY <1>0, <3>1, <4>1, MovedType, NullTypes DEF cas_word, SeenOK, Types, WorkerState, WorkerPc
      <4>2. CASE word # worker.seen
        BY <1>0, <3>1, <4>2, NullTypes DEF cas_word, Types, WorkerState, WorkerPc
      <4> QED BY <3>1, <4>1, <4>2
    <3>2. CASE load_word
      BY <1>0, <3>2, NullTypes DEF load_word, WorkerOnly, Types, WorkerState, WorkerPc
    <3>3. CASE StartWorker \/ check_control \/ wait_interrupted \/ drain_interrupt
               \/ wait_deadline \/ final_control_precheck \/ send_down
      BY <1>0, <3>3 DEF Types, StartWorker, check_control, wait_interrupted, drain_interrupt,
            wait_deadline, final_control_precheck, send_down, WorkerOnly, SetWorker, WorkerState,
            WorkerPc
    <3> QED BY <1>3, <3>1, <3>2, <3>3 DEF WorkerStep
  <2>4. interrupt' \subseteq Signallers /\ late' \in Nat
    <3>1. CASE send_down
      BY <1>0, <3>1 DEF Types, send_down
    <3>2. CASE wait_interrupted \/ drain_interrupt
      BY <1>0, <3>2 DEF Types, wait_interrupted, drain_interrupt
    <3>3. CASE UNCHANGED <<interrupt, late>>
      BY <1>0, <3>3 DEF Types
    <3> QED BY <1>3, <3>1, <3>2, <3>3 DEF StartWorker, WorkerStep, WorkerOnly, load_word, cas_word,
              check_control, wait_deadline, final_control_precheck
  <2>5. SeenOK'
    BY <1>0, <1>3 DEF Types, WorkerState, SeenOK, StartWorker, WorkerStep, load_word, cas_word,
          check_control, wait_interrupted, drain_interrupt, wait_deadline, final_control_precheck,
          send_down, SetWorker, movable
  <2> QED BY <1>0, <2>1, <2>2, <2>3, <2>4, <2>5 DEF Types, WorkerFrame
<1>4. CASE CommandSignal
  BY <1>0, <1>4 DEF CommandSignal, Types, Signallers, InsideSet, TriesOK, SeenOK
<1>5. CASE CommandCancel
  <2>1. word' \in Word
    BY <1>0, <1>5, CancelledType DEF CommandCancel, Types
  <2> QED BY <1>0, <1>5, <2>1 DEF CommandCancel, Types, InsideSet, TriesOK, SeenOK
<1>6. CASE UNCHANGED vars
  BY <1>0, <1>6 DEF vars, Types, InsideSet, TriesOK, SeenOK
<1> QED BY <1>1, <1>2, <1>3, <1>4, <1>5, <1>6 DEF Next

----------------------------------------------------------------------------
(***************************************************************************)
(* The rundown: callbacks of a closed session are out before the clearing. *)
(***************************************************************************)

Base == /\ TypeOK /\ TriesOK /\ SeenOK
        /\ MutexOK
        /\ EpochOK
        /\ QuietOK
        /\ RundownExcludesCallbacks

\* Only the holder of the mutex is inside an operation.
LEMMA MutexStep ==
    ASSUME Base, [Next]_vars PROVE MutexOK'
<1> USE DEF Base, TypeOK, Types, MutexOK, WorkerQuiescent
<1>1. ASSUME NEW c \in Callbacks, capture_epoch(c) \/ CallbackStep(c) PROVE MutexOK'
  BY <1>1, CallbackShape DEF CallbackFrame
<1>2. ASSUME NEW o \in Owners, lock(o) PROVE MutexOK'
  BY <1>2 DEF lock, OwnerState, Free
<1>3. ASSUME NEW o \in Owners, OwnerStep(o) PROVE MutexOK'
  <2>1. CASE close_epoch(o)
    BY <2>1 DEF close_epoch, OwnerState
  <2>2. CASE rundown(o)
    BY <2>2 DEF rundown, OwnerState
  <2>3. CASE clear_state(o)
    BY <2>3 DEF clear_state, OwnerState
  <2>4. CASE reset_startup(o)
    BY <2>4 DEF reset_startup, OwnerState
  <2>5. CASE drain(o)
    BY <2>5 DEF drain, OwnerState, OwnerIdle, Free
  <2>6. CASE open_epoch(o)
    BY <2>6 DEF open_epoch, OwnerState, OwnerIdle, NoWorker, Free
  <2> QED BY <1>3, <2>1, <2>2, <2>3, <2>4, <2>5, <2>6 DEF OwnerStep
<1>4. CASE StartWorker
  BY <1>4 DEF StartWorker, WorkerOnly
<1>5. CASE WorkerStep
  <2>1. ~WorkerQuiescent
    BY <1>5 DEF WorkerStep, load_word, cas_word, check_control, wait_interrupted, drain_interrupt,
          wait_deadline, final_control_precheck, send_down
  <2> QED BY <1>5, <2>1, WorkerShape DEF WorkerFrame
<1>6. CASE CommandSignal \/ CommandCancel
  BY <1>6 DEF CommandSignal, CommandCancel
<1>7. CASE UNCHANGED vars
  BY <1>7 DEF vars
<1> QED BY <1>1, <1>2, <1>3, <1>4, <1>5, <1>6, <1>7 DEF Next

\* Closing an epoch makes it odd.
LEMMA Parity ==
    ASSUME NEW n \in Nat
    PROVE  (n % 2 = 0 => (n + 1) % 2 = 1) /\ (n % 2 # 0 => n % 2 = 1)
  OBVIOUS

\* Captured epochs are even and never ahead of the current one.
LEMMA EpochStep ==
    ASSUME Base, [Next]_vars PROVE EpochOK'
<1> USE DEF Base, TypeOK, Types, EpochOK
<1>1. ASSUME NEW c \in Callbacks, capture_epoch(c) \/ CallbackStep(c) PROVE EpochOK'
  <2>1. CallbackFrame /\ \A d \in Callbacks \ {c} : cb'[d] = cb[d]
    BY <1>1, CallbackShape
  <2>2. CASE capture_epoch(c)
    BY <2>1, <2>2 DEF capture_epoch, CallbackFrame
  <2>3. CASE CallbackStep(c)
    <3>1. /\ cb[c].pc # "out"
          /\ \/ cb'[c].pc = "out"
             \/ cb'[c].captured = cb[c].captured
             \/ cb'[c].captured = 0
      BY <2>3 DEF CallbackStep, count_in, validate_epoch, latch_suspend, load_state, cas_state,
            exhaust_attempts, signal, leave, Goto, Leaving, CbOut, CbAt, CbState
    <3>2. 0 % 2 = 0 /\ 0 <= callback_epoch
      OBVIOUS
    <3> QED BY <2>1, <3>1, <3>2 DEF CallbackFrame
  <2> QED BY <1>1, <2>2, <2>3
<1>2. ASSUME NEW o \in Owners, lock(o) \/ OwnerStep(o) PROVE EpochOK'
  <2>1. OwnerFrame /\ \A p \in Owners \ {o} : owner'[p] = owner[p]
    BY <1>2, OwnerShape
  <2>2. \A p \in Owners \ {o} : owner[p].pc = "idle" \/ lock(o)
    BY <1>2 DEF MutexOK, OwnerStep, close_epoch, rundown, clear_state, reset_startup, drain, open_epoch
  <2>3. CASE lock(o)
    BY <2>1, <2>3 DEF lock, OwnerFrame, OwnerState
  <2>4. CASE close_epoch(o)
    <3>1. callback_epoch' % 2 = 1 /\ callback_epoch <= callback_epoch'
          /\ callback_epoch \in Nat /\ callback_epoch' \in Nat
      <4>1. callback_epoch \in Nat
        OBVIOUS
      <4> QED BY <2>4, <4>1, Parity DEF close_epoch
    <3>2. \A c \in Callbacks : cb[c].captured \in Nat
      BY DEF CbState
    <3>3. \A c \in Callbacks : cb[c].pc # "out" => cb[c].captured <= callback_epoch'
      BY <3>1, <3>2
    <3>4. cb' = cb
      BY <2>1 DEF OwnerFrame
    <3> QED BY <3>1, <3>3, <3>4
  <2>5. CASE rundown(o) \/ clear_state(o) \/ reset_startup(o)
    BY <2>1, <2>5 DEF rundown, clear_state, reset_startup, OwnerFrame, OwnerState
  <2>6. CASE drain(o)
    BY <2>1, <2>6 DEF drain, OwnerFrame, OwnerState, OwnerIdle
  <2>7. CASE open_epoch(o)
    <3>1. callback_epoch <= callback_epoch' /\ callback_epoch \in Nat /\ callback_epoch' \in Nat
      BY <2>7 DEF open_epoch
    <3>2. \A c \in Callbacks : cb[c].captured \in Nat
      BY DEF CbState
    <3>3. \A p \in Owners : owner'[p].pc = "idle"
      BY <2>1, <2>2, <2>7 DEF lock, open_epoch, OwnerIdle
    <3> QED BY <2>1, <3>1, <3>2, <3>3 DEF OwnerFrame
  <2> QED BY <1>2, <2>3, <2>4, <2>5, <2>6, <2>7 DEF OwnerStep
<1>3. CASE StartWorker \/ WorkerStep
  BY <1>3, WorkerShape DEF WorkerFrame
<1>4. CASE CommandSignal \/ CommandCancel
  BY <1>4 DEF CommandSignal, CommandCancel
<1>5. CASE UNCHANGED vars
  BY <1>5 DEF vars
<1> QED BY <1>1, <1>2, <1>3, <1>4, <1>5 DEF Next

\* A callback becomes active only while the epoch it captured is current, so
\* never while an owner clears.
LEMMA ActingStep ==
    ASSUME Base, NEW c \in Callbacks, capture_epoch(c) \/ CallbackStep(c),
           cb'[c].pc \in Acting
    PROVE  \/ cb[c].pc \in Acting /\ cb'[c].captured = cb[c].captured
           \/ callback_epoch = cb'[c].captured /\ callback_epoch % 2 = 0
<1> USE DEF Base, TypeOK, Types
<1>1. CASE capture_epoch(c)
  BY <1>1 DEF capture_epoch, Acting
<1>2. CASE CallbackStep(c)
  BY <1>2 DEF CallbackStep, count_in, validate_epoch, latch_suspend, load_state, cas_state,
        exhaust_attempts, signal, leave, Goto, Leaving, CbOut, CbAt, CbState, Acting, EpochOK
<1> QED BY <1>1, <1>2

\* With nobody counted inside, nobody is active.
LEMMA NobodyInside ==
    ASSUME Base, callbacks_in_flight = 0
    PROVE  \A c \in Callbacks : cb[c].pc \notin Acting
<1>1. IsFiniteSet(InsideSet) /\ Cardinality(InsideSet) = 0
  BY FS_Subset DEF InsideSet, Base, TypeOK
<1>2. InsideSet = {}
  BY <1>1, FS_EmptySet
<1> QED BY <1>2 DEF InsideSet, Inside

\* Clearing owners and active callbacks exclude each other.
LEMMA QuietStep ==
    ASSUME Base, [Next]_vars PROVE QuietOK' /\ RundownExcludesCallbacks'
<1> DEFINE Good == QuietOK /\ RundownExcludesCallbacks
<1> SUFFICES Good'
  OBVIOUS
<1>0. Types /\ MutexOK /\ EpochOK /\ Good
  BY DEF Base, TypeOK
<1> USE DEF QuietOK, RundownExcludesCallbacks, Alone
<1>1. ASSUME NEW c \in Callbacks, capture_epoch(c) \/ CallbackStep(c) PROVE Good'
  <2>1. CallbackFrame /\ \A d \in Callbacks \ {c} : cb'[d] = cb[d]
    BY <1>0, <1>1, CallbackShape
  <2>2. cb'[c].pc \in Acting =>
          \/ cb[c].pc \in Acting /\ cb'[c].captured = cb[c].captured
          \/ callback_epoch = cb'[c].captured /\ callback_epoch % 2 = 0
    BY <1>1, ActingStep
  <2> QED BY <1>0, <2>1, <2>2 DEF CallbackFrame, EpochOK
<1>2. ASSUME NEW o \in Owners, lock(o) \/ OwnerStep(o) PROVE Good'
  <2>1. OwnerFrame /\ \A p \in Owners \ {o} : owner'[p] = owner[p]
    BY <1>0, <1>2, OwnerShape
  <2>2. owner \in [Owners -> OwnerState] /\ callback_epoch \in Nat
    BY <1>0 DEF Types
  <2>3. CASE lock(o)
    BY <1>0, <2>1, <2>2, <2>3 DEF lock, OwnerFrame, OwnerState
  <2>4. CASE OwnerStep(o)
    <3>1. \A p \in Owners \ {o} : owner[p].pc = "idle"
      BY <1>0, <2>4 DEF MutexOK, OwnerStep, close_epoch, rundown, clear_state, reset_startup, drain,
            open_epoch
    <3>2. CASE close_epoch(o)
      <4>1. \A p \in Owners : owner'[p].pc \in {"idle", "rundown"}
        BY <2>1, <2>2, <3>1, <3>2 DEF close_epoch, OwnerState
      <4>2. \A c \in Callbacks : cb[c].pc \in Acting =>
              cb[c].captured \in Nat /\ cb[c].captured % 2 = 0
        BY <1>0 DEF Types, CbState, EpochOK, Acting
      <4>3. \A c \in Callbacks : cb[c].pc \in Acting => callback_epoch' = cb[c].captured + 1
        BY <1>0, <2>2, <3>2, <4>2 DEF close_epoch
      <4> QED BY <2>1, <4>1, <4>3 DEF OwnerFrame
    <3>3. CASE rundown(o)
      BY <1>0, <2>1, <2>2, <3>1, <3>3, NobodyInside DEF rundown, OwnerFrame, OwnerState
    <3>4. CASE clear_state(o) \/ reset_startup(o)
      BY <1>0, <2>1, <2>2, <3>1, <3>4 DEF clear_state, reset_startup, OwnerFrame, OwnerState
    <3>5. CASE drain(o)
      BY <1>0, <2>1, <2>2, <3>1, <3>5 DEF drain, OwnerFrame, OwnerState, OwnerIdle
    <3>6. CASE open_epoch(o)
      BY <1>0, <2>1, <2>2, <3>1, <3>6 DEF open_epoch, OwnerFrame, OwnerState, OwnerIdle
    <3> QED BY <2>4, <3>2, <3>3, <3>4, <3>5, <3>6 DEF OwnerStep
  <2> QED BY <1>2, <2>3, <2>4
<1>3. CASE StartWorker \/ WorkerStep
  BY <1>0, <1>3, WorkerShape DEF WorkerFrame
<1>4. CASE CommandSignal \/ CommandCancel
  BY <1>0, <1>4 DEF CommandSignal, CommandCancel
<1>5. CASE UNCHANGED vars
  BY <1>0, <1>5 DEF vars
<1> QED BY <1>1, <1>2, <1>3, <1>4, <1>5 DEF Next

\* The rundown invariant is inductive.
LEMMA BaseStep == Base /\ [Next]_vars => Base'
<1> SUFFICES ASSUME Base, [Next]_vars PROVE Base'
  OBVIOUS
<1>1. TypeOK' /\ TriesOK' /\ SeenOK'
  BY TypeStep DEF Base
<1> QED BY <1>1, MutexStep, EpochStep, QuietStep DEF Base

\* The endpoint starts closed, with nobody inside.
LEMMA BaseInit == Init => Base
<1> SUFFICES ASSUME Init PROVE Base
  OBVIOUS
<1> USE DEF Init
<1>1. {c \in Callbacks : cb[c].pc \in Inside} = {}
  BY DEF CbOut, CbAt, Inside, Acting
<1>2. TypeOK
  <2>1. 1 \in 0 .. LastEpoch
    BY EpochAssumption
  <2>2. Types
    BY <2>1, NullTypes DEF Types, Bits, Free
  <2>3. Cardinality({c \in Callbacks : cb[c].pc \in Inside}) = 0
    BY <1>1, FS_EmptySet
  <2> QED BY <2>2, <2>3 DEF TypeOK
<1>3. TriesOK /\ SeenOK /\ EpochOK
  BY DEF TriesOK, SeenOK, EpochOK, CbOut, CbAt, NoWorker, OwnerIdle
<1>4. MutexOK
  BY DEF MutexOK, OwnerIdle, Free
<1>5. QuietOK /\ RundownExcludesCallbacks
  BY DEF QuietOK, RundownExcludesCallbacks, CbOut, CbAt, Acting
<1> QED BY <1>2, <1>3, <1>4, <1>5 DEF Base

\* The base invariant holds throughout.
LEMMA BaseInvariant == Spec => []Base
  BY BaseInit, BaseStep, PTL DEF Spec

\* The state stays well formed and callbacks_in_flight is exactly the number
\* of callbacks between their fetch_add and fetch_sub, for any number of
\* notification threads.
THEOREM TypeCorrect == Spec => []TypeOK
<1>1. Base => TypeOK
  BY DEF Base
<1> QED BY <1>1, BaseInvariant, PTL

\* Once a lifecycle operation starts to clear, no callback of the old session
\* can act, and none ever acts in a later session.
THEOREM RundownExcludes == Spec => []RundownExcludesCallbacks
<1>1. Base => RundownExcludesCallbacks
  BY DEF Base
<1> QED BY <1>1, BaseInvariant, PTL

----------------------------------------------------------------------------
(***************************************************************************)
(* What the clearing leaves, and what the latch guarantees.                *)
(***************************************************************************)

\* How far an owner has got with its clearing.
CleanOK ==
    \A o \in Owners :
        /\ owner[o].pc = "clear_word" => state = {}
        /\ owner[o].pc = "drain" => state = {} /\ (owner[o].op = "reset" => word \in FreshWords)
        /\ owner[o].pc = "open" => state = {} /\ word \in FreshWords /\ "power" \notin interrupt

\* A callback that may record the suspended state has latched, or has seen a
\* state that was recorded after a latch.
LatchOK ==
    /\ SuspendedImpliesLatched
    /\ \A c \in Callbacks :
         \/ cb[c].pc \in {"cas", "overflow"}
         \/ cb[c].pc = "load" /\ cb[c].suspended
         => word.suspend

\* A late Down brings the worker back to its control check.
LateOK == late # 0 => late = 1 /\ word.suspend /\ worker.pc \in {"check", "done"}

OnItsWay == \E c \in Callbacks : cb[c].pc = "signal"
Pending == \E c \in Callbacks : cb[c].suspended /\ cb[c].pc \in {"load", "cas", "overflow"}
WakeOK ==
    worker.pc = "wait" =>
        /\ "OS_SUSPENDED" \in state => interrupt # {} \/ OnItsWay
        /\ word.suspend => interrupt # {} \/ OnItsWay \/ Pending

Full == Base /\ CleanOK /\ LatchOK /\ LateOK /\ WakeOK

\* A fresh word carries no latch.
LEMMA FreshUnlatched ==
    ASSUME NEW w \in FreshWords PROVE ~w.suspend
<1>1. CASE w = IdleWord
  BY <1>1, NullTypes
<1>2. CASE \E reason \in CommandReasons : w = cancelled(IdleWord, reason)
  BY <1>2, CancelledType, NullTypes
<1> QED BY <1>1, <1>2 DEF FreshWords

\* A fresh word can be cancelled only once, and is fresh afterwards.
LEMMA FreshCancelled ==
    ASSUME NEW w \in FreshWords, NEW reason \in CommandReasons, cancellable(w, reason)
    PROVE  cancelled(w, reason) \in FreshWords
<1>1. CASE w = IdleWord
  BY <1>1 DEF FreshWords
<1>2. CASE \E why \in CommandReasons : w = cancelled(IdleWord, why)
  BY <1>2, CancelledType, NullTypes DEF cancellable, PreArm
<1> QED BY <1>1, <1>2 DEF FreshWords

\* A callback without authority changes nothing that is shared.
LEMMA InactiveCallback ==
    ASSUME NEW c \in Callbacks, capture_epoch(c) \/ CallbackStep(c), cb[c].pc \notin Acting
    PROVE  UNCHANGED <<state, word, interrupt>>
  BY DEF CallbackStep, capture_epoch, count_in, validate_epoch, latch_suspend, load_state,
         cas_state, exhaust_attempts, signal, leave, Acting

\* Steps of a callback keep the latch invariants.
LEMMA CallbackFull ==
    ASSUME Full, NEW c \in Callbacks, capture_epoch(c) \/ CallbackStep(c)
    PROVE  CleanOK' /\ LatchOK' /\ LateOK' /\ WakeOK'
<1>0. /\ Types /\ QuietOK /\ CleanOK /\ LatchOK /\ LateOK /\ WakeOK
      /\ cb[c] \in CbState
      /\ CallbackFrame /\ \A d \in Callbacks \ {c} : cb'[d] = cb[d]
  <2>1. Types /\ QuietOK /\ CleanOK /\ LatchOK /\ LateOK /\ WakeOK
    BY DEF Full, Base, TypeOK
  <2> QED BY <2>1, CallbackShape DEF Types
<1>1. CleanOK'
  <2>1. CASE cb[c].pc \in Acting
    BY <1>0, <2>1 DEF CleanOK, QuietOK, Alone, CallbackFrame
  <2>2. CASE cb[c].pc \notin Acting
    BY <1>0, <2>2, InactiveCallback DEF CleanOK, CallbackFrame
  <2> QED BY <2>1, <2>2
<1>2. word.suspend => word'.suspend
  BY <1>0 DEF CallbackStep, capture_epoch, count_in, validate_epoch, latch_suspend, load_state,
         cas_state, exhaust_attempts, signal, leave, Types, Word
<1>3. LateOK'
  BY <1>0, <1>2 DEF LateOK, CallbackFrame
<1> USE DEF Types, CbState
<1>4. CASE capture_epoch(c) \/ count_in(c) \/ validate_epoch(c) \/ leave(c)
  <2>1. UNCHANGED <<state, word, interrupt>>
    BY <1>4 DEF capture_epoch, count_in, validate_epoch, leave
  <2>2. /\ cb[c].pc \notin {"load", "cas", "overflow", "signal"}
        /\ cb'[c].pc \notin {"load", "cas", "overflow", "signal"}
    BY <1>0, <1>4 DEF capture_epoch, count_in, validate_epoch, leave, Goto, Leaving, CbOut, CbAt
  <2>3. (OnItsWay => OnItsWay') /\ (Pending => Pending')
    BY <1>0, <2>2 DEF OnItsWay, Pending
  <2>4. LatchOK'
    BY <1>0, <2>1, <2>2 DEF LatchOK, SuspendedImpliesLatched
  <2> QED BY <1>0, <1>1, <1>3, <2>1, <2>3, <2>4 DEF WakeOK, CallbackFrame
<1>5. CASE latch_suspend(c)
  <2>1. /\ UNCHANGED <<state, interrupt>> /\ cb[c].pc = "authorized"
        /\ cb'[c].pc = "load" /\ cb'[c].suspended = cb[c].suspended
        /\ cb[c].suspended => word'.suspend
        /\ ~cb[c].suspended => word'.suspend = word.suspend
    BY <1>0, <1>5 DEF latch_suspend, Goto, Word
  <2>2. (OnItsWay => OnItsWay') /\ (Pending => Pending') /\ (cb[c].suspended => Pending')
    BY <1>0, <2>1 DEF OnItsWay, Pending
  <2>3. LatchOK'
    BY <1>0, <1>2, <2>1 DEF LatchOK, SuspendedImpliesLatched
  <2> QED BY <1>0, <1>1, <1>3, <2>1, <2>2, <2>3 DEF WakeOK, CallbackFrame
<1>6. CASE load_state(c)
  <2>1. UNCHANGED <<state, word, interrupt>> /\ cb[c].pc = "load"
    BY <1>6 DEF load_state
  <2>2. CASE ("OS_SUSPENDED" \in state) = cb[c].suspended
    <3>1. cb'[c].pc = "leaving"
      BY <1>0, <1>6, <2>2 DEF load_state, Goto, Leaving, CbAt
    <3>2. OnItsWay => OnItsWay'
      BY <1>0, <2>1 DEF OnItsWay
    <3>3. cb[c].suspended \/ (Pending => Pending')
      BY <1>0, <2>1 DEF Pending
    <3>4. LatchOK'
      BY <1>0, <2>1, <3>1 DEF LatchOK, SuspendedImpliesLatched
    <3> QED BY <1>0, <1>1, <1>3, <2>1, <2>2, <3>2, <3>3, <3>4 DEF WakeOK, CallbackFrame
  <2>3. CASE ("OS_SUSPENDED" \in state) # cb[c].suspended
    <3>1. cb'[c].pc = "cas" /\ cb'[c].suspended = cb[c].suspended
      BY <1>0, <1>6, <2>3 DEF load_state
    <3>2. (OnItsWay => OnItsWay') /\ (Pending => Pending')
      BY <1>0, <2>1, <3>1 DEF OnItsWay, Pending
    <3>3. word.suspend
      BY <1>0, <2>1, <2>3 DEF LatchOK, SuspendedImpliesLatched
    <3>4. LatchOK'
      BY <1>0, <2>1, <3>1, <3>3 DEF LatchOK, SuspendedImpliesLatched
    <3> QED BY <1>0, <1>1, <1>3, <2>1, <3>2, <3>4 DEF WakeOK, CallbackFrame
  <2> QED BY <2>2, <2>3
<1>7. CASE cas_state(c)
  <2>1. UNCHANGED <<word, interrupt>> /\ cb[c].pc = "cas" /\ word.suspend
    BY <1>0, <1>7 DEF cas_state, LatchOK
  <2>2. CASE state = cb[c].seen
    <3>1. cb'[c].pc = "signal"
      BY <1>0, <1>7, <2>2 DEF cas_state, Goto
    <3>2. OnItsWay'
      BY <3>1 DEF OnItsWay
    <3>3. LatchOK'
      BY <1>0, <2>1, <3>1 DEF LatchOK, SuspendedImpliesLatched
    <3> QED BY <1>1, <1>3, <3>2, <3>3 DEF WakeOK
  <2>3. CASE state # cb[c].seen
    <3>1. /\ state' = state /\ cb'[c].pc \in {"load", "overflow"}
          /\ cb'[c].suspended = cb[c].suspended
      BY <1>0, <1>7, <2>3 DEF cas_state
    <3>2. (OnItsWay => OnItsWay') /\ (Pending => Pending')
      BY <1>0, <2>1, <3>1 DEF OnItsWay, Pending
    <3>3. LatchOK'
      BY <1>0, <2>1, <3>1 DEF LatchOK, SuspendedImpliesLatched
    <3> QED BY <1>0, <1>1, <1>3, <2>1, <3>1, <3>2, <3>3 DEF WakeOK, CallbackFrame
  <2> QED BY <2>2, <2>3
<1>8. CASE exhaust_attempts(c)
  <2>1. UNCHANGED <<word, interrupt>> /\ cb'[c].pc = "signal" /\ word.suspend
    BY <1>0, <1>8 DEF exhaust_attempts, Goto, LatchOK
  <2>2. OnItsWay' /\ LatchOK'
    BY <1>0, <2>1 DEF OnItsWay, LatchOK, SuspendedImpliesLatched
  <2> QED BY <1>1, <1>3, <2>2 DEF WakeOK
<1>9. CASE signal(c)
  <2>1. UNCHANGED <<word, state>> /\ cb'[c].pc = "leaving" /\ interrupt' # {}
    BY <1>0, <1>9 DEF signal, Goto, Leaving, CbAt
  <2>2. LatchOK'
    BY <1>0, <2>1 DEF LatchOK, SuspendedImpliesLatched
  <2> QED BY <1>1, <1>3, <2>1, <2>2 DEF WakeOK
<1> QED BY <1>4, <1>5, <1>6, <1>7, <1>8, <1>9 DEF CallbackStep

\* Steps of an owner keep the latch invariants: it clears only while no
\* callback acts and no worker runs.
LEMMA OwnerFull ==
    ASSUME Full, NEW o \in Owners, lock(o) \/ OwnerStep(o)
    PROVE  CleanOK' /\ LatchOK' /\ LateOK' /\ WakeOK'
<1>0. /\ Types /\ MutexOK /\ QuietOK /\ CleanOK /\ LatchOK /\ LateOK /\ WakeOK
      /\ owner[o] \in OwnerState
      /\ OwnerFrame /\ \A p \in Owners \ {o} : owner'[p] = owner[p]
  <2>1. Types /\ MutexOK /\ QuietOK /\ CleanOK /\ LatchOK /\ LateOK /\ WakeOK
    BY DEF Full, Base, TypeOK
  <2> QED BY <2>1, OwnerShape DEF Types
<1>1. WorkerQuiescent /\ WorkerQuiescent'
  <2>1. CASE lock(o)
    BY <2>1 DEF lock, WorkerQuiescent
  <2>2. CASE OwnerStep(o)
    <3>1. lifecycle = o /\ lifecycle # Free
      BY <1>0, <2>2 DEF MutexOK, OwnerStep, close_epoch, rundown, clear_state, reset_startup,
             drain, open_epoch, Free
    <3>2. WorkerQuiescent
      BY <1>0, <3>1 DEF MutexOK
    <3>3. worker' \in {worker, NoWorker}
      BY <2>2 DEF OwnerStep, close_epoch, rundown, clear_state, reset_startup, drain, open_epoch
    <3> QED BY <3>2, <3>3 DEF WorkerQuiescent, NoWorker
  <2> QED BY <2>1, <2>2
<1>2. WakeOK'
  BY <1>1 DEF WakeOK, WorkerQuiescent
<1>3. \A p \in Owners \ {o} : owner[p].pc = "idle" /\ owner'[p].pc = "idle"
  <2>1. CASE lock(o)
    BY <1>0, <2>1 DEF lock, MutexOK, Free
  <2>2. CASE OwnerStep(o)
    BY <1>0, <2>2 DEF MutexOK, OwnerStep, close_epoch, rundown, clear_state, reset_startup,
           drain, open_epoch
  <2> QED BY <2>1, <2>2
<1>4. CASE lock(o) \/ close_epoch(o) \/ rundown(o)
  <2>1. UNCHANGED <<state, word, interrupt, worker, late>>
    BY <1>4 DEF lock, close_epoch, rundown
  <2>2. owner'[o].pc \in {"locked", "rundown", "clear"}
    BY <1>0, <1>4 DEF lock, close_epoch, rundown, Types, OwnerState
  <2>3. CleanOK'
    BY <1>3, <2>2 DEF CleanOK
  <2>4. LatchOK' /\ LateOK'
    BY <1>0, <2>1 DEF LatchOK, SuspendedImpliesLatched, LateOK, OwnerFrame
  <2> QED BY <1>2, <2>3, <2>4
<1>5. CASE clear_state(o)
  <2>1. state' = {} /\ UNCHANGED <<word, worker, late>> /\ owner[o].pc = "clear"
    BY <1>5 DEF clear_state
  <2>2. /\ owner'[o].pc \in {"clear_word", "drain"}
        /\ owner'[o].pc = "drain" => owner'[o].op # "reset"
    BY <1>0, <1>5 DEF clear_state, Types, OwnerState
  <2>3. CleanOK'
    BY <1>3, <2>1, <2>2 DEF CleanOK
  <2>4. LatchOK' /\ LateOK'
    BY <1>0, <2>1 DEF LatchOK, SuspendedImpliesLatched, LateOK, OwnerFrame
  <2> QED BY <1>2, <2>3, <2>4
<1>6. CASE reset_startup(o)
  <2>1. /\ word' = IdleWord /\ late' = 0 /\ UNCHANGED <<state, worker>>
        /\ owner[o].pc = "clear_word" /\ owner'[o].pc = "drain"
    BY <1>0, <1>6 DEF reset_startup, Types, OwnerState
  <2>2. state = {}
    BY <1>0, <2>1 DEF CleanOK
  <2>3. CleanOK'
    BY <1>3, <2>1, <2>2 DEF CleanOK, FreshWords
  <2>4. \A c \in Callbacks : cb'[c].pc \notin Acting
    BY <1>0, <2>1 DEF QuietOK, Alone, OwnerFrame
  <2>5. LatchOK'
    BY <2>1, <2>2, <2>4 DEF LatchOK, SuspendedImpliesLatched, Acting
  <2>6. LateOK'
    BY <2>1 DEF LateOK
  <2> QED BY <1>2, <2>3, <2>5, <2>6
<1>7. CASE drain(o)
  <2>1. interrupt' = {} /\ UNCHANGED <<state, word, worker, late>> /\ owner[o].pc = "drain"
    BY <1>7 DEF drain
  <2>2. \/ owner'[o].pc = "idle"
        \/ owner'[o].pc = "open" /\ owner[o].op = "reset"
    BY <1>0, <1>7 DEF drain, Types, OwnerState, OwnerIdle
  <2>3. state = {} /\ (owner[o].op = "reset" => word \in FreshWords)
    BY <1>0, <2>1 DEF CleanOK
  <2>4. CleanOK'
    BY <1>3, <2>1, <2>2, <2>3 DEF CleanOK
  <2>5. LatchOK' /\ LateOK'
    BY <1>0, <2>1 DEF LatchOK, SuspendedImpliesLatched, LateOK, OwnerFrame
  <2> QED BY <1>2, <2>4, <2>5
<1>8. CASE open_epoch(o)
  <2>1. UNCHANGED <<state, word, late>> /\ owner[o].pc = "open" /\ owner'[o].pc = "idle"
    BY <1>0, <1>8 DEF open_epoch, Types, OwnerIdle
  <2>2. ~word.suspend
    BY <1>0, <2>1, FreshUnlatched DEF CleanOK
  <2>3. CleanOK'
    BY <1>3, <2>1 DEF CleanOK
  <2>4. LatchOK'
    BY <1>0, <2>1 DEF LatchOK, SuspendedImpliesLatched, OwnerFrame
  <2>5. LateOK'
    BY <1>0, <2>1, <2>2 DEF LateOK
  <2> QED BY <1>2, <2>3, <2>4, <2>5
<1> QED BY <1>4, <1>5, <1>6, <1>7, <1>8 DEF OwnerStep

\* Steps of the worker keep the latch invariants: a running worker means that
\* no owner is inside an operation.
LEMMA WorkerFull ==
    ASSUME Full, StartWorker \/ WorkerStep
    PROVE  CleanOK' /\ LatchOK' /\ LateOK' /\ WakeOK'
<1>0. Types /\ SeenOK /\ MutexOK /\ LatchOK /\ LateOK /\ WakeOK /\ WorkerFrame
  BY WorkerShape DEF Full, Base, TypeOK
<1>1. lifecycle = Free
  BY <1>0 DEF MutexOK, WorkerQuiescent, StartWorker, WorkerStep, load_word, cas_word,
         check_control, wait_interrupted, drain_interrupt, wait_deadline,
         final_control_precheck, send_down
<1>2. \A o \in Owners : owner'[o].pc = "idle"
  BY <1>0, <1>1 DEF MutexOK, Free, WorkerFrame
<1>3. CleanOK'
  BY <1>2 DEF CleanOK
<1>4. word'.suspend = word.suspend
  <2>1. CASE cas_word
    BY <1>0, <2>1, MovedType DEF cas_word, Types, SeenOK
  <2>2. CASE ~cas_word
    BY <2>2 DEF StartWorker, WorkerStep, WorkerOnly, load_word, check_control,
         wait_interrupted, drain_interrupt, wait_deadline, final_control_precheck, send_down
  <2> QED BY <2>1, <2>2
<1>5. LatchOK'
  BY <1>0, <1>4 DEF LatchOK, SuspendedImpliesLatched, WorkerFrame
<1>6. LateOK' /\ WakeOK'
  <2> USE DEF LateOK, WakeOK, WorkerFrame, Types, WorkerState, SetWorker, WorkerOnly
  <2>1. CASE StartWorker
    BY <1>0, <2>1 DEF StartWorker
  <2>2. CASE load_word
    BY <1>0, <2>2 DEF load_word
  <2>3. CASE cas_word
    <3>1. late = 0 /\ late' = 0 /\ worker'.pc # "wait"
      BY <1>0, <2>3 DEF cas_word
    <3> QED BY <3>1
  <2>4. CASE check_control
    BY <1>0, <2>4 DEF check_control, system_suspend_terminal, LatchOK, SuspendedImpliesLatched
  <2>5. CASE wait_interrupted \/ drain_interrupt
    BY <1>0, <2>5 DEF wait_interrupted, drain_interrupt
  <2>6. CASE wait_deadline
    BY <1>0, <2>6 DEF wait_deadline
  <2>7. CASE final_control_precheck
    BY <1>0, <2>7 DEF final_control_precheck
  <2>8. CASE send_down
    BY <1>0, <2>8 DEF send_down
  <2> QED BY <2>1, <2>2, <2>3, <2>4, <2>5, <2>6, <2>7, <2>8 DEF WorkerStep
<1> QED BY <1>3, <1>5, <1>6

\* The full invariant is inductive.
LEMMA FullStep == Full /\ [Next]_vars => Full'
<1> SUFFICES ASSUME Full, [Next]_vars PROVE Full'
  OBVIOUS
<1>1. Base'
  BY BaseStep DEF Full
<1>2. CASE \E c \in Callbacks : capture_epoch(c) \/ CallbackStep(c)
  BY <1>1, <1>2, CallbackFull DEF Full
<1>3. CASE \E o \in Owners : lock(o) \/ OwnerStep(o)
  BY <1>1, <1>3, OwnerFull DEF Full
<1>4. CASE StartWorker \/ WorkerStep
  BY <1>1, <1>4, WorkerFull DEF Full
<1>5. CASE CommandSignal
  <2>1. /\ interrupt' = interrupt \cup {"command"}
        /\ UNCHANGED <<state, word, cb, owner, worker, late>>
    BY <1>5 DEF CommandSignal
  <2>2. interrupt' # {} /\ ("power" \in interrupt' => "power" \in interrupt)
    BY <2>1
  <2>3. CleanOK' /\ LatchOK' /\ LateOK'
    BY <2>1, <2>2 DEF Full, CleanOK, LatchOK, SuspendedImpliesLatched, LateOK
  <2>4. WakeOK'
    BY <2>2 DEF WakeOK
  <2> QED BY <1>1, <2>3, <2>4 DEF Full
<1>6. CASE CommandCancel
  <2>1. UNCHANGED <<state, interrupt, cb, owner, worker, late>> /\ word \in Word
    BY <1>6 DEF CommandCancel, Full, Base, TypeOK, Types
  <2>2. word'.suspend = word.suspend
    BY <1>6, <2>1, CancelledType DEF CommandCancel
  <2>3. word \in FreshWords => word' \in FreshWords
    BY <1>6, FreshCancelled DEF CommandCancel
  <2>4. CleanOK'
    BY <2>1, <2>3 DEF Full, CleanOK
  <2>5. LatchOK' /\ LateOK'
    BY <2>1, <2>2 DEF Full, LatchOK, SuspendedImpliesLatched, LateOK
  <2>6. WakeOK'
    BY <2>1, <2>2 DEF Full, WakeOK, OnItsWay, Pending
  <2> QED BY <1>1, <2>4, <2>5, <2>6 DEF Full
<1>7. CASE UNCHANGED vars
  <2>1. CleanOK' /\ LatchOK' /\ LateOK'
    BY <1>7 DEF vars, Full, CleanOK, LatchOK, SuspendedImpliesLatched, LateOK
  <2>2. WakeOK'
    BY <1>7 DEF vars, Full, WakeOK, OnItsWay, Pending
  <2> QED BY <1>1, <2>1, <2>2 DEF Full
<1> QED BY <1>2, <1>3, <1>4, <1>5, <1>6, <1>7 DEF Next

\* Nothing is latched, pending or late at the start.
LEMMA FullInit == Init => Full
<1> SUFFICES ASSUME Init PROVE Full
  OBVIOUS
<1>1. Base
  BY BaseInit
<1>2. CleanOK /\ LatchOK /\ LateOK /\ WakeOK
  BY DEF Init, CleanOK, LatchOK, SuspendedImpliesLatched, LateOK, WakeOK, CbOut, CbAt, OwnerIdle,
         NoWorker
<1> QED BY <1>1, <1>2 DEF Full

\* The full invariant holds throughout.
LEMMA FullInvariant == Spec => []Full
  BY FullInit, FullStep, PTL DEF Spec

\* The recorded OS state never says suspended without the terminal latch,
\* whichever callbacks raced and whichever ran out of attempts.
THEOREM SuspendIsLatched == Spec => []SuspendedImpliesLatched
<1>1. Full => SuspendedImpliesLatched
  BY DEF Full, LatchOK
<1> QED BY <1>1, FullInvariant, PTL

\* At most the one Down already past its final gate follows the latch.
THEOREM OneLateDown == Spec => []AtMostOneLateDown
<1>1. Full => AtMostOneLateDown
  BY DEF Full, LateOK, AtMostOneLateDown, Base, TypeOK, Types
<1> QED BY <1>1, FullInvariant, PTL

\* The wake-up of a waiting worker is never lost.
THEOREM LatchedWorkerIsWoken == Spec => []LatchWakesWorker
<1>1. Full => LatchWakesWorker
  BY DEF Full, WakeOK, OnItsWay, Pending, LatchWakesWorker
<1> QED BY <1>1, FullInvariant, PTL

\* A session opens its epoch with nothing left of earlier notifications, and
\* with a word that at most a delayed command has cancelled.
THEOREM SessionsStartClean == Spec => SessionStartsClean
<1>1. Full => \A o \in Owners : open_epoch(o) =>
                  state = {} /\ word \in FreshWords /\ "power" \notin interrupt
  BY DEF Full, CleanOK, open_epoch
<1>2. Full /\ [Next]_vars =>
        [\A o \in Owners : open_epoch(o) /\ callback_epoch' # callback_epoch
           => state = {} /\ word \in FreshWords /\ "power" \notin interrupt]_vars
  BY <1>1
<1> QED BY <1>2, FullInvariant, PTL DEF Spec, SessionStartsClean

\* A latched word is never published as Armed.
THEOREM LatchedWordNeverArms == Spec => LatchedNeverArms
<1>1. Full /\ [Next]_vars => [word.suspend => (word'.armed => word.armed)]_vars
  <2> SUFFICES ASSUME Full, Next, word.suspend, word'.armed PROVE word.armed
    OBVIOUS
  <2>0. Types /\ SeenOK
    BY DEF Full, Base, TypeOK
  <2>1. CASE cas_word
    BY <2>0, <2>1 DEF cas_word, SeenOK
  <2>2. CASE \E o \in Owners : reset_startup(o)
    BY <2>2 DEF reset_startup, IdleWord, startup_word
  <2>3. CASE \E c \in Callbacks : latch_suspend(c)
    BY <2>0, <2>3 DEF latch_suspend, Types, Word
  <2>4. CASE word' = word
    BY <2>4
  <2>5. CASE CommandCancel
    BY <2>0, <2>5, CancelledType DEF CommandCancel, Types
  <2>6. cas_word \/ (\E o \in Owners : reset_startup(o)) \/ CommandCancel
        \/ (\E c \in Callbacks : latch_suspend(c)) \/ word' = word
    BY DEF Next, CallbackStep, capture_epoch, count_in, validate_epoch, load_state, cas_state,
           exhaust_attempts, signal, leave, lock, OwnerStep, close_epoch, rundown, clear_state,
           drain, open_epoch, StartWorker, WorkerStep, WorkerOnly, load_word, check_control,
           wait_interrupted, drain_interrupt, wait_deadline, final_control_precheck, send_down,
           CommandSignal
  <2> QED BY <2>1, <2>2, <2>3, <2>4, <2>5, <2>6
<1> QED BY <1>1, FullInvariant, PTL DEF Spec, LatchedNeverArms
============================================================================
