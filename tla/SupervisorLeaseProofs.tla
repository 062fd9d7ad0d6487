----------------------- MODULE SupervisorLeaseProofs -----------------------
(***************************************************************************)
(* Safety of the supervisor lease, for any set of supervisors, any timeout *)
(* and any length of time.                                                 *)
(*                                                                         *)
(* The argument: the threads that race on the lease word only ever move    *)
(* its stamp forward and its expiry bit up (LeaseGrows), because what a    *)
(* renewing compare-exchange expects was not expired and not newer than    *)
(* its sample (SamplesOK).  So a proof of age stays true until the Down or *)
(* the arm that rests on it (ProofOK), and a worker that has sent one Down *)
(* too late meets the bit at its next control check (LateOK).              *)
(***************************************************************************)
EXTENDS SupervisorLease, TLAPS

USE TimeoutAssumption, MaxTicksAssumption, SupervisorsAssumption

\* A thread that works with a sample has taken it, and a renewal expects a
\* lease that its sample may replace.
SamplesOK ==
    \A t \in Threads :
      /\ th[t].pc \in {"load", "expire", "renew"} => th[t].at \in Ticks /\ th[t].at <= now
      /\ th[t].pc = "renew" => ~th[t].seen.expired /\ th[t].at >= th[t].seen.ticks

\* Completion finds the watchdog asleep or gone.
CompletedOK == completed => th[Watchdog].pc \in {"wait", "done"}

\* A late Down leaves the worker where it can send no other.
LateOK ==
    /\ late <= 1
    /\ late > 0 => lease.expired /\ worker.pc \in {"control", "finish", "complete", "done"}

\* The age that the worker has proved.
Proven == worker.at > 0 /\ worker.at <= lease.ticks + Timeout
ProofOK ==
    /\ worker.pc \in {"prove", "prove_cas", "reload"} => worker.at > 0
    /\ worker.pc \in {"epoch", "final", "send"} => Proven
    /\ worker.pc \in {"load", "cas"} /\ word.phase = "Arming" => Proven

\* What the worker loaded before its compare-exchange could be moved.
SeenOK == worker.pc = "cas" => worker.word.phase \in PreArm

Inv == TypeOK /\ SamplesOK /\ CompletedOK /\ LateOK /\ ProofOK /\ SeenOK

\* What every step does to the lease.
LeaseGrows ==
    /\ lease' \in Lease
    /\ lease'.ticks >= lease.ticks /\ lease'.ticks <= now
    /\ lease.expired => lease'.expired

\* What anyone but the worker's moves may do to the startup word.
WordStays ==
    word' \in Word /\ word'.armed = word.armed
      /\ (word' = word \/ word'.phase \in {"Cancelled", "Failed"})

\* The null values are typed.
LEMMA NullTypes == NoLease \in Lease /\ IdleWord \in Word
BY DEF NoLease, Lease, Ticks, IdleWord, startup_word, Word, Phase, Reason

\* The worker's move yields a word, armed only if it leaves Arming.
LEMMA MovedWord ==
  ASSUME NEW w \in Word, w.phase \in PreArm
  PROVE  /\ moved(w) \in Word
         /\ w.phase # "Arming" => moved(w).armed = FALSE
<1>1. NextPhase(w.phase) \in Phase /\ (w.phase # "Arming" => NextPhase(w.phase) # "Armed")
  BY DEF NextPhase, PreArm, Phase
<1>2. \A p \in Phase, r, a, s \in BOOLEAN :
        [phase |-> p, reason |-> "None", ready |-> r, armed |-> a, suspend |-> s] \in Word
  BY DEF Word, Reason
<1>3. w.suspend \in BOOLEAN
  BY DEF Word
<1>4. moved(w) \in Word
  BY <1>1, <1>2, <1>3, Zenon DEF moved
<1>5. moved(w).armed = (NextPhase(w.phase) = "Armed")
  BY Zenon DEF moved
<1> QED BY <1>1, <1>4, <1>5

\* Cancellation and failure leave the evidence alone.
LEMMA CancelledWord ==
  ASSUME NEW w \in Word
  PROVE  /\ cancel_prearm(w) \in Word /\ cancel_prearm(w).armed = w.armed
         /\ cancel_prearm(w) = w \/ cancel_prearm(w).phase = "Cancelled"
         /\ failed(w, "WorkerFailure") \in Word
         /\ failed(w, "WorkerFailure").armed = w.armed
         /\ failed(w, "WorkerFailure").phase = "Failed"
BY DEF cancel_prearm, cancelled, failed, Word, Phase, Reason, ErrorReason

\* The initial state: the session has just been started.
LEMMA InitInv == Init => Inv
<1> SUFFICES ASSUME Init PROVE Inv
  OBVIOUS
<1>1. TypeOK
  <2>1. th \in [Threads -> Thread]
    BY NullTypes DEF Init, Thread
  <2>2. worker \in Worker
    BY NullTypes DEF Init, Worker, WorkerPc
  <2>3. lease = NoLease /\ lease.ticks <= now /\ now \in Ticks /\ word = IdleWord
    BY DEF Init, NoLease, Ticks
  <2>4. /\ panic_requested \in BOOLEAN /\ interrupt \in BOOLEAN /\ completed \in BOOLEAN
        /\ late \in Nat
    BY DEF Init
  <2> QED BY <2>1, <2>2, <2>3, <2>4, NullTypes DEF TypeOK
<1>2. SamplesOK
  BY DEF Init, SamplesOK
<1>3. CompletedOK /\ LateOK /\ SeenOK
  BY DEF Init, CompletedOK, LateOK, SeenOK
<1>4. ProofOK
  BY DEF Init, ProofOK, IdleWord, startup_word
<1> QED BY <1>1, <1>2, <1>3, <1>4 DEF Inv

\* A step of a supervisor or of the watchdog.
ThreadAction(t) ==
    \/ ThreadStep(t)
    \/ t \in Supervisors /\ publish_supervisor_progress(t)
    \/ t = Watchdog /\ (watchdog_check \/ watchdog_wait \/ watchdog_wake)

\* It touches its own locals only, and the lease and the word in one direction.
LEMMA ThreadFrame ==
  ASSUME Inv, NEW t \in Threads, ThreadAction(t)
  PROVE  /\ UNCHANGED <<now, completed, worker, late>>
         /\ LeaseGrows /\ WordStays
         /\ panic_requested' \in BOOLEAN /\ interrupt' \in BOOLEAN
<1> USE DEF Inv, TypeOK
<1>0. th[t] \in Thread
  OBVIOUS
<1>w. word' = word => WordStays
  BY DEF WordStays
<1>l. lease' = lease => LeaseGrows
  BY DEF LeaseGrows, Lease, Ticks
<1>e. ASSUME lease' = [lease EXCEPT !.expired = TRUE] PROVE LeaseGrows
  <2>1. lease.ticks \in Ticks /\ lease.ticks <= now /\ lease.ticks \in Nat
    BY DEF Lease, Ticks
  <2>2. lease' = [ticks |-> lease.ticks, expired |-> TRUE]
    BY <1>e DEF Lease
  <2> QED BY <2>1, <2>2 DEF LeaseGrows, Lease
<1>1. CASE publish_supervisor_progress(t) \/ load_lease(t) \/ watchdog_check \/ watchdog_wait
             \/ watchdog_wake
  <2>1. UNCHANGED Shared
    BY <1>1 DEF publish_supervisor_progress, load_lease, watchdog_check, watchdog_wait,
                watchdog_wake
  <2> QED BY <2>1, <1>w, <1>l DEF Shared
<1>2. CASE cas_expire(t)
  BY <1>2, <1>w, <1>l, <1>e DEF cas_expire
<1>3. CASE cas_renew(t)
  <2>1. /\ th[t].at \in Ticks /\ th[t].at <= now
        /\ ~th[t].seen.expired /\ th[t].at >= th[t].seen.ticks
    BY <1>3 DEF cas_renew, SamplesOK
  <2>2. lease' = lease \/ (lease = th[t].seen /\ lease' = [ticks |-> th[t].at, expired |-> FALSE])
    BY <1>3 DEF cas_renew
  <2>3. LeaseGrows
    <3>1. CASE lease' = lease
      BY <3>1, <1>l
    <3>2. CASE lease = th[t].seen /\ lease' = [ticks |-> th[t].at, expired |-> FALSE]
      <4>1. ~lease.expired /\ lease.ticks <= th[t].at
        BY <2>1, <3>2
      <4>2. lease' \in Lease /\ lease'.ticks = th[t].at
        BY <2>1, <3>2 DEF Lease
      <4> QED BY <2>1, <4>1, <4>2 DEF LeaseGrows
    <3> QED BY <2>2, <3>1, <3>2
  <2> QED BY <1>3, <1>w, <2>3 DEF cas_renew
<1>4. CASE signal_cancel(t)
  <2>1. WordStays
    BY <1>4, CancelledWord DEF signal_cancel, WordStays
  <2> QED BY <1>4, <1>l, <2>1 DEF signal_cancel
<1>5. CASE signal_latch(t)
  BY <1>5, <1>w, <1>e DEF signal_latch
<1>6. CASE signal_panic(t) \/ signal_wake(t)
  BY <1>6, <1>w, <1>l DEF signal_panic, signal_wake
<1> QED BY <1>1, <1>2, <1>3, <1>4, <1>5, <1>6, ThreadAction(t) DEF ThreadAction, ThreadStep

\* Its locals stay typed and its samples good.
LEMMA ThreadLocals ==
  ASSUME Inv, NEW t \in Threads, ThreadAction(t)
  PROVE  /\ th' = [th EXCEPT ![t] = th'[t]]
         /\ th'[t] \in Thread
         /\ th'[t].pc \in {"load", "expire", "renew"} => th'[t].at \in Ticks /\ th'[t].at <= now
         /\ th'[t].pc = "renew" => ~th'[t].seen.expired /\ th'[t].at >= th'[t].seen.ticks
<1> USE NullTypes DEF Inv, TypeOK
<1>0. /\ th[t] \in Thread /\ th \in [Threads -> Thread] /\ Watchdog \in Threads
      /\ Supervisors \subseteq Threads
  BY DEF Threads
<1>a. th[t].pc \in {"load", "expire", "renew"} => th[t].at \in Ticks /\ th[t].at <= now
  BY DEF SamplesOK
<1>1. CASE publish_supervisor_progress(t)
  BY <1>0, <1>1 DEF publish_supervisor_progress, Goto, Thread, Ticks
<1>2. CASE t = Watchdog /\ watchdog_check
  BY <1>0, <1>2 DEF watchdog_check, Goto, Thread, Ticks
<1>3. CASE t = Watchdog /\ watchdog_wait
  <2> DEFINE at == th[Watchdog].at
             remaining == IF lease.ticks >= at THEN Timeout
                          ELSE IF at - lease.ticks >= Timeout THEN 1
                          ELSE Timeout - (at - lease.ticks)
  <2>1. at \in Nat /\ lease.ticks \in Nat
    BY <1>0, <1>3 DEF Thread, Lease, Ticks
  <2>2. remaining \in Nat
    BY <2>1
  <2>3. th' = [th EXCEPT ![Watchdog].pc = "wait", ![Watchdog].at = at + remaining]
    BY <1>3 DEF watchdog_wait
  <2> HIDE DEF at, remaining
  <2>4. at + remaining \in Nat
    BY <2>1, <2>2
  <2> QED BY <1>0, <1>3, <2>3, <2>4 DEF Thread
<1>4. CASE t = Watchdog /\ watchdog_wake
  BY <1>0, <1>4 DEF watchdog_wake, Goto, Thread
<1>5. CASE load_lease(t)
  <2> USE <1>0, <1>a, <1>5 DEF load_lease, Goto, Thread, overdue
  <2>1. th[t].at \in Ticks /\ th[t].at <= now
    OBVIOUS
  <2>2. CASE lease.expired
    BY <2>2
  <2>3. CASE ~lease.expired
    <3>1. \/ \E pc \in {"heartbeat"} : th' = [th EXCEPT ![t].pc = pc]
          \/ th' = [th EXCEPT ![t].pc = "expire", ![t].seen = lease]
          \/ th' = [th EXCEPT ![t] = [pc |-> "idle", at |-> 1, seen |-> NoLease]]
          \/ th[t].at >= lease.ticks /\ th' = [th EXCEPT ![t].pc = "renew", ![t].seen = lease]
      BY <2>1, <2>3 DEF Lease, Ticks
    <3> QED BY <2>1, <2>3, <3>1
  <2> QED BY <2>2, <2>3
<1>6. CASE cas_expire(t)
  BY <1>0, <1>a, <1>6 DEF cas_expire, Goto, Retry, Thread
<1>7. CASE cas_renew(t)
  BY <1>0, <1>a, <1>7 DEF cas_renew, Goto, Retry, Thread
<1>8. CASE signal_cancel(t) \/ signal_latch(t) \/ signal_panic(t) \/ signal_wake(t)
  BY <1>0, <1>8 DEF signal_cancel, signal_latch, signal_panic, signal_wake, Goto, Thread
<1> QED BY <1>1, <1>2, <1>3, <1>4, <1>5, <1>6, <1>7, <1>8, ThreadAction(t)
        DEF ThreadAction, ThreadStep

\* A thread step keeps the invariant.
LEMMA ThreadStepInv ==
  ASSUME Inv, NEW t \in Threads, ThreadAction(t)
  PROVE  Inv'
<1>1. /\ UNCHANGED <<now, completed, worker, late>>
      /\ LeaseGrows /\ WordStays
      /\ panic_requested' \in BOOLEAN /\ interrupt' \in BOOLEAN
  BY ThreadFrame
<1>2. /\ th' = [th EXCEPT ![t] = th'[t]]
      /\ th'[t] \in Thread
      /\ th'[t].pc \in {"load", "expire", "renew"} => th'[t].at \in Ticks /\ th'[t].at <= now
      /\ th'[t].pc = "renew" => ~th'[t].seen.expired /\ th'[t].at >= th'[t].seen.ticks
  BY ThreadLocals
<1>3. TypeOK'
  BY <1>1, <1>2 DEF Inv, TypeOK, LeaseGrows, WordStays
<1>4. SamplesOK'
  <2>1. \A u \in Threads : u # t => th'[u] = th[u]
    BY <1>2 DEF Inv, TypeOK
  <2> QED BY <1>1, <1>2, <2>1 DEF Inv, SamplesOK
<1>5. CompletedOK'
  <2>1. CASE t = Watchdog /\ completed
    <3>1. th[Watchdog].pc \in {"wait", "done"} /\ Watchdog \notin Supervisors
      BY <2>1 DEF Inv, CompletedOK, Watchdog
    <3>2. watchdog_wake
      BY <2>1, <3>1, ThreadAction(t)
         DEF ThreadAction, ThreadStep, load_lease, cas_expire, cas_renew, signal_cancel,
             signal_latch, signal_panic, signal_wake, watchdog_check, watchdog_wait
    <3> QED BY <1>2, <2>1, <3>2 DEF watchdog_wake, Goto, CompletedOK, Inv, TypeOK
  <2>2. CASE t # Watchdog
    <3>1. th'[Watchdog] = th[Watchdog]
      BY <1>2, <2>2 DEF Inv, TypeOK, Threads
    <3> QED BY <1>1, <3>1 DEF Inv, CompletedOK
  <2>3. CASE ~completed
    BY <1>1, <2>3 DEF CompletedOK
  <2> QED BY <2>1, <2>2, <2>3
<1>6. LateOK' /\ SeenOK'
  BY <1>1 DEF Inv, LateOK, SeenOK, LeaseGrows
<1>7. ProofOK'
  BY <1>1 DEF Inv, TypeOK, ProofOK, Proven, LeaseGrows, WordStays, Lease, Ticks, Worker
<1> QED BY <1>3, <1>4, <1>5, <1>6, <1>7 DEF Inv

\* Where SetWorker leaves the worker.
LEMMA SetWorkerEffect ==
  ASSUME Inv, NEW pc \in WorkerPc, SetWorker(pc)
  PROVE  /\ worker' \in Worker /\ worker'.pc = pc
         /\ worker'.at = IF pc \in Proving THEN worker.at ELSE 0
<1>1. worker.at \in Nat
  BY DEF Inv, TypeOK, Worker
<1> QED BY <1>1, NullTypes DEF SetWorker, Worker

\* A worker step leaves the clock and the threads alone.
LEMMA WorkerFrame ==
  ASSUME Inv, WorkerStep
  PROVE  /\ UNCHANGED <<now, th>>
         /\ LeaseGrows /\ (WordStays \/ cas_word)
         /\ panic_requested' \in BOOLEAN /\ interrupt' \in BOOLEAN
         /\ CompletedOK'
<1> USE DEF Inv, TypeOK
<1>w. word' = word => WordStays
  BY DEF WordStays
<1>l. lease' = lease => LeaseGrows
  BY DEF LeaseGrows, Lease, Ticks
<1>e. ASSUME lease' = [lease EXCEPT !.expired = TRUE] PROVE LeaseGrows
  <2>1. lease.ticks \in Ticks /\ lease.ticks <= now /\ lease.ticks \in Nat
    BY DEF Lease, Ticks
  <2>2. lease' = [ticks |-> lease.ticks, expired |-> TRUE]
    BY <1>e DEF Lease
  <2> QED BY <2>1, <2>2 DEF LeaseGrows, Lease
<1>1. CASE WorkerOnly
  BY <1>1, <1>w, <1>l DEF WorkerOnly, CompletedOK
<1>2. CASE cas_word
  BY <1>2, <1>l DEF cas_word, CompletedOK
<1>3. CASE admission_failure
  <2>1. WordStays
    BY <1>3, <1>w, CancelledWord DEF admission_failure, WordStays
  <2> QED BY <1>3, <2>1, <1>l DEF admission_failure, CompletedOK
<1>4. CASE prove_cas \/ reject_latch
  <2>1. LeaseGrows
    BY <1>4, <1>l, <1>e DEF prove_cas, reject_latch
  <2>2. UNCHANGED <<now, th, word, panic_requested, interrupt, completed>>
    BY <1>4 DEF prove_cas, reject_latch
  <2> QED BY <2>1, <2>2, <1>w DEF CompletedOK
<1>5. CASE reject_arm
  <2>1. WordStays
    BY <1>5, CancelledWord DEF reject_arm, WordStays
  <2> QED BY <1>5, <2>1, <1>l DEF reject_arm, CompletedOK
<1>6. CASE wait_interrupted \/ drain_interrupt \/ send_down
  <2>1. UNCHANGED <<now, th, word, lease, panic_requested, completed>> /\ interrupt' \in BOOLEAN
    BY <1>6 DEF wait_interrupted, drain_interrupt, send_down
  <2> QED BY <2>1, <1>w, <1>l DEF CompletedOK
<1>7. CASE complete
  BY <1>7, <1>w, <1>l DEF complete, CompletedOK
<1> QED
  BY <1>1, <1>2, <1>3, <1>4, <1>5, <1>6, <1>7
     DEF WorkerStep, load_word, startup_checkpoint, sample_lease_qpc, prove_down_age,
         prove_reload, check_control, wait_deadline, final_control_precheck, finish

\* The parts of the invariant that speak of the worker.
WorkerOK == worker \in Worker /\ SeenOK /\ ProofOK /\ LateOK /\ late \in Nat /\ completed \in BOOLEAN

\* The places where nothing is claimed of the worker.
Silent == {"checkpoint", "sample", "reject", "reject_latch", "abort", "control", "wait", "drain",
           "gate", "finish", "complete", "done"}

\* A move to one of them.
LEMMA SilentStep ==
  ASSUME Inv, NEW pc \in Silent, SetWorker(pc), UNCHANGED <<late, completed>>,
         lease.expired => lease'.expired,
         late > 0 => pc \in {"control", "finish", "complete", "done"}
  PROVE  WorkerOK'
<1>1. worker' \in Worker /\ worker'.pc = pc
  BY SetWorkerEffect DEF Silent, WorkerPc
<1>2. SeenOK' /\ ProofOK'
  BY <1>1 DEF Silent, SeenOK, ProofOK
<1> QED BY <1>1, <1>2 DEF WorkerOK, Inv, TypeOK, LateOK

\* The startup moves.
LEMMA StartupSteps ==
  ASSUME Inv, load_word \/ cas_word \/ startup_checkpoint \/ admission_failure
                \/ reject_arm \/ reject_latch
  PROVE  WorkerOK' /\ word' \in Word
<1> USE DEF Inv
<1>0. /\ worker \in Worker /\ word \in Word /\ late \in Nat /\ lease \in Lease
      /\ late > 0 => worker.pc \in {"control", "finish", "complete", "done"}
  BY DEF TypeOK, LateOK
<1>1. CASE load_word
  <2>1. worker.pc = "load" /\ late = 0 /\ UNCHANGED <<word, lease, late, completed>>
    BY <1>0, <1>1 DEF load_word, WorkerOnly
  <2>2. CASE word.phase \in PreArm /\ worker' = [worker EXCEPT !.pc = "cas", !.word = word]
    <3>1. worker' \in Worker /\ worker'.pc = "cas" /\ worker'.at = worker.at /\ worker'.word = word
      BY <1>0, <2>2 DEF Worker, WorkerPc
    <3>2. ProofOK' /\ SeenOK'
      BY <2>1, <2>2, <3>1 DEF ProofOK, Proven, SeenOK
    <3> QED BY <1>0, <2>1, <3>1, <3>2 DEF WorkerOK, LateOK, TypeOK
  <2>3. CASE SetWorker("abort")
    BY <1>0, <2>1, <2>3, SilentStep DEF Silent
  <2> QED BY <1>1, <2>2, <2>3 DEF load_word
<1>2. CASE cas_word
  <2>1. worker.pc = "cas" /\ late = 0 /\ UNCHANGED <<lease, late, completed>>
    BY <1>0, <1>2 DEF cas_word
  <2>2. CASE word = worker.word
    <3>1. word' = moved(word) /\ word.phase \in PreArm
      BY <1>2, <2>1, <2>2 DEF cas_word, SeenOK
    <3>2. \E pc \in {"control", "checkpoint"} : SetWorker(pc)
      BY <1>2, <2>2 DEF cas_word
    <3> QED BY <1>0, <2>1, <3>1, <3>2, MovedWord, SilentStep DEF Silent
  <2>3. CASE word # worker.word
    BY <1>0, <1>2, <2>1, <2>3, SilentStep DEF cas_word, Silent
  <2> QED BY <2>2, <2>3
<1>3. CASE startup_checkpoint
  <2>1. /\ worker.pc \in {"checkpoint", "epoch"} /\ late = 0
        /\ UNCHANGED <<word, lease, late, completed>>
    BY <1>0, <1>3 DEF startup_checkpoint, WorkerOnly
  <2>2. CASE SetWorker("abort") \/ SetWorker("sample")
    BY <1>0, <2>1, <2>2, SilentStep DEF Silent
  <2>3. CASE SetWorker("load") /\ (worker.pc = "epoch" \/ word.phase # "Arming")
    <3>1. worker' \in Worker /\ worker'.pc = "load" /\ worker'.at = worker.at
      BY <2>3, SetWorkerEffect DEF WorkerPc, Proving
    <3>2. ProofOK' /\ SeenOK'
      BY <2>1, <2>3, <3>1 DEF ProofOK, Proven, SeenOK
    <3> QED BY <1>0, <2>1, <3>1, <3>2 DEF WorkerOK, LateOK, TypeOK
  <2> QED BY <1>3, <2>1, <2>2, <2>3 DEF startup_checkpoint
<1>4. CASE admission_failure
  <2>1. word' \in Word
    BY <1>0, <1>4, CancelledWord DEF admission_failure
  <2> QED BY <1>0, <1>4, <2>1, SilentStep DEF admission_failure, Silent
<1>5. CASE reject_arm
  <2>1. word' \in Word
    BY <1>0, <1>5, CancelledWord DEF reject_arm
  <2> QED BY <1>0, <1>5, <2>1, SilentStep DEF reject_arm, Silent
<1>6. CASE reject_latch
  <2>1. lease'.expired
    BY <1>0, <1>6 DEF reject_latch, Lease
  <2> QED BY <1>0, <1>6, <2>1, SilentStep DEF reject_latch, Silent
<1> QED BY <1>1, <1>2, <1>3, <1>4, <1>5, <1>6

\* A verdict on the age of the lease, which leads on only if it is proved.
LEMMA VerdictStep ==
  ASSUME Inv, worker.pc \in {"prove", "prove_cas", "reload"}, UNCHANGED <<late, completed>>,
         NEW fresh \in BOOLEAN, SetWorker(Verdict(fresh)), UNCHANGED word,
         lease'.ticks = lease.ticks, lease.expired => lease'.expired,
         fresh => ~overdue(worker.at, lease.ticks)
  PROVE  WorkerOK'
<1>0. /\ worker \in Worker /\ late = 0 /\ lease.ticks \in Nat /\ worker.at \in Nat
      /\ worker.at > 0
  BY DEF Inv, TypeOK, LateOK, ProofOK, Worker, Lease, Ticks
<1>1. CASE fresh
  <2>1. worker.at <= lease.ticks + Timeout
    BY <1>0, <1>1 DEF overdue
  <2>2. PICK pc \in {"final", "epoch"} : SetWorker(pc)
    BY <1>1 DEF Verdict
  <2>3. worker' \in Worker /\ worker'.pc = pc /\ worker'.at = worker.at
    BY <2>2, SetWorkerEffect DEF WorkerPc, Proving
  <2> QED BY <1>0, <2>1, <2>3 DEF WorkerOK, SeenOK, ProofOK, Proven, LateOK, Inv, TypeOK
<1>2. CASE ~fresh
  <2>1. PICK pc \in {"finish", "reject"} : SetWorker(pc)
    BY <1>2 DEF Verdict
  <2> QED BY <1>0, <2>1, SilentStep DEF Silent
<1> QED BY <1>1, <1>2

\* The proof of age.
LEMMA ProofSteps ==
  ASSUME Inv, sample_lease_qpc \/ prove_down_age \/ prove_cas \/ prove_reload
  PROVE  WorkerOK'
<1> USE DEF Inv
<1>0. /\ worker \in Worker /\ late \in Nat /\ lease \in Lease /\ now \in Nat /\ now > 0
      /\ late > 0 => worker.pc \in {"control", "finish", "complete", "done"}
  BY DEF TypeOK, LateOK, Ticks
<1>1. CASE sample_lease_qpc
  <2>1. worker.pc = "sample" /\ late = 0 /\ UNCHANGED <<word, lease, late, completed>>
    BY <1>0, <1>1 DEF sample_lease_qpc, WorkerOnly
  <2>2. CASE worker' = [worker EXCEPT !.pc = "prove", !.at = now]
    <3>1. worker' \in Worker /\ worker'.pc = "prove" /\ worker'.at > 0
      BY <1>0, <2>2 DEF Worker, WorkerPc
    <3> QED BY <1>0, <2>1, <3>1 DEF WorkerOK, SeenOK, ProofOK, LateOK, TypeOK
  <2>3. CASE SetWorker("finish") \/ SetWorker("abort")
    BY <1>0, <2>1, <2>3, SilentStep DEF Silent
  <2> QED BY <1>1, <2>2, <2>3 DEF sample_lease_qpc
<1>2. CASE prove_down_age
  <2>1. worker.pc = "prove" /\ late = 0 /\ UNCHANGED <<word, lease, late, completed>>
    BY <1>0, <1>2 DEF prove_down_age, WorkerOnly
  <2>2. CASE SetWorker(Verdict(FALSE))
    BY <2>1, <2>2, VerdictStep
  <2>3. CASE ~overdue(worker.at, lease.ticks) /\ SetWorker(Verdict(TRUE))
    BY <2>1, <2>3, VerdictStep
  <2>4. CASE worker' = [worker EXCEPT !.pc = "prove_cas", !.seen = lease]
    <3>1. worker' \in Worker /\ worker'.pc = "prove_cas" /\ worker'.at = worker.at
      BY <1>0, <2>4 DEF Worker, WorkerPc
    <3> QED BY <1>0, <2>1, <3>1 DEF WorkerOK, SeenOK, ProofOK, LateOK, TypeOK
  <2> QED BY <1>2, <2>2, <2>3, <2>4 DEF prove_down_age
<1>3. CASE prove_cas
  <2>1. worker.pc = "prove_cas" /\ late = 0 /\ UNCHANGED <<word, late, completed>>
    BY <1>0, <1>3 DEF prove_cas
  <2>2. CASE lease' = [lease EXCEPT !.expired = TRUE] /\ SetWorker(Verdict(FALSE))
    <3>1. lease'.ticks = lease.ticks /\ lease'.expired
      BY <1>0, <2>2 DEF Lease
    <3> QED BY <2>1, <2>2, <3>1, VerdictStep
  <2>3. CASE UNCHANGED lease /\ SetWorker("reload")
    <3>1. worker' \in Worker /\ worker'.pc = "reload" /\ worker'.at = worker.at
      BY <2>3, SetWorkerEffect DEF WorkerPc, Proving
    <3> QED BY <1>0, <2>1, <2>3, <3>1 DEF WorkerOK, SeenOK, ProofOK, LateOK, TypeOK
  <2> QED BY <1>3, <2>2, <2>3 DEF prove_cas
<1>4. CASE prove_reload
  <2>1. worker.pc = "reload" /\ UNCHANGED <<word, lease, late, completed>>
    BY <1>4 DEF prove_reload, WorkerOnly
  <2> DEFINE fresh == ~lease.expired /\ ~overdue(worker.at, lease.ticks)
  <2>2. fresh \in BOOLEAN /\ SetWorker(Verdict(fresh))
    BY <1>4, Zenon DEF prove_reload
  <2>3. fresh => ~overdue(worker.at, lease.ticks)
    OBVIOUS
  <2> HIDE DEF fresh
  <2> QED BY <2>1, <2>2, <2>3, VerdictStep
<1> QED BY <1>1, <1>2, <1>3, <1>4

\* The loop: control check, wait, final gate, Down and the end.
LEMMA LoopSteps ==
  ASSUME Inv, check_control \/ wait_interrupted \/ drain_interrupt \/ wait_deadline
                \/ final_control_precheck \/ send_down \/ finish \/ complete
  PROVE  WorkerOK'
<1> USE DEF Inv
<1>0. /\ worker \in Worker /\ late \in Nat /\ lease \in Lease
      /\ late > 0 => lease.expired /\ worker.pc \in {"control", "finish", "complete", "done"}
  BY DEF TypeOK, LateOK
<1>1. CASE check_control
  <2>1. UNCHANGED <<lease, late, completed>>
    BY <1>1 DEF check_control, WorkerOnly
  <2>2. \/ SetWorker("finish")
        \/ late = 0 /\ \E pc \in {"wait", "gate"} : SetWorker(pc)
    BY <1>0, <1>1 DEF check_control
  <2> QED BY <1>0, <2>1, <2>2, SilentStep DEF Silent
<1>2. CASE wait_interrupted \/ drain_interrupt \/ wait_deadline
  <2>1. late = 0 /\ UNCHANGED <<lease, late, completed>>
    BY <1>0, <1>2 DEF wait_interrupted, drain_interrupt, wait_deadline, WorkerOnly
  <2>2. \E pc \in {"drain", "control", "gate", "finish"} : SetWorker(pc)
    BY <1>2 DEF wait_interrupted, drain_interrupt, wait_deadline
  <2> QED BY <1>0, <2>1, <2>2, SilentStep DEF Silent
<1>3. CASE final_control_precheck
  <2>1. /\ worker.pc \in {"gate", "final"} /\ late = 0
        /\ UNCHANGED <<word, lease, late, completed>>
    BY <1>0, <1>3 DEF final_control_precheck, WorkerOnly
  <2>2. CASE SetWorker("control") \/ SetWorker("sample")
    BY <1>0, <2>1, <2>2, SilentStep DEF Silent
  <2>3. CASE SetWorker("send") /\ worker.pc = "final"
    <3>1. worker' \in Worker /\ worker'.pc = "send" /\ worker'.at = worker.at
      BY <2>3, SetWorkerEffect DEF WorkerPc, Proving
    <3> QED BY <1>0, <2>1, <2>3, <3>1 DEF WorkerOK, SeenOK, ProofOK, Proven, LateOK, TypeOK
  <2> QED BY <1>3, <2>1, <2>2, <2>3 DEF final_control_precheck
<1>4. CASE send_down
  <2>1. late = 0 /\ UNCHANGED <<lease, completed>> /\ late' = IF lease.expired THEN 1 ELSE 0
    BY <1>0, <1>4 DEF send_down
  <2>2. worker' \in Worker /\ worker'.pc = "control"
    BY <1>4, SetWorkerEffect DEF send_down, WorkerPc
  <2> QED BY <2>1, <2>2 DEF WorkerOK, SeenOK, ProofOK, LateOK, TypeOK
<1>5. CASE finish
  BY <1>0, <1>5, SilentStep DEF finish, WorkerOnly, Silent
<1>6. CASE complete
  <2>1. UNCHANGED <<lease, late>> /\ completed'
    BY <1>6 DEF complete
  <2>2. worker' \in Worker /\ worker'.pc = "done"
    BY <1>6, SetWorkerEffect DEF complete, WorkerPc
  <2>3. completed' \in BOOLEAN
    BY <1>6 DEF complete
  <2> QED BY <1>0, <2>1, <2>2, <2>3 DEF WorkerOK, SeenOK, ProofOK, LateOK, TypeOK
<1> QED BY <1>1, <1>2, <1>3, <1>4, <1>5, <1>6

\* A worker step keeps the invariant.
LEMMA WorkerStepInv ==
  ASSUME Inv, WorkerStep
  PROVE  Inv'
<1>1. /\ UNCHANGED <<now, th>> /\ LeaseGrows /\ (WordStays \/ cas_word)
      /\ panic_requested' \in BOOLEAN /\ interrupt' \in BOOLEAN /\ CompletedOK'
  BY WorkerFrame
<1>2. WorkerOK'
  BY StartupSteps, ProofSteps, LoopSteps DEF WorkerStep
<1>3. word' \in Word
  BY <1>1, StartupSteps DEF WordStays
<1>4. TypeOK'
  BY <1>1, <1>2, <1>3 DEF Inv, TypeOK, WorkerOK, LeaseGrows
<1>5. SamplesOK'
  BY <1>1 DEF Inv, SamplesOK
<1> QED BY <1>1, <1>2, <1>4, <1>5 DEF Inv, WorkerOK

\* So does every step.
LEMMA InvStep ==
  ASSUME Inv, [Next]_vars
  PROVE  Inv'
<1>1. CASE Tick
  <2>1. now \in Nat /\ now' \in Ticks /\ now <= now' /\ lease.ticks \in Nat
    BY <1>1 DEF Tick, Inv, TypeOK, Ticks, Lease
  <2>2. UNCHANGED <<lease, word, panic_requested, interrupt, completed, th, worker, late>>
    BY <1>1 DEF Tick
  <2>3. TypeOK'
    BY <2>1, <2>2 DEF Inv, TypeOK
  <2>4. SamplesOK'
    BY <2>1, <2>2 DEF Inv, SamplesOK, Ticks
  <2> QED BY <2>2, <2>3, <2>4 DEF Inv, CompletedOK, LateOK, ProofOK, Proven, SeenOK
<1>2. CASE \E t \in Threads : ThreadAction(t)
  BY <1>2, ThreadStepInv
<1>3. CASE WorkerStep
  BY <1>3, WorkerStepInv
<1>4. CASE UNCHANGED vars
  BY <1>4 DEF vars, Inv, TypeOK, SamplesOK, CompletedOK, LateOK, ProofOK, Proven, SeenOK
<1> QED BY <1>1, <1>2, <1>3, <1>4 DEF Next, ThreadAction, Threads

\* The fresh proof holds at the two steps that rest on it.
LEMMA ProvenAtUse ==
  ASSUME Inv, [Next]_vars, send_down \/ (word'.armed /\ ~word.armed)
  PROVE  worker.at > 0 /\ worker.at <= lease.ticks + Timeout
<1>1. CASE send_down
  BY <1>1 DEF Inv, ProofOK, Proven, send_down
<1>2. CASE word'.armed /\ ~word.armed
  <2>1. ~WordStays /\ word' # word
    BY <1>2 DEF WordStays
  <2>2. cas_word
    <3>1. CASE \E t \in Threads : ThreadAction(t)
      BY <2>1, <3>1, ThreadFrame
    <3>2. CASE WorkerStep
      BY <2>1, <3>2, WorkerFrame
    <3> QED BY <2>1, <3>1, <3>2 DEF Next, ThreadAction, Threads, Tick, vars
  <2>3. word = worker.word /\ word' = moved(word) /\ worker.pc = "cas"
    BY <2>1, <2>2 DEF cas_word
  <2>4. word \in Word /\ word.phase \in PreArm
    BY <2>3 DEF Inv, TypeOK, SeenOK
  <2>5. word.phase = "Arming"
    BY <1>2, <2>3, <2>4, MovedWord
  <2> QED BY <2>3, <2>5 DEF Inv, ProofOK, Proven
<1> QED BY <1>1, <1>2

\* The invariant holds throughout.
LEMMA Invariant == Spec => []Inv
<1>1. Inv /\ [Next]_vars => Inv'
  BY InvStep
<1> QED BY InitInv, <1>1, PTL DEF Spec

\* The types of the lease, with a stamp that never runs ahead of the clock
\* (publish_progress).
THEOREM TypeCorrect == Spec => []TypeOK
<1>1. Inv => TypeOK
  BY DEF Inv
<1> QED BY Invariant, <1>1, PTL

\* At most one Down follows expiry, however the supervisors, the watchdog and
\* the gates of the worker interleave (final_control_precheck).
THEOREM OneLateDown == Spec => []AtMostOneLateDown
<1>1. Inv => AtMostOneLateDown
  BY DEF Inv, LateOK, AtMostOneLateDown
<1> QED BY Invariant, <1>1, PTL

\* The watchdog signals no session whose completion is published: the done
\* mutex covers signal_supervisor_expiry.
THEOREM CompletionIsQuiet == Spec => []NoSignalAfterCompletion
<1>1. Inv => NoSignalAfterCompletion
  BY DEF Inv, CompletedOK, NoSignalAfterCompletion, Signalling
<1> QED BY Invariant, <1>1, PTL

\* Arming and every Down rest on a lease that was fresh at the worker's own
\* sample (prove_down_age).
THEOREM DownsAreFresh == Spec => ProvenFresh
<1>1. Inv /\ [Next]_vars =>
        [send_down \/ (word'.armed /\ ~word.armed)
          => worker.at > 0 /\ worker.at <= lease.ticks + Timeout]_vars
  BY ProvenAtUse
<1> QED BY Invariant, <1>1, PTL DEF Spec, ProvenFresh
============================================================================
