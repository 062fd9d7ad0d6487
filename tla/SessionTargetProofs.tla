------------------------ MODULE SessionTargetProofs ------------------------
(***************************************************************************)
(* The target's sequence lock and the owner's identity, for any number of  *)
(* controllers, windows, processes and publications.                       *)
(*                                                                         *)
(* The argument: the writer mutex keeps publications and bindings apart,   *)
(* the mutex of the retained authority keeps a binding and an invalidation *)
(* apart (MutexOK).  While the epoch is even the atomics hold the last     *)
(* publication (EpochOK), and an epoch never comes back, so a load that    *)
(* ends with the epoch it began with has read one publication (ReadOK).    *)
(* A binding is for a generation above every bound one (BindingOK), so an  *)
(* invalidated generation is not bound again, and a worker that finds the  *)
(* same generation before and after has read the pid that is bound to it   *)
(* (StatusOK).                                                             *)
(***************************************************************************)
EXTENDS SessionTarget, TLAPS

USE MaxEpochAssumption, PidsAssumption, WindowsAssumption, ControllersAssumption

\* The shape of the locals, without the bounds of the counters.
LocalType ==
    [pc : {"idle", "bind", "bind_check", "retain", "poll", "invalidate",
           "invalidate_live"} \cup PublishPc \cup BindPc,
     hwnd : Hwnds, generation : Nat, pid : Pids \cup {0}, failure : Failure \cup {"none"}]
OwnerType == [required : BOOLEAN, pid : Pids \cup {0}, generation : Nat, live : BOOLEAN,
              failure : Failure \cup {"none"}]
ReadType == [epoch : Nat, hwnd : Hwnds, generation : Nat, pid : Pids \cup {0}, live : BOOLEAN]
SinceType == [stamp : Stamp, invalid : SUBSET Nat, poisoned : BOOLEAN]
WorkerType == [pc : WorkerPc, round : 0 .. 3, expected : Stamp \cup {NoStamp}, read : ReadType,
               pid : Pids \cup {0}, since : SinceType]
Binding == [generation : Nat, pid : Pids]
SharedTypes ==
    /\ epoch \in 0 .. MaxEpoch /\ hwnd \in Hwnds /\ generation \in Nat
    /\ owner \in OwnerType
    /\ retained \in Stamp \cup {NoStamp}
    /\ published \in Stamp /\ binds \in SUBSET Binding /\ invalid \in SUBSET Nat
Types == SharedTypes /\ th \in [Controllers -> LocalType] /\ worker \in WorkerType

\* Who holds the two mutexes.
WritePc == PublishPc \cup BindPc
GuardPc == BindPc \cup {"bind_check", "retain", "poll", "invalidate", "invalidate_live"}
MutexAt(c) ==
    /\ th[c].pc \in WritePc => writer = c
    /\ th[c].pc \in GuardPc => guard = c
MutexOK == \A c \in Controllers : MutexAt(c)

\* A publication runs under an odd epoch that leaves room for its end.
PublishAt(c) ==
    /\ th[c].pc \in PublishPc => Odd(epoch) /\ epoch <= MaxEpoch - 2
    /\ th[c].pc = "stable" => generation > 0
EpochOK ==
    /\ \A c \in Controllers : PublishAt(c)
    /\ ~Odd(epoch) => published = [hwnd |-> hwnd, generation |-> generation]
    /\ published.hwnd # 0 => published.generation > 0

\* What the worker has read while the epoch is the one it began with.
Fresh == worker.read.epoch = epoch /\ ~Odd(epoch)
ReadOK ==
    /\ worker.pc \in {"hwnd", "generation", "final_epoch"} => worker.read.epoch <= epoch
    /\ worker.pc \in {"generation", "final_epoch"} /\ Fresh => worker.read.hwnd = hwnd
    /\ worker.pc = "final_epoch" /\ Fresh => worker.read.generation = generation

\* The generations that were ever bound.
BoundGens == {b.generation : b \in binds}

OwnerOK ==
    /\ owner.generation <= generation
    /\ owner.pid = 0 => owner.generation = 0
    /\ \A b \in binds : b.generation <= owner.generation
    /\ invalid \subseteq BoundGens
    /\ retained # NoStamp => retained.generation \in BoundGens

\* A binding in progress: its generation is new, and the identity is dead
\* until the last store.
BindingAt(c) ==
    /\ th[c].pc \in {"bind", "bind_check"} => th[c].hwnd # 0
    /\ th[c].pc \in BindPc \cup {"bind", "bind_check"} => th[c].pid \in Pids
    /\ th[c].pc \in BindPc => /\ th[c].generation = generation
                              /\ \A b \in binds : b.generation < th[c].generation
    /\ th[c].pc \in BindPc \ {"bind_live"} => owner.generation < th[c].generation
    /\ th[c].pc \in {"bind_pid", "bind_generation", "bind_live"} => ~owner.live
    /\ th[c].pc \in {"bind_generation", "bind_live"} => owner.pid = th[c].pid
    /\ th[c].pc = "bind_live" => owner.generation = th[c].generation
    /\ th[c].pc \in {"retain", "poll", "invalidate", "invalidate_live"}
         => th[c].generation \in BoundGens
BindingOK == \A c \in Controllers : BindingAt(c)

\* What the worker's look at the owner is worth.
Binds(g, p) == [generation |-> g, pid |-> p] \in binds
Completing == \E c \in Controllers : th[c].pc = "bind_live"
StatusOK ==
    /\ worker.pc \in {"pid", "live", "final"} => worker.read.generation <= owner.generation
    /\ worker.pc = "live" /\ owner.generation = worker.read.generation
         /\ (owner.live \/ Completing) => owner.pid = worker.read.pid
    /\ worker.pc = "final" /\ owner.generation = worker.read.generation /\ worker.read.live
         => /\ Binds(worker.read.generation, worker.read.pid)
            /\ worker.round = 3 => worker.read.generation \notin worker.since.invalid

\* What the last revalidation knows of the moment at which it began.
SinceOK ==
    worker.round = 3 /\ worker.pc # "epoch" =>
      /\ worker.since.invalid \subseteq invalid
      /\ ~worker.since.poisoned
      /\ worker.pc \in {"hwnd", "generation", "final_epoch"} /\ Fresh
           => worker.since.stamp = published
      /\ worker.pc \in {"required", "first", "pid", "live", "final"}
           => worker.expected = worker.since.stamp

Inv == /\ Types /\ MutexOK /\ EpochOK /\ ReadOK /\ OwnerOK /\ BindingOK /\ LiveIdentityIsValid
       /\ StatusOK /\ SinceOK /\ AuthorityAtSend

----------------------------------------------------------------------------
\* The null values are typed.
LEMMA NullTypes ==
    /\ Idle \in LocalType /\ NotRead \in ReadType /\ Unknown \in SinceType
    /\ Plan \in WorkerType /\ FirstStamp \in Stamp
BY DEF Idle, LocalType, Hwnds, NotRead, ReadType, Unknown, SinceType, FirstStamp, Stamp, Plan,
       WorkerType, WorkerPc

\* A load begins with the epoch.
LEMMA EpochRead ==
  ASSUME NEW e \in Nat
  PROVE  /\ [NotRead EXCEPT !.epoch = e] \in ReadType
         /\ [NotRead EXCEPT !.epoch = e].epoch = e
<1>1. NotRead \in ReadType
  BY NullTypes
<1> QED BY <1>1 DEF ReadType

\* The next epoch has the other parity and does not come round.
LEMMA Parity ==
  ASSUME NEW e \in 0 .. MaxEpoch, e < MaxEpoch
  PROVE  /\ (e + 1) % (MaxEpoch + 1) = e + 1
         /\ Odd(e + 1) <=> ~Odd(e)
BY DEF Odd

\* The initial state.
LEMMA InitInv == Init => Inv
<1> SUFFICES ASSUME Init PROVE Inv
  OBVIOUS
<1>1. /\ epoch = 0 /\ hwnd = 0 /\ generation = 0 /\ retained = NoStamp /\ published = FirstStamp
      /\ binds = {} /\ invalid = {} /\ worker = Plan
      /\ owner = [required |-> FALSE, pid |-> 0, generation |-> 0, live |-> FALSE,
                  failure |-> "none"]
      /\ th = [c \in Controllers |-> Idle]
  BY DEF Init, Plan
<1>2. \A c \in Controllers : th[c].pc = "idle"
  BY <1>1 DEF Idle
<1>3. Types
  BY <1>1, NullTypes DEF Types, SharedTypes, OwnerType, Hwnds
<1>4. MutexOK /\ BindingOK
  BY <1>2 DEF MutexOK, MutexAt, BindingOK, BindingAt, WritePc, GuardPc, PublishPc, BindPc
<1>5. EpochOK
  BY <1>1, <1>2 DEF EpochOK, PublishAt, PublishPc, FirstStamp
<1>6. OwnerOK /\ LiveIdentityIsValid
  BY <1>1 DEF OwnerOK, LiveIdentityIsValid
<1>7. worker.pc = "epoch"
  BY <1>1 DEF Plan
<1>8. ReadOK /\ StatusOK /\ SinceOK /\ AuthorityAtSend
  BY <1>7 DEF ReadOK, StatusOK, SinceOK, AuthorityAtSend
<1> QED BY <1>3, <1>4, <1>5, <1>6, <1>8 DEF Inv

----------------------------------------------------------------------------
(***************************************************************************)
(* The worker reads and changes nothing but itself.                        *)
(***************************************************************************)
ReaderFrame == UNCHANGED <<epoch, hwnd, generation, owner, writer, retained, guard, th,
                           published, binds, invalid>>

\* What the worker's step must show.
WorkerOK == worker \in WorkerType /\ ReadOK /\ StatusOK /\ SinceOK /\ AuthorityAtSend

\* It starts over.
LEMMA PlanStep ==
  ASSUME worker' = Plan
  PROVE  WorkerOK'
BY NullTypes DEF Plan, WorkerOK, ReadOK, StatusOK, SinceOK, AuthorityAtSend

\* The load.
LEMMA LoadSteps ==
  ASSUME Inv, read_epoch \/ read_hwnd \/ read_generation \/ read_final_epoch
  PROVE  WorkerOK' /\ got' \in {published, NoStamp, got}
<1> USE DEF Inv, Types, SharedTypes
<1>0. ReaderFrame
  BY DEF read_epoch, read_hwnd, read_generation, read_final_epoch, ReaderFrame, target, history
<1>r. worker.read \in ReadType /\ worker.since \in SinceType /\ worker.round \in 0 .. 3
  BY DEF WorkerType
<1>1. CASE read_epoch
  <2>1. CASE Odd(epoch)
    BY <1>1, <2>1, PlanStep DEF read_epoch
  <2>2. CASE ~Odd(epoch)
    <3> DEFINE rd == [NotRead EXCEPT !.epoch = epoch]
               si == IF worker.round = 3
                     THEN [stamp |-> published, invalid |-> invalid, poisoned |-> epoch = MaxEpoch]
                     ELSE Unknown
    <3>1. worker' = [worker EXCEPT !.pc = "hwnd", !.read = rd, !.since = si]
      BY <1>1, <2>2 DEF read_epoch
    <3>2. rd \in ReadType /\ rd.epoch = epoch
      BY EpochRead
    <3>3. epoch # MaxEpoch
      BY <2>2 DEF Odd
    <3>4. worker.round = 3 => si = [stamp |-> published, invalid |-> invalid, poisoned |-> FALSE]
      BY <3>3
    <3>5. si \in SinceType
      BY <3>4, NullTypes DEF SinceType
    <3> HIDE DEF rd, si
    <3>6. /\ worker' \in WorkerType /\ worker'.pc = "hwnd" /\ worker'.read = rd
          /\ worker'.since = si /\ worker'.round = worker.round
      BY <3>1, <3>2, <3>5 DEF WorkerType, WorkerPc
    <3>7. ReadOK' /\ StatusOK' /\ AuthorityAtSend'
      BY <1>0, <3>2, <3>6 DEF ReadOK, StatusOK, AuthorityAtSend, ReaderFrame
    <3>8. SinceOK'
      BY <1>0, <3>4, <3>6 DEF SinceOK, ReaderFrame
    <3> QED BY <1>1, <2>2, <3>6, <3>7, <3>8 DEF WorkerOK, read_epoch
  <2> QED BY <2>1, <2>2
<1>2. CASE read_hwnd
  <2>1. /\ worker.pc = "hwnd" /\ worker' \in WorkerType /\ worker'.pc = "generation"
        /\ worker'.read.hwnd = hwnd /\ worker'.read.epoch = worker.read.epoch
        /\ worker'.since = worker.since /\ worker'.round = worker.round
    BY <1>2 DEF read_hwnd, WorkerType, WorkerPc, ReadType
  <2>2. ReadOK' /\ StatusOK' /\ SinceOK' /\ AuthorityAtSend'
    BY <1>0, <2>1 DEF ReadOK, Fresh, StatusOK, SinceOK, AuthorityAtSend, ReaderFrame
  <2> QED BY <1>2, <2>1, <2>2 DEF WorkerOK, read_hwnd
<1>3. CASE read_generation
  <2>1. /\ worker.pc = "generation" /\ worker' \in WorkerType /\ worker'.pc = "final_epoch"
        /\ worker'.read.generation = generation /\ worker'.read.epoch = worker.read.epoch
        /\ worker'.read.hwnd = worker.read.hwnd
        /\ worker'.since = worker.since /\ worker'.round = worker.round
    BY <1>3 DEF read_generation, WorkerType, WorkerPc, ReadType
  <2>2. ReadOK' /\ StatusOK' /\ SinceOK' /\ AuthorityAtSend'
    BY <1>0, <2>1 DEF ReadOK, Fresh, StatusOK, SinceOK, AuthorityAtSend, ReaderFrame
  <2> QED BY <1>3, <2>1, <2>2 DEF WorkerOK, read_generation
<1>4. CASE read_final_epoch
  <2> DEFINE stamp == [hwnd |-> worker.read.hwnd, generation |-> worker.read.generation]
  <2>1. coherent => stamp = published
    BY <1>4 DEF coherent, read_final_epoch, ReadOK, Fresh, EpochOK
  <2>2. stamp \in Stamp
    BY <1>r DEF ReadType, Stamp
  <2>3. got' \in {published, NoStamp}
    BY <1>4, <2>1 DEF read_final_epoch
  <2>4. CASE worker' = Plan
    BY <2>3, <2>4, PlanStep
  <2>5. CASE worker' = [Plan EXCEPT !.round = 1, !.expected = stamp]
    <3>1. worker' \in WorkerType /\ worker'.pc = "epoch"
      <4>1. worker' = [pc |-> "epoch", round |-> 1, expected |-> stamp, read |-> NotRead,
                       pid |-> 0, since |-> Unknown]
        BY <2>5 DEF Plan
      <4> QED BY <2>2, <4>1, NullTypes DEF WorkerType, WorkerPc
    <3> QED BY <2>3, <3>1 DEF WorkerOK, ReadOK, StatusOK, SinceOK, AuthorityAtSend
  <2>6. CASE /\ worker' = [worker EXCEPT !.pc = "required", !.read = NotRead]
             /\ coherent /\ stamp = worker.expected
    <3>1. /\ worker' \in WorkerType /\ worker'.pc = "required" /\ worker'.since = worker.since
          /\ worker'.round = worker.round /\ worker'.expected = worker.expected
      BY <2>6, NullTypes DEF WorkerType, WorkerPc
    <3>2. worker.round = 3 => worker.since.stamp = worker.expected
      BY <1>4, <2>1, <2>6 DEF SinceOK, coherent, Fresh, read_final_epoch
    <3>3. SinceOK'
      BY <1>0, <1>4, <3>1, <3>2 DEF SinceOK, read_final_epoch, ReaderFrame
    <3> QED BY <2>3, <3>1, <3>3 DEF WorkerOK, ReadOK, StatusOK, AuthorityAtSend
  <2> QED BY <1>4, <1>r, <2>4, <2>5, <2>6 DEF read_final_epoch
<1> QED BY <1>1, <1>2, <1>3, <1>4

\* The look at the owner.
LEMMA StatusSteps ==
  ASSUME Inv, status_required \/ status_first_generation \/ status_pid \/ status_live
                \/ status_final_generation \/ send_down
  PROVE  WorkerOK' /\ UNCHANGED got
<1> USE DEF Inv, Types, SharedTypes
<1>0. ReaderFrame /\ UNCHANGED got
  BY DEF status_required, status_first_generation, status_pid, status_live,
         status_final_generation, send_down, ReaderFrame, target, history
<1>p. CASE worker' = Plan
  BY <1>0, <1>p, PlanStep
<1>r. /\ worker.read \in ReadType /\ worker.since \in SinceType /\ worker.round \in 0 .. 3
      /\ owner.generation \in Nat
  BY DEF WorkerType, OwnerType
<1>1. CASE worker.pc = "required" /\ worker' = [worker EXCEPT !.pc = "first"]
  <2>1. /\ worker' \in WorkerType /\ worker'.pc = "first" /\ worker'.since = worker.since
        /\ worker'.round = worker.round /\ worker'.expected = worker.expected
    BY <1>1 DEF WorkerType, WorkerPc
  <2> QED BY <1>0, <1>1, <2>1 DEF WorkerOK, ReadOK, StatusOK, SinceOK, AuthorityAtSend, ReaderFrame
<1>2. CASE status_first_generation
  <2>1. /\ worker.pc = "first" /\ worker' \in WorkerType /\ worker'.pc = "pid"
        /\ worker'.since = worker.since /\ worker'.read.generation = owner.generation
        /\ worker'.round = worker.round /\ worker'.expected = worker.expected
    BY <1>2, <1>r DEF status_first_generation, WorkerType, WorkerPc, ReadType
  <2>2. ReadOK' /\ StatusOK' /\ SinceOK' /\ AuthorityAtSend'
    BY <1>0, <1>r, <2>1 DEF ReadOK, StatusOK, SinceOK, AuthorityAtSend, ReaderFrame
  <2> QED BY <1>0, <2>1, <2>2 DEF WorkerOK
<1>3. CASE status_pid
  <2>1. /\ worker.pc = "pid" /\ worker' \in WorkerType /\ worker'.pc = "live"
        /\ worker'.since = worker.since /\ worker'.read.generation = worker.read.generation
        /\ worker'.read.pid = owner.pid
        /\ worker'.round = worker.round /\ worker'.expected = worker.expected
    BY <1>3 DEF status_pid, WorkerType, WorkerPc, ReadType, OwnerType
  <2>2. ReadOK' /\ StatusOK' /\ SinceOK' /\ AuthorityAtSend'
    BY <1>0, <2>1 DEF ReadOK, StatusOK, SinceOK, AuthorityAtSend, ReaderFrame
  <2> QED BY <1>0, <2>1, <2>2 DEF WorkerOK
<1>4. CASE status_live
  <2>1. /\ worker.pc = "live" /\ worker' \in WorkerType /\ worker'.pc = "final"
        /\ worker'.since = worker.since /\ worker'.read.generation = worker.read.generation
        /\ worker'.read.pid = worker.read.pid /\ worker'.read.live = owner.live
        /\ worker'.round = worker.round /\ worker'.expected = worker.expected
    BY <1>4 DEF status_live, WorkerType, WorkerPc, ReadType, OwnerType
  <2>2. owner.live /\ owner.generation = worker.read.generation =>
          /\ Binds(worker.read.generation, worker.read.pid)
          /\ worker.round = 3 => worker.read.generation \notin worker.since.invalid
    BY <2>1 DEF StatusOK, SinceOK, LiveIdentityIsValid, Binds
  <2>3. StatusOK'
    BY <1>0, <2>1, <2>2 DEF StatusOK, ReaderFrame, Binds
  <2>4. ReadOK' /\ SinceOK' /\ AuthorityAtSend'
    BY <1>0, <2>1 DEF ReadOK, SinceOK, AuthorityAtSend, ReaderFrame
  <2> QED BY <1>0, <2>1, <2>3, <2>4 DEF WorkerOK
<1>5. CASE status_final_generation /\ worker' # Plan
  <2>1. worker.pc = "final" /\ Bound
    BY <1>5 DEF status_final_generation, Rejects
  <2>2. CASE worker.round = 3
    <3>1. worker' = [worker EXCEPT !.pc = "send", !.pid = worker.read.pid, !.read = NotRead]
      BY <1>5, <2>2 DEF status_final_generation, Rejects
    <3>2. worker.read.pid \in Pids \cup {0}
      BY <1>r DEF ReadType
    <3>3. /\ worker' \in WorkerType /\ worker'.pc = "send" /\ worker'.since = worker.since
          /\ worker'.pid = worker.read.pid /\ worker'.expected = worker.expected
      BY <3>1, <3>2, NullTypes DEF WorkerType, WorkerPc
    <3>4. /\ worker.expected = worker.since.stamp /\ ~worker.since.poisoned
          /\ Binds(worker.expected.generation, worker.read.pid)
          /\ worker.expected.generation \notin worker.since.invalid
      BY <2>1, <2>2 DEF Bound, StatusOK, SinceOK
    <3>5. AuthorityAtSend'
      BY <1>0, <3>3, <3>4 DEF AuthorityAtSend, ReaderFrame, Binds
    <3>6. SinceOK'
      BY <1>0, <2>1, <2>2, <3>3 DEF SinceOK, ReaderFrame
    <3> QED BY <1>0, <3>3, <3>5, <3>6 DEF WorkerOK, ReadOK, StatusOK
  <2>3. CASE worker.round # 3
    <3>1. worker' = [worker EXCEPT !.pc = "epoch", !.round = worker.round + 1, !.read = NotRead]
      BY <1>5, <2>3 DEF status_final_generation, Rejects
    <3>2. worker' \in WorkerType /\ worker'.pc = "epoch"
      <4>1. worker.round + 1 \in 0 .. 3
        BY <1>r, <2>3
      <4> HIDE DEF Inv
      <4>2. worker \in WorkerType
        BY DEF Inv
      <4> QED BY <3>1, <4>1, <4>2, NullTypes DEF WorkerType, WorkerPc
    <3> QED BY <1>0, <3>2 DEF WorkerOK, ReadOK, StatusOK, SinceOK, AuthorityAtSend
  <2> QED BY <2>2, <2>3
<1>6. CASE send_down
  BY <1>6, <1>p DEF send_down
<1>7. CASE status_required
  BY <1>7, <1>p, <1>1 DEF status_required, Rejects
<1> QED BY <1>p, <1>2, <1>3, <1>4, <1>5, <1>6, <1>7

----------------------------------------------------------------------------
(***************************************************************************)
(* A step of a controller c: the others' locals stay, and unless c holds   *)
(* or takes the writer mutex, so does what a publication or a binding of   *)
(* another controller relies on.                                           *)
(***************************************************************************)
Moves(c) == /\ th' \in [Controllers -> LocalType]
            /\ \A d \in Controllers \ {c} : th'[d] = th[d]
Quiet == /\ UNCHANGED <<writer, epoch, generation, binds>>
         /\ owner'.generation = owner.generation /\ owner'.pid = owner.pid
         /\ owner'.live => owner.live
Alone(c) == /\ writer \in {Nobody, c} \/ Quiet
            /\ guard' = guard \/ guard \in {Nobody, c}
            /\ binds \subseteq binds'

\* What the worker relies on.
Environment ==
    /\ epoch <= epoch'
    /\ epoch' = epoch /\ ~Odd(epoch) => UNCHANGED <<hwnd, generation, published>>
    /\ binds \subseteq binds' /\ invalid \subseteq invalid'
    /\ owner.generation <= owner'.generation
    /\ owner'.generation = owner.generation /\ (owner'.live \/ Completing')
         => (owner.live \/ Completing) /\ owner'.pid = owner.pid

At(c) == MutexAt(c) /\ PublishAt(c) /\ BindingAt(c)
StampOK ==
    /\ ~Odd(epoch) => published = [hwnd |-> hwnd, generation |-> generation]
    /\ published.hwnd # 0 => published.generation > 0
GlobalOK == SharedTypes /\ StampOK /\ OwnerOK /\ LiveIdentityIsValid

\* A step that the worker can bear leaves it what it knew.
LEMMA WorkerStays ==
  ASSUME Inv, UNCHANGED worker, Environment, epoch' \in Nat, owner' \in OwnerType
  PROVE  WorkerOK'
<1>1. /\ worker \in WorkerType /\ worker.read \in ReadType /\ worker.since \in SinceType
      /\ owner.generation \in Nat /\ owner'.generation \in Nat /\ epoch \in Nat
      /\ worker.read.epoch \in Nat /\ worker.read.generation \in Nat
  BY DEF Inv, Types, SharedTypes, WorkerType, ReadType, OwnerType
<1>2. worker.pc \in {"hwnd", "generation", "final_epoch"} /\ Fresh' =>
        Fresh /\ UNCHANGED <<hwnd, generation, published>>
  BY <1>1 DEF Inv, ReadOK, Fresh, Environment
<1>3. ReadOK'
  BY <1>1, <1>2 DEF Inv, ReadOK, Environment
<1>4. SinceOK'
  <2>1. SinceOK /\ invalid \subseteq invalid'
    BY DEF Inv, Environment
  <2> QED BY <1>2, <2>1 DEF SinceOK
<1>5. AuthorityAtSend'
  BY DEF Inv, AuthorityAtSend, Environment
<1>6. StatusOK'
  <2>1. worker.pc \in {"pid", "live", "final"} => worker.read.generation <= owner'.generation
    BY <1>1 DEF Inv, StatusOK, Environment
  <2>2. worker.pc \in {"live", "final"} /\ owner'.generation = worker.read.generation
          => owner'.generation = owner.generation
    BY <1>1 DEF Inv, StatusOK, Environment
  <2>3. worker.pc = "live" /\ owner'.generation = worker.read.generation
          /\ (owner'.live \/ Completing') => owner'.pid = worker.read.pid
    BY <2>2 DEF Inv, StatusOK, Environment
  <2>4. worker.pc = "final" /\ owner'.generation = worker.read.generation /\ worker.read.live
          => /\ Binds(worker.read.generation, worker.read.pid)'
             /\ worker.round = 3 => worker.read.generation \notin worker.since.invalid
    BY <2>2 DEF Inv, StatusOK, Environment, Binds
  <2> QED BY <2>1, <2>3, <2>4 DEF StatusOK
<1> QED BY <1>1, <1>3, <1>4, <1>5, <1>6 DEF WorkerOK

\* A step of c leaves the others what they knew.
LEMMA OthersStay ==
  ASSUME Inv, NEW c \in Controllers, Moves(c), Alone(c),
         NEW d \in Controllers \ {c}
  PROVE  At(d)'
<1>1. th'[d] = th[d] /\ MutexAt(d) /\ PublishAt(d) /\ BindingAt(d) /\ d # Nobody
  BY DEF Moves, Inv, MutexOK, EpochOK, BindingOK, Nobody
<1>2. CASE writer \in {Nobody, c}
  <2>1. th[d].pc \notin WritePc
    BY <1>1, <1>2 DEF MutexAt
  <2>2. MutexAt(d)' /\ PublishAt(d)'
    BY <1>1, <2>1 DEF MutexAt, PublishAt, Alone, WritePc, PublishPc
  <2>3. BoundGens \subseteq BoundGens'
    BY DEF BoundGens, Alone
  <2>4. BindingAt(d)'
    BY <1>1, <2>1, <2>3 DEF BindingAt, WritePc, BindPc
  <2> QED BY <2>2, <2>4 DEF At
<1>3. CASE Quiet
  <2>1. MutexAt(d)' /\ PublishAt(d)'
    BY <1>1, <1>3 DEF MutexAt, PublishAt, Alone, Quiet
  <2>2. BindingAt(d)'
    BY <1>1, <1>3 DEF BindingAt, Quiet, BoundGens
  <2> QED BY <2>1, <2>2 DEF At
<1> QED BY <1>2, <1>3 DEF Alone

\* What is to be shown of a step of c.
StepOK(c) == /\ Moves(c) /\ Alone(c) /\ Environment /\ UNCHANGED worker
             /\ GlobalOK' /\ At(c)'
\* It is enough.
LEMMA StepInv ==
  ASSUME Inv, NEW c \in Controllers, StepOK(c)
  PROVE  Inv'
<1>1. \A d \in Controllers : At(d)'
  BY OthersStay DEF StepOK
<1>2. MutexOK' /\ EpochOK' /\ BindingOK'
  BY <1>1 DEF At, MutexOK, EpochOK, BindingOK, StepOK, GlobalOK, StampOK
<1>3. epoch' \in Nat /\ owner' \in OwnerType
  BY DEF StepOK, GlobalOK, SharedTypes
<1>4. WorkerOK'
  BY <1>3, WorkerStays DEF StepOK
<1>5. Types'
  BY <1>4 DEF StepOK, GlobalOK, Moves, Types, WorkerOK
<1> QED BY <1>2, <1>4, <1>5 DEF Inv, StepOK, GlobalOK, WorkerOK

\* Goto changes the program counter of c alone.
LEMMA GotoShape ==
  ASSUME Inv, NEW c \in Controllers, NEW pc, Goto(c, pc),
         pc \in {"idle", "bind", "bind_check", "retain", "poll", "invalidate",
                 "invalidate_live"} \cup PublishPc \cup BindPc
  PROVE  /\ Moves(c) /\ th'[c].pc = pc
         /\ th'[c].hwnd = th[c].hwnd /\ th'[c].generation = th[c].generation
         /\ th'[c].pid = th[c].pid
<1>1. th \in [Controllers -> LocalType] /\ th[c] \in LocalType
  BY DEF Inv, Types
<1>2. th' = [th EXCEPT ![c] = [th[c] EXCEPT !.pc = pc]]
  BY DEF Goto
<1>3. [th[c] EXCEPT !.pc = pc] \in LocalType
  BY <1>1 DEF LocalType
<1>4. Moves(c) /\ th'[c] = [th[c] EXCEPT !.pc = pc]
  BY <1>1, <1>2, <1>3 DEF Moves
<1> QED BY <1>1, <1>4 DEF LocalType

\* Return leaves c idle.
LEMMA ReturnShape ==
  ASSUME Inv, NEW c \in Controllers, Return(c)
  PROVE  Moves(c) /\ th'[c].pc = "idle"
<1>1. th \in [Controllers -> LocalType]
  BY DEF Inv, Types
<1>2. Moves(c) /\ th'[c] = Idle
  BY <1>1, NullTypes DEF Return, Moves
<1> QED BY <1>2 DEF Idle

\* Unless c begins to complete a binding, a binding that completes did before.
LEMMA NotCompleting ==
  ASSUME NEW c \in Controllers, Moves(c), th'[c].pc # "bind_live"
  PROVE  Completing' => Completing
BY DEF Moves, Completing

\* An idle controller knows nothing.
LEMMA IdleAt ==
  ASSUME NEW c \in Controllers, th'[c].pc = "idle"
  PROVE  At(c)'
BY DEF At, MutexAt, PublishAt, BindingAt, WritePc, GuardPc, PublishPc, BindPc

----------------------------------------------------------------------------
\* A step that may only end the life of the identity.
OwnerFades == /\ owner' \in OwnerType
              /\ owner'.generation = owner.generation /\ owner'.pid = owner.pid
              /\ owner'.live => owner.live

\* The stores that do so.
LEMMA Fading ==
  ASSUME Inv,
         \/ owner' = owner
         \/ \E f \in Failure \cup {"none"} : owner' = [owner EXCEPT !.failure = f]
         \/ owner' = [owner EXCEPT !.live = FALSE]
         \/ owner' = [owner EXCEPT !.failure = "ProcessTerminated", !.live = FALSE]
         \/ owner' = [owner EXCEPT !.required = TRUE]
  PROVE  OwnerFades
<1>1. owner \in OwnerType
  BY DEF Inv, Types, SharedTypes
<1>2. CASE owner' = owner
  BY <1>1, <1>2 DEF OwnerFades
<1>3. CASE \E f \in Failure \cup {"none"} : owner' = [owner EXCEPT !.failure = f]
  BY <1>1, <1>3 DEF OwnerFades, OwnerType
<1>4. CASE owner' = [owner EXCEPT !.live = FALSE]
  BY <1>1, <1>4 DEF OwnerFades, OwnerType
<1>5. CASE owner' = [owner EXCEPT !.failure = "ProcessTerminated", !.live = FALSE]
  BY <1>1, <1>5 DEF OwnerFades, OwnerType, Failure
<1>6. CASE owner' = [owner EXCEPT !.required = TRUE]
  BY <1>1, <1>6 DEF OwnerFades, OwnerType
<1> QED BY <1>2, <1>3, <1>4, <1>5, <1>6

\* Such a step keeps what is known of bindings and invalidations.
LEMMA FadeKeeps ==
  ASSUME Inv, OwnerFades, UNCHANGED <<binds, invalid, retained>>,
         generation' \in Nat, generation <= generation'
  PROVE  OwnerOK' /\ LiveIdentityIsValid'
<1>1. generation \in Nat /\ owner.generation \in Nat
  BY DEF Inv, Types, SharedTypes, OwnerType
<1>2. OwnerOK'
  BY <1>1 DEF Inv, OwnerOK, OwnerFades, BoundGens
<1>3. LiveIdentityIsValid'
  BY DEF Inv, LiveIdentityIsValid, OwnerFades
<1> QED BY <1>2, <1>3

\* publish_inner, its beginning, and its refusal, which poisons the epoch.
LEMMA PublishBegin ==
  ASSUME Inv, NEW c \in Controllers, NEW h \in Hwnds, NEW force \in BOOLEAN,
         publish_begin(c, h, force)
  PROVE  StepOK(c)
<1>1. /\ UNCHANGED <<hwnd, generation, owner, retained, guard, worker, published, binds, invalid>>
      /\ writer = Nobody /\ th[c].pc = "idle"
  BY DEF publish_begin, history
<1>2. /\ SharedTypes /\ StampOK /\ th \in [Controllers -> LocalType] /\ th[c] \in LocalType
      /\ epoch \in 0 .. MaxEpoch /\ generation \in Nat /\ owner.generation \in Nat
  BY DEF Inv, Types, SharedTypes, EpochOK, StampOK, OwnerType
<1>3. OwnerOK' /\ LiveIdentityIsValid'
  BY <1>1, <1>2, Fading, FadeKeeps
<1>4. Alone(c)
  BY <1>1 DEF Alone
<1>5. CASE exhausted(epoch)
  <2>1. epoch' = MaxEpoch /\ th' = th
    BY <1>5 DEF publish_begin
  <2>2. Odd(MaxEpoch)
    BY DEF Odd
  <2>3. Moves(c) /\ At(c)'
    BY <1>1, <1>2, <2>1, IdleAt DEF Moves
  <2>4. Completing' => Completing
    BY <2>1 DEF Completing
  <2>5. Environment
    BY <1>1, <1>2, <2>1, <2>2, <2>4 DEF Environment
  <2>6. GlobalOK'
    BY <1>1, <1>2, <1>3, <2>1, <2>2 DEF GlobalOK, SharedTypes, StampOK
  <2> QED BY <1>1, <1>4, <2>3, <2>5, <2>6 DEF StepOK
<1>6. CASE ~exhausted(epoch)
  <2> DEFINE local == [th[c] EXCEPT !.pc = "failure", !.hwnd = h]
  <2>0. th' = [th EXCEPT ![c].pc = "failure", ![c].hwnd = h]
    BY <1>6 DEF publish_begin
  <2>1. /\ ~Odd(epoch) /\ epoch <= MaxEpoch - 3 /\ writer' = c
        /\ epoch' = (epoch + 1) % (MaxEpoch + 1)
    BY <1>2, <1>6 DEF publish_begin, exhausted
  <2>2. epoch' = epoch + 1 /\ Odd(epoch')
    BY <1>2, <2>1, Parity
  <2>3. local \in LocalType
    BY <1>2 DEF LocalType, PublishPc
  <2>4. Moves(c) /\ th'[c] = local
    <3>1. th'[c] = local
      BY <1>2, <2>0
    <3>2. \A d \in Controllers \ {c} : th'[d] = th[d]
      BY <1>2, <2>0
    <3>3. \A d \in Controllers : th'[d] \in LocalType
      BY <1>2, <2>3, <3>1, <3>2
    <3>4. th' = [d \in Controllers |-> th'[d]]
      BY <1>2, <2>0
    <3> QED BY <3>1, <3>2, <3>3, <3>4 DEF Moves
  <2>5. th'[c].pc = "failure"
    BY <1>2, <2>4 DEF LocalType
  <2>6. At(c)'
    BY <1>2, <2>1, <2>2, <2>5 DEF At, MutexAt, PublishAt, BindingAt, GuardPc, PublishPc, BindPc
  <2>c. Completing' => Completing
    BY <2>4, <2>5, NotCompleting
  <2>7. Environment
    BY <1>1, <1>2, <2>2, <2>c DEF Environment
  <2>8. GlobalOK'
    BY <1>1, <1>2, <1>3, <2>1, <2>2 DEF GlobalOK, SharedTypes, StampOK
  <2> QED BY <1>1, <1>4, <2>4, <2>6, <2>7, <2>8 DEF StepOK
<1> QED BY <1>5, <1>6

\* The stores of a publication, under its odd epoch, and its end.
LEMMA PublishSteps ==
  ASSUME Inv, NEW c \in Controllers,
         publish_failure(c) \/ publish_live(c) \/ publish_hwnd(c) \/ publish_generation(c)
           \/ publish_stable(c)
  PROVE  StepOK(c)
<1>1. th[c].pc \in PublishPc /\ UNCHANGED <<guard, worker, retained, binds, invalid>>
  BY DEF publish_failure, publish_live, publish_hwnd, publish_generation, publish_stable,
         target, history, PublishPc
<1>2. /\ writer = c /\ Odd(epoch) /\ epoch <= MaxEpoch - 2
      /\ th[c].pc = "stable" => generation > 0
  BY <1>1 DEF Inv, MutexOK, MutexAt, EpochOK, PublishAt, WritePc
<1>3. /\ SharedTypes /\ StampOK /\ th[c] \in LocalType /\ th[c].hwnd \in Hwnds
      /\ hwnd \in Hwnds /\ epoch \in 0 .. MaxEpoch /\ generation \in Nat /\ owner.generation \in Nat
  BY DEF Inv, Types, SharedTypes, EpochOK, StampOK, OwnerType, LocalType
<1>4. Alone(c)
  BY <1>1, <1>2 DEF Alone
<1>5. CASE publish_failure(c) \/ publish_live(c) \/ publish_hwnd(c) \/ publish_generation(c)
  <2>1. PICK pc \in PublishPc : Goto(c, pc) /\ (pc = "stable" => generation' > 0)
    BY <1>3, <1>5 DEF publish_failure, publish_live, publish_hwnd, publish_generation, PublishPc
  <2>2. Moves(c) /\ th'[c].pc \in PublishPc /\ (th'[c].pc = "stable" => generation' > 0)
    BY <2>1, GotoShape
  <2>3. UNCHANGED <<epoch, writer, published>>
    BY <1>5 DEF publish_failure, publish_live, publish_hwnd, publish_generation, target, history
  <2>4. hwnd' \in Hwnds /\ generation' \in Nat /\ generation <= generation'
    BY <1>3, <1>5 DEF publish_failure, publish_live, publish_hwnd, publish_generation, target
  <2>5. OwnerFades
    BY <1>5, Fading DEF publish_failure, publish_live, publish_hwnd, publish_generation
  <2>6. OwnerOK' /\ LiveIdentityIsValid'
    BY <1>1, <2>4, <2>5, FadeKeeps
  <2>7. GlobalOK'
    BY <1>1, <1>2, <1>3, <2>3, <2>4, <2>5, <2>6
       DEF GlobalOK, SharedTypes, StampOK, OwnerFades
  <2>8. At(c)'
    BY <1>2, <2>2, <2>3 DEF At, MutexAt, PublishAt, BindingAt, GuardPc, PublishPc, BindPc
  <2>9. Completing' => Completing
    BY <2>2, NotCompleting DEF PublishPc
  <2>10. Environment
    BY <1>1, <1>2, <1>3, <2>3, <2>5, <2>9 DEF Environment, OwnerFades
  <2> QED BY <1>1, <1>4, <2>2, <2>7, <2>8, <2>10 DEF StepOK
<1>6. CASE publish_stable(c)
  <2>1. /\ epoch' = (epoch + 1) % (MaxEpoch + 1) /\ UNCHANGED <<hwnd, generation, owner>>
        /\ published' = [hwnd |-> hwnd, generation |-> generation]
        /\ Return(c) /\ th[c].pc = "stable"
    BY <1>6 DEF publish_stable
  <2>2. epoch' = epoch + 1
    BY <1>2, <1>3, <2>1, Parity
  <2>3. Moves(c) /\ th'[c].pc = "idle" /\ At(c)'
    BY <2>1, ReturnShape, IdleAt
  <2>4. OwnerOK' /\ LiveIdentityIsValid'
    BY <1>1, <1>3, <2>1, Fading, FadeKeeps
  <2>5. published' \in Stamp
    BY <1>3, <2>1 DEF Stamp, SharedTypes
  <2>6. SharedTypes'
    BY <1>1, <1>2, <1>3, <2>1, <2>2, <2>5 DEF SharedTypes
  <2>7. StampOK'
    BY <1>2, <2>1 DEF StampOK
  <2>8. Environment
    BY <1>1, <1>3, <2>1, <2>2, <2>3, NotCompleting DEF Environment
  <2> QED BY <1>1, <1>4, <2>3, <2>4, <2>6, <2>7, <2>8 DEF StepOK, GlobalOK
<1> QED BY <1>5, <1>6

----------------------------------------------------------------------------
\* A step that changes nothing but the locals of c and who holds a mutex.
OnlyLocal == UNCHANGED <<epoch, hwnd, generation, owner, retained, published, binds, invalid,
                         worker>>

\* Such a step needs to show only what c knows next.
LEMMA LocalKeeps ==
  ASSUME Inv, NEW c \in Controllers, OnlyLocal, Moves(c), At(c)', th'[c].pc # "bind_live",
         writer' = writer \/ writer = Nobody, guard' = guard \/ guard \in {Nobody, c}
  PROVE  StepOK(c)
<1>1. Alone(c)
  BY DEF Alone, Quiet, OnlyLocal
<1>2. Completing' => Completing
  BY NotCompleting
<1>3. epoch \in Nat /\ generation \in Nat /\ owner.generation \in Nat
  BY DEF Inv, Types, SharedTypes, OwnerType
<1>4. Environment
  BY <1>2, <1>3 DEF Environment, OnlyLocal
<1>5. SharedTypes' /\ StampOK'
  BY DEF Inv, Types, SharedTypes, EpochOK, StampOK, OnlyLocal
<1>6. OwnerOK' /\ LiveIdentityIsValid'
  BY <1>3, Fading, FadeKeeps DEF OnlyLocal
<1> QED BY <1>1, <1>4, <1>5, <1>6 DEF StepOK, GlobalOK, OnlyLocal

\* bind_window_identity_authority_with_pid, until bind_owner_identity stores.
LEMMA BindBegin ==
  ASSUME Inv, NEW c \in Controllers,
         (\E pid \in Pids : bind_load(c, pid)) \/ bind_guard(c) \/ bind_check(c)
  PROVE  StepOK(c)
<1>0. OnlyLocal
  BY DEF bind_load, bind_guard, bind_check, OnlyLocal, target, history
<1>t. /\ th \in [Controllers -> LocalType] /\ th[c] \in LocalType /\ hwnd \in Hwnds
      /\ generation \in Nat /\ BindingAt(c) /\ MutexAt(c)
  BY DEF Inv, Types, SharedTypes, BindingOK, MutexOK
<1>1. ASSUME NEW pid \in Pids, bind_load(c, pid) PROVE StepOK(c)
  <2> DEFINE local == [Idle EXCEPT !.pc = "bind", !.hwnd = hwnd, !.generation = generation,
                                   !.pid = pid]
  <2>1. th' = [th EXCEPT ![c] = local] /\ hwnd \in Windows /\ UNCHANGED <<writer, guard>>
    BY <1>1 DEF bind_load
  <2>2. /\ local \in LocalType /\ local.pc = "bind" /\ local.hwnd = hwnd
        /\ local.pid = pid
    BY <1>t, <1>1 DEF Idle, LocalType
  <2> HIDE DEF local
  <2>3. Moves(c) /\ th'[c] = local
    BY <1>t, <2>1, <2>2 DEF Moves
  <2>4. hwnd # 0
    BY <2>1
  <2>5. At(c)'
    BY <2>2, <2>3, <2>4, <1>0
       DEF At, MutexAt, PublishAt, BindingAt, WritePc, GuardPc, PublishPc, BindPc, OnlyLocal
  <2> QED BY <1>0, <2>1, <2>2, <2>3, <2>5, LocalKeeps
<1>2. CASE bind_guard(c)
  <2>1. CASE Return(c) /\ UNCHANGED guard
    <3>1. Moves(c) /\ th'[c].pc = "idle" /\ At(c)'
      BY <2>1, ReturnShape, IdleAt
    <3> QED BY <1>0, <1>2, <2>1, <3>1, LocalKeeps DEF bind_guard
  <2>2. CASE Goto(c, "bind_check") /\ guard' = c
    <3>1. /\ Moves(c) /\ th'[c].pc = "bind_check" /\ th'[c].hwnd = th[c].hwnd
          /\ th'[c].pid = th[c].pid
      BY <2>2, GotoShape
    <3>2. th[c].hwnd # 0 /\ th[c].pid \in Pids
      BY <1>t, <1>2 DEF bind_guard, BindingAt
    <3>3. At(c)'
      BY <2>2, <3>1, <3>2
         DEF At, MutexAt, PublishAt, BindingAt, WritePc, GuardPc, PublishPc, BindPc
    <3> QED BY <1>0, <1>2, <3>1, <3>3, LocalKeeps DEF bind_guard
  <2> QED BY <1>2, <2>1, <2>2 DEF bind_guard
<1>3. CASE bind_check(c)
  <2>1. th[c].pc = "bind_check" /\ writer = Nobody /\ guard = c /\ th[c].hwnd # 0
        /\ th[c].pid \in Pids
    BY <1>t, <1>3 DEF bind_check, BindingAt, MutexAt, GuardPc
  <2>2. CASE guard' = Nobody /\ Return(c) /\ UNCHANGED writer
    <3>1. Moves(c) /\ th'[c].pc = "idle" /\ At(c)'
      BY <2>2, ReturnShape, IdleAt
    <3> QED BY <1>0, <2>1, <2>2, <3>1, LocalKeeps
  <2>3. CASE /\ Stable /\ hwnd = th[c].hwnd /\ generation = th[c].generation
             /\ bindable(th[c].generation)
             /\ writer' = c /\ Goto(c, "bind_required") /\ UNCHANGED guard
    <3>1. /\ Moves(c) /\ th'[c].pc = "bind_required" /\ th'[c].pid = th[c].pid
          /\ th'[c].generation = generation
      BY <2>3, GotoShape DEF BindPc
    <3>2. generation > 0
      BY <2>1, <2>3 DEF Inv, EpochOK, Stable
    <3>3. owner.generation \in Nat /\ owner.generation < generation
      BY <1>t, <2>3, <3>2 DEF Inv, Types, SharedTypes, OwnerType, OwnerOK, bindable
    <3>4. \A b \in binds : b.generation < generation
      <4>1. \A b \in binds : b.generation \in Nat /\ b.generation <= owner.generation
        BY DEF Inv, Types, SharedTypes, OwnerOK, Binding
      <4> QED BY <1>t, <3>3, <4>1
    <3>5. At(c)'
      BY <1>0, <2>1, <2>3, <3>1, <3>3, <3>4
         DEF At, MutexAt, PublishAt, BindingAt, PublishPc, BindPc, OnlyLocal
    <3> QED BY <1>0, <2>1, <2>3, <3>1, <3>5, LocalKeeps
  <2> QED BY <1>3, <2>2, <2>3 DEF bind_check
<1> QED BY <1>1, <1>2, <1>3

\* The stores of bind_owner_identity that leave the binding as it is.
LEMMA BindPrepare ==
  ASSUME Inv, NEW c \in Controllers, bind_required(c) \/ bind_failure(c) \/ bind_dead(c)
  PROVE  StepOK(c)
<1>1. PICK pc \in {"bind_failure", "bind_dead", "bind_pid"} :
        Goto(c, pc) /\ (pc = "bind_pid" => owner' = [owner EXCEPT !.live = FALSE])
  BY DEF bind_required, bind_failure, bind_dead
<1>2. /\ th[c].pc \in BindPc \ {"bind_live"}
      /\ UNCHANGED <<epoch, hwnd, generation, writer, retained, guard, worker, published, binds,
                     invalid>>
  BY DEF bind_required, bind_failure, bind_dead, target, history, BindPc
<1>3. OwnerFades
  BY Fading DEF bind_required, bind_failure, bind_dead
<1>4. /\ writer = c /\ guard = c /\ th[c].pid \in Pids /\ th[c].generation = generation
      /\ \A b \in binds : b.generation < th[c].generation
      /\ owner.generation < th[c].generation
  BY <1>2 DEF Inv, MutexOK, MutexAt, BindingOK, BindingAt, WritePc, GuardPc
<1>5. /\ Moves(c) /\ th'[c].pc \in {"bind_failure", "bind_dead", "bind_pid"}
      /\ th'[c].pid = th[c].pid /\ th'[c].generation = th[c].generation
      /\ th'[c].pc = "bind_pid" => owner' = [owner EXCEPT !.live = FALSE]
  BY <1>1, GotoShape DEF BindPc
<1>6. th'[c].pc = "bind_pid" => ~owner'.live
  BY <1>5 DEF Inv, Types, SharedTypes, OwnerType
<1>7. At(c)'
  BY <1>2, <1>3, <1>4, <1>5, <1>6
     DEF At, MutexAt, PublishAt, BindingAt, PublishPc, BindPc, OwnerFades
<1>8. Completing' => Completing
  BY <1>5, NotCompleting
<1>9. epoch \in Nat /\ generation \in Nat /\ owner.generation \in Nat
  BY DEF Inv, Types, SharedTypes, OwnerType
<1>10. Alone(c) /\ Environment
  BY <1>2, <1>3, <1>4, <1>8, <1>9 DEF Alone, Environment, OwnerFades
<1>11. OwnerOK' /\ LiveIdentityIsValid'
  BY <1>2, <1>3, <1>9, FadeKeeps
<1>12. SharedTypes' /\ StampOK'
  BY <1>2, <1>3 DEF Inv, Types, SharedTypes, EpochOK, StampOK, OwnerFades
<1> QED BY <1>2, <1>5, <1>7, <1>10, <1>11, <1>12 DEF StepOK, GlobalOK

\* The stores that make the new binding.  What was known of the old one ends
\* with the generation, which is why the worker reads it twice.
LEMMA BindStores ==
  ASSUME Inv, NEW c \in Controllers, bind_pid(c) \/ bind_generation(c) \/ bind_live(c)
  PROVE  StepOK(c)
<1>1. /\ th[c].pc \in {"bind_pid", "bind_generation", "bind_live"}
      /\ UNCHANGED <<epoch, hwnd, generation, retained, guard, worker, published, invalid>>
  BY DEF bind_pid, bind_generation, bind_live, target, history
<1>2. /\ writer = c /\ guard = c /\ th[c].pid \in Pids /\ th[c].generation = generation
      /\ \A b \in binds : b.generation < th[c].generation
      /\ ~owner.live
  BY <1>1 DEF Inv, MutexOK, MutexAt, BindingOK, BindingAt, WritePc, GuardPc, BindPc
<1>3. /\ owner \in OwnerType /\ epoch \in Nat /\ generation \in Nat
      /\ owner.generation \in Nat /\ owner.generation <= generation
      /\ \A b \in binds : b.generation \in Nat
      /\ OwnerOK /\ LiveIdentityIsValid /\ SharedTypes /\ StampOK /\ BindingAt(c)
  BY DEF Inv, Types, SharedTypes, OwnerType, OwnerOK, Binding, EpochOK, StampOK, BindingOK
<1>4. \A d \in Controllers \ {c} : th[d].pc # "bind_live"
  BY <1>2 DEF Inv, MutexOK, MutexAt, WritePc, BindPc
<1>5. CASE bind_pid(c)
  <2>1. /\ th[c].pc = "bind_pid" /\ owner' = [owner EXCEPT !.pid = th[c].pid]
        /\ Goto(c, "bind_generation") /\ UNCHANGED <<writer, binds>>
    BY <1>5 DEF bind_pid, history
  <2>2. /\ owner' \in OwnerType /\ owner'.pid = th[c].pid /\ ~owner'.live
        /\ owner'.generation = owner.generation
    BY <1>2, <1>3, <2>1 DEF OwnerType
  <2>3. /\ Moves(c) /\ th'[c].pc = "bind_generation" /\ th'[c].pid = th[c].pid
        /\ th'[c].generation = th[c].generation
    BY <2>1, GotoShape DEF BindPc
  <2>4. owner.generation < th[c].generation
    BY <1>3, <2>1 DEF BindingAt, BindPc
  <2>5. At(c)'
    BY <1>1, <1>2, <2>1, <2>2, <2>3, <2>4
       DEF At, MutexAt, PublishAt, BindingAt, PublishPc, BindPc
  <2>6. ~Completing'
    BY <1>4, <2>3 DEF Completing, Moves
  <2>7. Alone(c) /\ Environment
    BY <1>1, <1>2, <1>3, <2>1, <2>2, <2>6 DEF Alone, Environment
  <2>8. OwnerOK'
    BY <1>1, <1>2, <1>3, <2>1, <2>2 DEF OwnerOK, BoundGens
  <2>9. LiveIdentityIsValid'
    BY <1>3, <2>1, <2>2 DEF LiveIdentityIsValid
  <2>10. SharedTypes' /\ StampOK'
    BY <1>1, <1>3, <2>1, <2>2 DEF SharedTypes, StampOK
  <2> QED BY <1>1, <2>3, <2>5, <2>7, <2>8, <2>9, <2>10 DEF StepOK, GlobalOK
<1>6. CASE bind_generation(c)
  <2>1. /\ th[c].pc = "bind_generation"
        /\ owner' = [owner EXCEPT !.generation = th[c].generation]
        /\ Goto(c, "bind_live") /\ UNCHANGED <<writer, binds>>
    BY <1>6 DEF bind_generation, history
  <2>2. /\ owner' \in OwnerType /\ owner'.pid = owner.pid /\ ~owner'.live
        /\ owner'.generation = th[c].generation
    BY <1>2, <1>3, <2>1 DEF OwnerType
  <2>3. /\ Moves(c) /\ th'[c].pc = "bind_live" /\ th'[c].pid = th[c].pid
        /\ th'[c].generation = th[c].generation
    BY <2>1, GotoShape DEF BindPc
  <2>4. owner.generation < th[c].generation /\ owner.pid = th[c].pid
    BY <1>3, <2>1 DEF BindingAt, BindPc
  <2>5. At(c)'
    BY <1>1, <1>2, <2>1, <2>2, <2>3, <2>4
       DEF At, MutexAt, PublishAt, BindingAt, PublishPc, BindPc
  <2>6. Alone(c) /\ Environment
    BY <1>1, <1>2, <1>3, <2>1, <2>2, <2>4 DEF Alone, Environment
  <2>7. OwnerOK'
    BY <1>1, <1>2, <1>3, <2>1, <2>2, <2>4 DEF OwnerOK, BoundGens
  <2>8. LiveIdentityIsValid'
    BY <1>3, <2>1, <2>2 DEF LiveIdentityIsValid
  <2>9. SharedTypes' /\ StampOK'
    BY <1>1, <1>3, <2>1, <2>2 DEF SharedTypes, StampOK
  <2> QED BY <1>1, <2>3, <2>5, <2>6, <2>7, <2>8, <2>9 DEF StepOK, GlobalOK
<1>7. CASE bind_live(c)
  <2> DEFINE new == [generation |-> th[c].generation, pid |-> th[c].pid]
  <2>1. /\ th[c].pc = "bind_live" /\ owner' = [owner EXCEPT !.live = TRUE]
        /\ binds' = binds \cup {new} /\ writer' = Nobody /\ Goto(c, "retain")
    BY <1>7 DEF bind_live
  <2>2. /\ owner' \in OwnerType /\ owner'.pid = owner.pid
        /\ owner'.generation = owner.generation
    BY <1>3, <2>1 DEF OwnerType
  <2>3. owner.generation = th[c].generation /\ owner.pid = th[c].pid
    BY <1>3, <2>1 DEF BindingAt
  <2>4. /\ new \in Binding /\ new.generation = th[c].generation /\ new.pid = th[c].pid
    BY <1>2, <1>3 DEF Binding
  <2> HIDE DEF new
  <2>5. BoundGens' = BoundGens \cup {th[c].generation}
    BY <2>1, <2>4 DEF BoundGens
  <2>6. /\ Moves(c) /\ th'[c].pc = "retain" /\ th'[c].generation = th[c].generation
    BY <2>1, GotoShape
  <2>7. At(c)'
    BY <1>1, <1>2, <2>5, <2>6 DEF At, MutexAt, PublishAt, BindingAt, WritePc, PublishPc, BindPc
  <2>8. Completing
    BY <2>1 DEF Completing
  <2>9. Alone(c) /\ Environment
    BY <1>1, <1>2, <1>3, <2>1, <2>2, <2>8 DEF Alone, Environment
  <2>10. OwnerOK'
    <3>1. \A b \in binds' : b.generation <= owner'.generation
      BY <1>3, <2>1, <2>2, <2>3, <2>4 DEF OwnerOK
    <3> QED BY <1>1, <1>3, <2>2, <2>5, <3>1 DEF OwnerOK
  <2>11. LiveIdentityIsValid'
    <3>1. owner'.generation \notin invalid'
      <4>1. th[c].generation \notin BoundGens
        BY <1>2, <1>3 DEF BoundGens
      <4> QED BY <1>1, <1>3, <2>2, <2>3, <4>1 DEF OwnerOK
    <3>2. [generation |-> owner'.generation, pid |-> owner'.pid] \in binds'
      BY <2>1, <2>2, <2>3 DEF new
    <3>3. \A a, b \in binds' : a.generation = b.generation => a.pid = b.pid
      BY <1>2, <1>3, <2>1, <2>4 DEF LiveIdentityIsValid
    <3> QED BY <3>1, <3>2, <3>3 DEF LiveIdentityIsValid
  <2>12. SharedTypes' /\ StampOK'
    BY <1>1, <1>3, <2>1, <2>2, <2>4 DEF SharedTypes, StampOK
  <2> QED BY <1>1, <2>6, <2>7, <2>9, <2>10, <2>11, <2>12 DEF StepOK, GlobalOK
<1> QED BY <1>5, <1>6, <1>7

\* The authority is retained.
LEMMA BindRetain ==
  ASSUME Inv, NEW c \in Controllers, bind_retain(c)
  PROVE  StepOK(c)
<1>1. /\ th[c].pc = "retain" /\ guard' = Nobody /\ Return(c)
      /\ retained' = [hwnd |-> th[c].hwnd, generation |-> th[c].generation]
      /\ UNCHANGED <<epoch, hwnd, generation, owner, writer, worker, published, binds, invalid>>
  BY DEF bind_retain, target, history
<1>2. guard = c /\ th[c].generation \in BoundGens
  BY <1>1 DEF Inv, MutexOK, MutexAt, BindingOK, BindingAt, GuardPc
<1>3. /\ th[c].hwnd \in Hwnds /\ th[c].generation \in Nat /\ epoch \in Nat
      /\ owner.generation \in Nat /\ SharedTypes /\ StampOK /\ OwnerOK /\ LiveIdentityIsValid
  BY DEF Inv, Types, SharedTypes, LocalType, OwnerType, EpochOK, StampOK
<1>4. Moves(c) /\ th'[c].pc = "idle" /\ At(c)'
  BY <1>1, ReturnShape, IdleAt
<1>5. Completing' => Completing
  BY <1>4, NotCompleting
<1>6. Alone(c) /\ Environment
  BY <1>1, <1>2, <1>3, <1>5 DEF Alone, Quiet, Environment
<1>7. retained' \in Stamp /\ retained'.generation = th[c].generation
  BY <1>1, <1>3 DEF Stamp
<1>8. OwnerOK'
  BY <1>1, <1>2, <1>3, <1>7 DEF OwnerOK, BoundGens
<1>9. SharedTypes' /\ StampOK' /\ LiveIdentityIsValid'
  BY <1>1, <1>3, <1>7 DEF SharedTypes, StampOK, LiveIdentityIsValid
<1> QED BY <1>1, <1>4, <1>6, <1>8, <1>9 DEF StepOK, GlobalOK

----------------------------------------------------------------------------
\* An identity dies and its generation is noted.
LEMMA Dies ==
  ASSUME Inv, NEW g \in BoundGens, invalid' = invalid \cup {g}, OwnerFades, ~owner'.live,
         UNCHANGED <<binds, generation>>, retained' = retained \/ retained' = NoStamp
  PROVE  OwnerOK' /\ LiveIdentityIsValid' /\ invalid' \in SUBSET Nat
<1>1. OwnerOK'
  BY DEF Inv, OwnerOK, OwnerFades, BoundGens
<1>2. LiveIdentityIsValid'
  BY DEF Inv, LiveIdentityIsValid
<1>3. invalid' \in SUBSET Nat
  BY DEF Inv, Types, SharedTypes, BoundGens, Binding
<1> QED BY <1>1, <1>2, <1>3

\* poll_window_identity_authority, until the owner is invalidated.
LEMMA PollSteps ==
  ASSUME Inv, NEW c \in Controllers, poll_begin(c) \/ poll_continuity(c)
  PROVE  StepOK(c)
<1>0. OnlyLocal /\ UNCHANGED writer
  BY DEF poll_begin, poll_continuity, OnlyLocal, target, history
<1>t. /\ th \in [Controllers -> LocalType] /\ th[c] \in LocalType
      /\ retained \in Stamp \cup {NoStamp} /\ OwnerOK /\ BindingAt(c) /\ MutexAt(c)
  BY DEF Inv, Types, SharedTypes, BindingOK, MutexOK
<1>1. CASE poll_begin(c)
  <2>1. retained \in Stamp /\ retained.generation \in Nat /\ retained.generation \in BoundGens
    BY <1>1, <1>t DEF poll_begin, Stamp, OwnerOK
  <2>2. PICK local \in LocalType :
          /\ th' = [th EXCEPT ![c] = local] /\ local.pc \in {"poll", "invalidate"}
          /\ local.generation = retained.generation
    <3> DEFINE inv == [Idle EXCEPT !.pc = "invalidate", !.generation = retained.generation,
                                   !.failure = "ProcessTerminated"]
               pol == [Idle EXCEPT !.pc = "poll", !.generation = retained.generation]
    <3>1. /\ inv \in LocalType /\ inv.pc = "invalidate"
          /\ inv.generation = retained.generation
      BY <2>1, NullTypes DEF LocalType, Failure, Idle
    <3>2. /\ pol \in LocalType /\ pol.pc = "poll" /\ pol.generation = retained.generation
      BY <2>1, NullTypes DEF LocalType, Idle
    <3>3. th' = [th EXCEPT ![c] = inv] \/ th' = [th EXCEPT ![c] = pol]
      BY <1>1 DEF poll_begin
    <3> HIDE DEF inv, pol
    <3> QED BY <3>1, <3>2, <3>3
  <2>3. Moves(c) /\ th'[c] = local
    BY <1>t, <2>2 DEF Moves
  <2>4. guard' = c /\ guard = Nobody
    BY <1>1 DEF poll_begin
  <2>5. BoundGens' = BoundGens
    BY <1>0 DEF OnlyLocal, BoundGens
  <2>6. At(c)'
    BY <2>1, <2>2, <2>3, <2>4, <2>5
       DEF At, MutexAt, PublishAt, BindingAt, WritePc, PublishPc, BindPc
  <2> QED BY <1>0, <2>2, <2>3, <2>4, <2>6, LocalKeeps
<1>2. CASE poll_continuity(c)
  <2>1. guard = c /\ th[c].generation \in BoundGens
    BY <1>2, <1>t DEF poll_continuity, MutexAt, BindingAt, GuardPc
  <2>2. CASE Return(c) /\ guard' = Nobody
    <3>1. Moves(c) /\ th'[c].pc = "idle" /\ At(c)'
      BY <2>2, ReturnShape, IdleAt
    <3> QED BY <1>0, <2>1, <2>2, <3>1, LocalKeeps
  <2>3. ASSUME NEW f \in Failure, UNCHANGED guard,
               th' = [th EXCEPT ![c].pc = "invalidate", ![c].failure = f]
        PROVE  StepOK(c)
    <3> DEFINE local == [th[c] EXCEPT !.pc = "invalidate", !.failure = f]
    <3>1. /\ local \in LocalType /\ local.pc = "invalidate"
          /\ local.generation = th[c].generation
      BY <1>t DEF LocalType
    <3>2. th'[c] = local
      BY <1>t, <2>3
    <3>3. \A d \in Controllers \ {c} : th'[d] = th[d]
      BY <1>t, <2>3
    <3>4. \A d \in Controllers : th'[d] \in LocalType
      BY <1>t, <3>1, <3>2, <3>3
    <3>5. th' = [d \in Controllers |-> th'[d]]
      BY <1>t, <2>3
    <3> HIDE DEF local
    <3>6. Moves(c)
      BY <3>3, <3>4, <3>5 DEF Moves
    <3>7. BoundGens' = BoundGens
      BY <1>0 DEF OnlyLocal, BoundGens
    <3>8. At(c)'
      BY <2>1, <2>3, <3>1, <3>2, <3>7
         DEF At, MutexAt, PublishAt, BindingAt, WritePc, PublishPc, BindPc
    <3> QED BY <1>0, <2>3, <3>1, <3>2, <3>6, <3>8, LocalKeeps
  <2> QED BY <1>2, <2>2, <2>3 DEF poll_continuity
<1> QED BY <1>1, <1>2

\* invalidate_owner_identity_with, which does not take the writer mutex.
LEMMA InvalidateSteps ==
  ASSUME Inv, NEW c \in Controllers, invalidate_failure(c) \/ invalidate_live(c)
  PROVE  StepOK(c)
<1>1. /\ th[c].pc \in {"invalidate", "invalidate_live"}
      /\ UNCHANGED <<epoch, hwnd, generation, writer, retained, worker, published, binds>>
  BY DEF invalidate_failure, invalidate_live, target, history
<1>2. guard = c /\ th[c].generation \in BoundGens
  BY <1>1 DEF Inv, MutexOK, MutexAt, BindingOK, BindingAt, GuardPc
<1>3. /\ th[c].failure \in Failure \cup {"none"} /\ owner \in OwnerType /\ epoch \in Nat
      /\ owner.generation \in Nat /\ generation \in Nat /\ SharedTypes /\ StampOK
  BY DEF Inv, Types, SharedTypes, LocalType, OwnerType, EpochOK, StampOK
<1>4. OwnerFades
  BY <1>3, Fading DEF invalidate_failure, invalidate_live
<1>5. Quiet /\ BoundGens' = BoundGens
  BY <1>1, <1>4 DEF Quiet, OwnerFades, BoundGens
<1>6. CASE invalidate_failure(c)
  <2>1. Goto(c, "invalidate_live") /\ UNCHANGED <<guard, invalid>>
    BY <1>6 DEF invalidate_failure, history
  <2>2. /\ Moves(c) /\ th'[c].pc = "invalidate_live"
        /\ th'[c].generation = th[c].generation
    BY <2>1, GotoShape
  <2>3. At(c)'
    BY <1>2, <1>5, <2>1, <2>2 DEF At, MutexAt, PublishAt, BindingAt, WritePc, PublishPc, BindPc
  <2>4. Completing' => Completing
    BY <2>2, NotCompleting
  <2>5. Alone(c) /\ Environment
    BY <1>1, <1>3, <1>4, <1>5, <2>1, <2>4 DEF Alone, Environment, OwnerFades
  <2>6. OwnerOK' /\ LiveIdentityIsValid'
    BY <1>1, <1>3, <1>4, <2>1, FadeKeeps
  <2>7. SharedTypes' /\ StampOK'
    BY <1>1, <1>3, <1>4, <2>1 DEF SharedTypes, StampOK, OwnerFades
  <2> QED BY <1>1, <2>2, <2>3, <2>5, <2>6, <2>7 DEF StepOK, GlobalOK
<1>7. CASE invalidate_live(c)
  <2>1. /\ owner' = [owner EXCEPT !.live = FALSE] /\ guard' = Nobody /\ Return(c)
        /\ invalid' = invalid \cup {th[c].generation}
    BY <1>7 DEF invalidate_live
  <2>2. ~owner'.live
    BY <1>3, <2>1 DEF OwnerType
  <2>3. OwnerOK' /\ LiveIdentityIsValid' /\ invalid' \in SUBSET Nat
    BY <1>1, <1>2, <1>4, <2>1, <2>2, Dies
  <2>4. Moves(c) /\ th'[c].pc = "idle" /\ At(c)'
    BY <2>1, ReturnShape, IdleAt
  <2>5. Completing' => Completing
    BY <2>4, NotCompleting
  <2>6. Alone(c) /\ Environment
    BY <1>1, <1>2, <1>3, <1>4, <1>5, <2>1, <2>5 DEF Alone, Environment, OwnerFades
  <2>7. SharedTypes' /\ StampOK'
    BY <1>1, <1>3, <1>4, <2>3 DEF SharedTypes, StampOK, OwnerFades
  <2> QED BY <1>1, <2>3, <2>4, <2>6, <2>7 DEF StepOK, GlobalOK
<1> QED BY <1>6, <1>7

\* close_window_identity_authority.
LEMMA CloseStep ==
  ASSUME Inv, close_window_identity_authority
  PROVE  Inv'
<1>1. /\ retained # NoStamp /\ retained' = NoStamp
      /\ owner' = [owner EXCEPT !.failure = "ProcessTerminated", !.live = FALSE]
      /\ invalid' = invalid \cup {retained.generation}
      /\ UNCHANGED <<epoch, hwnd, generation, writer, guard, th, worker, published, binds>>
  BY DEF close_window_identity_authority, target
<1>2. \A c \in Controllers : th'[c].pc = "idle"
  BY <1>1 DEF close_window_identity_authority, Quiescent
<1>3. MutexOK' /\ BindingOK' /\ \A c \in Controllers : PublishAt(c)'
  BY <1>2, IdleAt DEF At, MutexOK, BindingOK
<1>4. EpochOK'
  BY <1>1, <1>3 DEF Inv, EpochOK
<1>5. OwnerFades
  BY <1>1, Fading
<1>6. /\ retained.generation \in BoundGens /\ owner \in OwnerType /\ epoch \in Nat
      /\ owner.generation \in Nat
  BY <1>1 DEF Inv, Types, SharedTypes, OwnerOK, OwnerType
<1>7. ~owner'.live
  BY <1>1, <1>6 DEF OwnerType
<1>8. OwnerOK' /\ LiveIdentityIsValid' /\ invalid' \in SUBSET Nat
  BY <1>1, <1>5, <1>6, <1>7, Dies
<1>9. Completing' => Completing
  BY <1>1 DEF Completing
<1>10. Environment
  BY <1>1, <1>5, <1>6, <1>9 DEF Environment, OwnerFades
<1>11. WorkerOK'
  BY <1>1, <1>5, <1>6, <1>10, WorkerStays DEF OwnerFades
<1>12. Types'
  BY <1>1, <1>5, <1>8, <1>11 DEF Inv, Types, SharedTypes, OwnerFades, WorkerOK
<1> QED BY <1>3, <1>4, <1>8, <1>11, <1>12 DEF Inv, WorkerOK

----------------------------------------------------------------------------
\* Every step keeps the invariant and is a step of the register or none.
LEMMA InvStep ==
  ASSUME Inv, [Next]_vars
  PROVE  Inv' /\ [Register!Next]_<<published, got>>
<1> USE DEF Register!Next, Register!Publish, Register!Read
<1>1. CASE Reader
  <2>1. ReaderFrame
    BY <1>1 DEF Reader, read_epoch, read_hwnd, read_generation, read_final_epoch, status_required,
                status_first_generation, status_pid, status_live, status_final_generation,
                send_down, ReaderFrame, target, history
  <2>2. WorkerOK' /\ got' \in {published, NoStamp, got}
    BY <1>1, LoadSteps, StatusSteps DEF Reader
  <2>3. MutexOK' /\ EpochOK' /\ BindingOK'
    BY <2>1 DEF Inv, ReaderFrame, MutexOK, MutexAt, EpochOK, PublishAt, BindingOK, BindingAt,
                BoundGens
  <2>4. OwnerOK' /\ LiveIdentityIsValid'
    BY <2>1 DEF Inv, ReaderFrame, OwnerOK, BoundGens, LiveIdentityIsValid
  <2>5. Types'
    BY <2>1, <2>2 DEF Inv, ReaderFrame, Types, SharedTypes, WorkerOK
  <2>6. Inv'
    BY <2>2, <2>3, <2>4, <2>5 DEF Inv, WorkerOK
  <2> QED BY <2>1, <2>2, <2>6 DEF ReaderFrame
<1>2. CASE close_window_identity_authority
  <2>1. UNCHANGED <<published, got>>
    BY <1>2 DEF close_window_identity_authority
  <2> QED BY <1>2, <2>1, CloseStep
<1>3. ASSUME NEW c \in Controllers, Publisher(c) \/ Binder(c) \/ Invalidator(c)
      PROVE  Inv' /\ [Register!Next]_<<published, got>>
  <2>1. StepOK(c)
    BY <1>3, PublishBegin, PublishSteps, BindBegin, BindPrepare, BindStores, BindRetain,
       PollSteps, InvalidateSteps DEF Publisher, Binder, Invalidator
  <2>2. Inv'
    BY <2>1, StepInv
  <2>3. published' \in Stamp
    BY <2>2 DEF Inv, Types, SharedTypes
  <2>4. UNCHANGED got
    BY <1>3 DEF Publisher, publish_begin, publish_failure, publish_live, publish_hwnd,
                publish_generation, publish_stable, Binder, bind_load, bind_guard, bind_check,
                bind_required, bind_failure, bind_dead, bind_pid, bind_generation, bind_live,
                bind_retain, Invalidator, poll_begin, poll_continuity, invalidate_failure,
                invalidate_live
  <2> QED BY <2>2, <2>3, <2>4
<1>4. CASE UNCHANGED vars
  <2>1. MutexOK' /\ EpochOK' /\ BindingOK' /\ OwnerOK' /\ LiveIdentityIsValid'
    BY <1>4 DEF vars, Inv, MutexOK, MutexAt, EpochOK, PublishAt, BindingOK, BindingAt, BoundGens,
                OwnerOK, LiveIdentityIsValid
  <2>2. ReadOK' /\ StatusOK' /\ SinceOK' /\ AuthorityAtSend'
    BY <1>4 DEF vars, Inv, ReadOK, Fresh, StatusOK, Binds, Completing, SinceOK, AuthorityAtSend
  <2>3. Types'
    BY <1>4 DEF vars, Inv, Types, SharedTypes
  <2> QED BY <1>4, <2>1, <2>2, <2>3 DEF Inv, vars
<1> QED BY <1>1, <1>2, <1>3, <1>4 DEF Next

\* The sequence lock of target.rs implements an atomic register: a load_stable
\* of the worker that succeeds returns the last publication (publish_inner,
\* load_stable_inner).
THEOREM TargetIsAtomic == Spec => LoadIsAtomic
<1>1. Init => Register!Init
  BY DEF Init, Register!Init
<1>2. Inv /\ [Next]_vars => Inv'
  BY InvStep
<1>3. Inv /\ [Next]_vars => [Register!Next]_<<published, got>>
  BY InvStep
<1> QED BY InitInv, <1>1, <1>2, <1>3, PTL DEF Spec, LoadIsAtomic, Register!Spec

\* An identity that was invalidated never lives again, and a generation has
\* one binding (bind_owner_identity, invalidate_owner_identity_with).
THEOREM IdentityIsValid == Spec => []LiveIdentityIsValid
<1>1. Inv /\ [Next]_vars => Inv'
  BY InvStep
<1>2. Inv => LiveIdentityIsValid
  BY DEF Inv
<1> QED BY InitInv, <1>1, <1>2, PTL DEF Spec

\* A Down that passed the gate has the authority of the target that was
\* published when its last revalidation began (final_down_target_admission,
\* final_down_post_modifier_verdict).
THEOREM DownHasAuthority == Spec => []AuthorityAtSend
<1>1. Inv /\ [Next]_vars => Inv'
  BY InvStep
<1>2. Inv => AuthorityAtSend
  BY DEF Inv
<1> QED BY InitInv, <1>1, <1>2, PTL DEF Spec
============================================================================
