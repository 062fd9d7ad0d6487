--------------------------- MODULE SessionTarget ---------------------------
(***************************************************************************)
(* The target window of a session and the identity of its owner            *)
(* (SessionTarget in sky_player/src/engine/target.rs), with the session    *)
(* calls that change them (session.rs) and the worker's gate that reads    *)
(* them before every Down (worker/admission.rs).                           *)
(*                                                                         *)
(* Publications are serialized by the writer mutex and announced by an     *)
(* epoch that is odd while one is in progress; the worker reads without a  *)
(* lock and gives up when the epoch moved.  The owner's identity is bound  *)
(* under the same mutex but invalidated without it.  Every atomic access   *)
(* of the worker, of a publication and of a binding is a step.  What the   *)
(* calls do to the startup word belongs to StartupWord's other users.      *)
(***************************************************************************)
EXTENDS Integers

CONSTANTS
    Controllers,  \* threads that call the session
    Windows,      \* window handles other than 0
    Pids,         \* process ids other than 0
    MaxEpoch      \* u64::MAX: odd, and the value that poisons the epoch

ASSUME WindowsAssumption == Windows \subseteq Nat \ {0}
ASSUME PidsAssumption == Pids \subseteq Nat \ {0}
ASSUME ControllersAssumption == "nobody" \notin Controllers
ASSUME MaxEpochAssumption == MaxEpoch \in Nat /\ MaxEpoch % 2 = 1 /\ MaxEpoch > 2

VARIABLES
    epoch, hwnd, generation,      \* the publication
    owner,                        \* required, pid, generation, live, failure
    writer,                       \* holder of the writer mutex
    retained, guard,              \* window_identity_authority and its mutex's holder
    th,                           \* controllers: program counter and locals
    worker,                       \* worker: program counter and locals
    got,                          \* the outcome of the worker's last load_stable
    published, binds, invalid     \* history: last publication, bindings, invalidated generations

target == <<epoch, hwnd, generation>>
history == <<published, binds, invalid>>
vars == <<epoch, hwnd, generation, owner, writer, retained, guard, th, worker, got,
          published, binds, invalid>>

Hwnds == Windows \cup {0}
Failure == {"ProcessTerminated", "OwnerMismatch", "WindowUnavailable",
            "ProcessIdentityMismatch", "QueryUnavailable"}
Nobody == "nobody"
Stamp == [hwnd : Hwnds, generation : Nat]
NoStamp == [hwnd |-> 0, generation |-> -1]
FirstStamp == [hwnd |-> 0, generation |-> 0]

PublishPc == {"failure", "live", "hwnd", "generation", "stable"}
BindPc == {"bind_required", "bind_failure", "bind_dead", "bind_pid", "bind_generation",
           "bind_live"}
Idle == [pc |-> "idle", hwnd |-> 0, generation |-> 0, pid |-> 0, failure |-> "none"]
NotRead == [epoch |-> 0, hwnd |-> 0, generation |-> 0, pid |-> 0, live |-> FALSE]
Unknown == [stamp |-> FirstStamp, invalid |-> {}, poisoned |-> FALSE]

\* A publication advances the epoch by two, so the generation is at most half.
MaxGeneration == MaxEpoch \div 2

\* TypeOK: every variable has its type; neither the epoch nor the generation
\* has passed the last value its counter may take (publish_inner).
Local == [pc : {"idle", "bind", "bind_check", "retain", "poll", "invalidate",
                "invalidate_live"} \cup PublishPc \cup BindPc,
          hwnd : Hwnds, generation : 0 .. MaxGeneration, pid : Pids \cup {0},
          failure : Failure \cup {"none"}]
WorkerPc == {"epoch", "hwnd", "generation", "final_epoch", "required", "first", "pid", "live",
             "final", "send"}
Read == [epoch : 0 .. MaxEpoch, hwnd : Hwnds, generation : 0 .. MaxGeneration,
         pid : Pids \cup {0}, live : BOOLEAN]
TypeOK ==
    /\ epoch \in 0 .. MaxEpoch
    /\ hwnd \in Hwnds
    /\ generation \in 0 .. MaxGeneration
    /\ owner \in [required : BOOLEAN, pid : Pids \cup {0}, generation : 0 .. MaxGeneration,
                  live : BOOLEAN, failure : Failure \cup {"none"}]
    /\ writer \in Controllers \cup {Nobody}
    /\ retained \in Stamp \cup {NoStamp}
    /\ guard \in Controllers \cup {Nobody}
    /\ th \in [Controllers -> Local]
    /\ worker.pc \in WorkerPc /\ worker.round \in 0 .. 3
    /\ worker.expected \in Stamp \cup {NoStamp} /\ worker.read \in Read
    /\ worker.pid \in Pids \cup {0}
    /\ got \in Stamp \cup {NoStamp}
    /\ published \in Stamp
    /\ invalid \subseteq Nat

Init ==
    /\ epoch = 0 /\ hwnd = 0 /\ generation = 0
    /\ owner = [required |-> FALSE, pid |-> 0, generation |-> 0, live |-> FALSE,
                failure |-> "none"]
    /\ writer = Nobody
    /\ retained = NoStamp /\ guard = Nobody
    /\ th = [c \in Controllers |-> Idle]
    /\ worker = [pc |-> "epoch", round |-> 0, expected |-> NoStamp, read |-> NotRead,
                 pid |-> 0, since |-> Unknown]
    /\ got = NoStamp
    /\ published = FirstStamp /\ binds = {} /\ invalid = {}

Odd(e) == e % 2 = 1
Goto(c, pc) == th' = [th EXCEPT ![c].pc = pc]
Return(c) == th' = [th EXCEPT ![c] = Idle]

----------------------------------------------------------------------------
(***************************************************************************)
(* publish_inner: set_target_hwnd, and republish_target_generation_for_    *)
(* revalidation with the generation forced.  Reads under the mutex of what *)
(* only its holders write are one step with taking it.                     *)
(***************************************************************************)

\* The epoch is in progress, or two steps on would reach the last value.
exhausted(e) == Odd(e) \/ e > MaxEpoch - 3

publish_begin(c, h, force) ==
    /\ th[c].pc = "idle"
    /\ writer = Nobody
    /\ force \/ hwnd # h
    /\ IF exhausted(epoch)
       THEN epoch' = MaxEpoch /\ UNCHANGED <<writer, th>>
       ELSE /\ epoch' = (epoch + 1) % (MaxEpoch + 1)
            /\ writer' = c
            /\ th' = [th EXCEPT ![c].pc = "failure", ![c].hwnd = h]
    /\ UNCHANGED <<hwnd, generation, owner, retained, guard, worker, got, history>>

publish_failure(c) ==
    /\ th[c].pc = "failure"
    /\ owner' = [owner EXCEPT !.failure = "none"]
    /\ Goto(c, "live")
    /\ UNCHANGED <<target, writer, retained, guard, worker, got, history>>

publish_live(c) ==
    /\ th[c].pc = "live"
    /\ owner' = [owner EXCEPT !.live = FALSE]
    /\ Goto(c, "hwnd")
    /\ UNCHANGED <<target, writer, retained, guard, worker, got, history>>

publish_hwnd(c) ==
    /\ th[c].pc = "hwnd"
    /\ hwnd' = th[c].hwnd
    /\ Goto(c, "generation")
    /\ UNCHANGED <<epoch, generation, owner, writer, retained, guard, worker, got, history>>

publish_generation(c) ==
    /\ th[c].pc = "generation"
    /\ generation' = generation + 1
    /\ Goto(c, "stable")
    /\ UNCHANGED <<epoch, hwnd, owner, writer, retained, guard, worker, got, history>>

publish_stable(c) ==
    /\ th[c].pc = "stable"
    /\ epoch' = (epoch + 1) % (MaxEpoch + 1)
    /\ published' = [hwnd |-> hwnd, generation |-> generation]
    /\ writer' = Nobody
    /\ Return(c)
    /\ UNCHANGED <<hwnd, generation, owner, retained, guard, worker, got, binds, invalid>>

----------------------------------------------------------------------------
(***************************************************************************)
(* A controller's load_stable is one step: a load that succeeds returns    *)
(* the publication of its last read (LoadIsAtomic below), and one that     *)
(* fails overlapped a moment at which the epoch was odd.                   *)
(***************************************************************************)
Stable == ~Odd(epoch)

\* bind_window_identity_authority_with_pid: the target must show the
\* authority's window.
bind_load(c, pid) ==
    /\ th[c].pc = "idle"
    /\ Stable
    /\ hwnd \in Windows
    /\ th' = [th EXCEPT ![c] = [Idle EXCEPT !.pc = "bind", !.hwnd = hwnd,
                                            !.generation = generation, !.pid = pid]]
    /\ UNCHANGED <<target, owner, writer, retained, guard, worker, got, history>>

\* With the mutex of the retained authority held, its continuity is checked.
bind_guard(c) ==
    /\ th[c].pc = "bind"
    /\ guard = Nobody
    /\ \/ Return(c) /\ UNCHANGED guard
       \/ Goto(c, "bind_check") /\ guard' = c
    /\ UNCHANGED <<target, owner, writer, retained, worker, got, history>>

\* A generation may be bound twice.
Fault_bindable(g) == TRUE

\* The current generation has no binding yet, dead or alive.
bindable(g) == ~(owner.pid # 0 /\ owner.generation = g)

\* bind_owner_identity takes the writer mutex and checks the generation.
bind_check(c) ==
    /\ th[c].pc = "bind_check"
    /\ writer = Nobody
    /\ IF /\ Stable /\ hwnd = th[c].hwnd /\ generation = th[c].generation
          /\ bindable(th[c].generation)
       THEN writer' = c /\ Goto(c, "bind_required") /\ UNCHANGED guard
       ELSE guard' = Nobody /\ Return(c) /\ UNCHANGED writer
    /\ UNCHANGED <<target, owner, retained, worker, got, history>>

bind_required(c) ==
    /\ th[c].pc = "bind_required"
    /\ owner' = [owner EXCEPT !.required = TRUE]
    /\ Goto(c, "bind_failure")
    /\ UNCHANGED <<target, writer, retained, guard, worker, got, history>>

bind_failure(c) ==
    /\ th[c].pc = "bind_failure"
    /\ owner' = [owner EXCEPT !.failure = "none"]
    /\ Goto(c, "bind_dead")
    /\ UNCHANGED <<target, writer, retained, guard, worker, got, history>>

bind_dead(c) ==
    /\ th[c].pc = "bind_dead"
    /\ owner' = [owner EXCEPT !.live = FALSE]
    /\ Goto(c, "bind_pid")
    /\ UNCHANGED <<target, writer, retained, guard, worker, got, history>>

bind_pid(c) ==
    /\ th[c].pc = "bind_pid"
    /\ owner' = [owner EXCEPT !.pid = th[c].pid]
    /\ Goto(c, "bind_generation")
    /\ UNCHANGED <<target, writer, retained, guard, worker, got, history>>

bind_generation(c) ==
    /\ th[c].pc = "bind_generation"
    /\ owner' = [owner EXCEPT !.generation = th[c].generation]
    /\ Goto(c, "bind_live")
    /\ UNCHANGED <<target, writer, retained, guard, worker, got, history>>

bind_live(c) ==
    /\ th[c].pc = "bind_live"
    /\ owner' = [owner EXCEPT !.live = TRUE]
    /\ binds' = binds \cup {[generation |-> th[c].generation, pid |-> th[c].pid]}
    /\ writer' = Nobody
    /\ Goto(c, "retain")
    /\ UNCHANGED <<target, retained, guard, worker, got, published, invalid>>

bind_retain(c) ==
    /\ th[c].pc = "retain"
    /\ retained' = [hwnd |-> th[c].hwnd, generation |-> th[c].generation]
    /\ guard' = Nobody
    /\ Return(c)
    /\ UNCHANGED <<target, owner, writer, worker, got, history>>

----------------------------------------------------------------------------
(***************************************************************************)
(* poll_window_identity_authority holds the mutex of the retained          *)
(* authority to its end; close_window_identity_authority only to take it.  *)
(***************************************************************************)

\* Without a stable target the owner is invalidated; on another target the
\* poll only reports it.
poll_begin(c) ==
    /\ th[c].pc = "idle"
    /\ guard = Nobody
    /\ retained # NoStamp
    /\ \/ /\ ~Stable
          /\ guard' = c
          /\ th' = [th EXCEPT ![c] = [Idle EXCEPT !.pc = "invalidate",
                        !.generation = retained.generation, !.failure = "ProcessTerminated"]]
       \/ /\ Stable
          /\ [hwnd |-> hwnd, generation |-> generation] = retained
          /\ guard' = c
          /\ th' = [th EXCEPT ![c] = [Idle EXCEPT !.pc = "poll",
                        !.generation = retained.generation]]
    /\ UNCHANGED <<target, owner, writer, retained, worker, got, history>>

poll_continuity(c) ==
    /\ th[c].pc = "poll"
    /\ \/ Return(c) /\ guard' = Nobody
       \/ \E f \in Failure : th' = [th EXCEPT ![c].pc = "invalidate", ![c].failure = f]
            /\ UNCHANGED guard
    /\ UNCHANGED <<target, owner, writer, retained, worker, got, history>>

\* The caller has joined the other threads of the session (session.rs:1124),
\* so nothing comes between the steps of close_window_identity_authority.
Quiescent == /\ \A c \in Controllers : th[c].pc = "idle"
             /\ worker.pc = "epoch" /\ worker.round = 0

close_window_identity_authority ==
    /\ Quiescent
    /\ retained # NoStamp
    /\ retained' = NoStamp
    /\ owner' = [owner EXCEPT !.failure = "ProcessTerminated", !.live = FALSE]
    /\ invalid' = invalid \cup {retained.generation}
    /\ UNCHANGED <<target, writer, guard, th, worker, got, published, binds>>

invalidate_failure(c) ==
    /\ th[c].pc = "invalidate"
    /\ owner' = [owner EXCEPT !.failure = th[c].failure]
    /\ Goto(c, "invalidate_live")
    /\ UNCHANGED <<target, writer, retained, guard, worker, got, history>>

invalidate_live(c) ==
    /\ th[c].pc = "invalidate_live"
    /\ owner' = [owner EXCEPT !.live = FALSE]
    /\ invalid' = invalid \cup {th[c].generation}
    /\ guard' = Nobody
    /\ Return(c)
    /\ UNCHANGED <<target, writer, retained, worker, got, published, binds>>

----------------------------------------------------------------------------
(***************************************************************************)
(* The worker.  Round 0 loads the stamp a Down is planned for; rounds 1    *)
(* to 3 check it (final_down_target_admission, its final revalidation, and *)
(* the revalidation of final_down_post_modifier_verdict): the target is    *)
(* still the expected one, then the owner of its generation is bound.      *)
(* Focus, modifier keys and control, which can only reject, are a choice.  *)
(***************************************************************************)
Plan == [pc |-> "epoch", round |-> 0, expected |-> NoStamp, read |-> NotRead,
         pid |-> 0, since |-> Unknown]

\* load_stable_inner: two reads of the epoch around the two payload reads.
read_epoch ==
    /\ worker.pc = "epoch"
    /\ IF Odd(epoch)
       THEN worker' = Plan /\ got' = NoStamp
       ELSE /\ worker' = [worker EXCEPT
                !.pc = "hwnd", !.read = [NotRead EXCEPT !.epoch = epoch],
                !.since = IF worker.round = 3
                          THEN [stamp |-> published, invalid |-> invalid,
                                poisoned |-> epoch = MaxEpoch]
                          ELSE Unknown]
            /\ UNCHANGED got
    /\ UNCHANGED <<target, owner, writer, retained, guard, th, history>>

read_hwnd ==
    /\ worker.pc = "hwnd"
    /\ worker' = [worker EXCEPT !.pc = "generation", !.read.hwnd = hwnd]
    /\ UNCHANGED <<target, owner, writer, retained, guard, th, got, history>>

read_generation ==
    /\ worker.pc = "generation"
    /\ worker' = [worker EXCEPT !.pc = "final_epoch", !.read.generation = generation]
    /\ UNCHANGED <<target, owner, writer, retained, guard, th, got, history>>

\* Only asks whether a publication is in progress now.
Fault_coherent == ~Odd(epoch)

\* The epoch is the even one the load began with.
coherent == worker.read.epoch = epoch /\ ~Odd(epoch)

\* In round 0 the stamp becomes the expected one; later it is compared.
read_final_epoch ==
    LET stamp == [hwnd |-> worker.read.hwnd, generation |-> worker.read.generation] IN
    /\ worker.pc = "final_epoch"
    /\ got' = IF coherent THEN stamp ELSE NoStamp
    /\ worker' =
        IF ~coherent \/ (worker.round > 0 /\ stamp # worker.expected) \/ stamp.hwnd = 0
        THEN Plan
        ELSE IF worker.round = 0
             THEN [Plan EXCEPT !.round = 1, !.expected = stamp]
             ELSE [worker EXCEPT !.pc = "required", !.read = NotRead]
    /\ UNCHANGED <<target, owner, writer, retained, guard, th, history>>

Rejects == worker' = Plan

\* owner_identity_status.  NotRequired is no identity for a Down.
status_required ==
    /\ worker.pc = "required"
    /\ \/ Rejects
       \/ owner.required /\ worker' = [worker EXCEPT !.pc = "first"]
    /\ UNCHANGED <<target, owner, writer, retained, guard, th, got, history>>

status_first_generation ==
    /\ worker.pc = "first"
    /\ worker' = [worker EXCEPT !.pc = "pid", !.read.generation = owner.generation]
    /\ UNCHANGED <<target, owner, writer, retained, guard, th, got, history>>

status_pid ==
    /\ worker.pc = "pid"
    /\ worker' = [worker EXCEPT !.pc = "live", !.read.pid = owner.pid]
    /\ UNCHANGED <<target, owner, writer, retained, guard, th, got, history>>

status_live ==
    /\ worker.pc = "live"
    /\ worker' = [worker EXCEPT !.pc = "final", !.read.live = owner.live]
    /\ UNCHANGED <<target, owner, writer, retained, guard, th, got, history>>

\* Does not ask whether the identity is alive.
Fault_Bound == /\ worker.read.generation = owner.generation
               /\ worker.read.pid # 0
               /\ worker.read.generation = worker.expected.generation

\* Bound(pid): one generation before and after, the expected one, alive.
Bound == /\ worker.read.generation = owner.generation
         /\ worker.read.pid # 0
         /\ worker.read.generation = worker.expected.generation
         /\ worker.read.live

status_final_generation ==
    /\ worker.pc = "final"
    /\ \/ Rejects
       \/ /\ Bound
          /\ worker' = IF worker.round = 3
                       THEN [worker EXCEPT !.pc = "send", !.pid = worker.read.pid, !.read = NotRead]
                       ELSE [worker EXCEPT !.pc = "epoch", !.round = worker.round + 1,
                                           !.read = NotRead]
    /\ UNCHANGED <<target, owner, writer, retained, guard, th, got, history>>

send_down ==
    /\ worker.pc = "send"
    /\ worker' = Plan
    /\ UNCHANGED <<target, owner, writer, retained, guard, th, got, history>>

Publisher(c) ==
    \/ \E h \in Hwnds, force \in BOOLEAN : publish_begin(c, h, force)
    \/ publish_failure(c) \/ publish_live(c) \/ publish_hwnd(c)
    \/ publish_generation(c) \/ publish_stable(c)

Binder(c) ==
    \/ \E pid \in Pids : bind_load(c, pid)
    \/ bind_guard(c) \/ bind_check(c) \/ bind_required(c) \/ bind_failure(c)
    \/ bind_dead(c) \/ bind_pid(c) \/ bind_generation(c) \/ bind_live(c) \/ bind_retain(c)

Invalidator(c) ==
    \/ poll_begin(c) \/ poll_continuity(c)
    \/ invalidate_failure(c) \/ invalidate_live(c)

Reader ==
    \/ read_epoch \/ read_hwnd \/ read_generation \/ read_final_epoch
    \/ status_required \/ status_first_generation \/ status_pid \/ status_live
    \/ status_final_generation \/ send_down

Next == Reader \/ close_window_identity_authority
        \/ \E c \in Controllers : Publisher(c) \/ Binder(c) \/ Invalidator(c)

Spec == Init /\ [][Next]_vars

----------------------------------------------------------------------------
(***************************************************************************)
(* Properties.                                                             *)
(***************************************************************************)

\* A load_stable of the worker that succeeds returns the window and the
\* generation of one publication, the last one, however many publications
\* ran during it and although the epoch is a counter of finite width: the
\* sequence lock of target.rs implements an atomic register.
Register == INSTANCE AtomicRegister
                WITH Values <- Stamp, Initial <- FirstStamp, NoValue <- NoStamp,
                     cur <- published, got <- got
LoadIsAtomic == Register!Spec

\* An identity that a poll or the close of the session has invalidated is
\* never alive again, and the live identity is the only one ever bound to its
\* generation: invalidate_owner_identity_with stores without the writer mutex
\* that bind_owner_identity holds, and must not be undone by its last store.
LiveIdentityIsValid ==
    /\ owner.live => /\ owner.generation \notin invalid
                     /\ [generation |-> owner.generation, pid |-> owner.pid] \in binds
    /\ \A a, b \in binds : a.generation = b.generation => a.pid = b.pid

\* A Down that passed the gate goes to the window that was published when the
\* last revalidation began, through the process bound to that very generation,
\* not invalidated by then, and never after the epoch was poisoned.
AuthorityAtSend ==
    worker.pc = "send" =>
        /\ worker.expected = worker.since.stamp
        /\ [generation |-> worker.expected.generation, pid |-> worker.pid] \in binds
        /\ worker.expected.generation \notin worker.since.invalid
        /\ ~worker.since.poisoned
=============================================================================
