------------------------ MODULE PlaybackClockProofs ------------------------
(***************************************************************************)
(* The playback clock on both sides: no key is carried over a pause of the *)
(* worker's clock, and the anchor that readers project the position from   *)
(* is one publication, for any grace period, any length of time, any       *)
(* number of targets and publications and any set of ticks.                *)
(***************************************************************************)
EXTENDS PauseResume, ProgressClock, TLAPS

(***************************************************************************)
(* PauseResume.  A key that is carried is owed to somebody at every place  *)
(* of the iteration (CarriedOK).  The focus pause owes it until its        *)
(* restoration; a manual pause on top of it owes it by the pending         *)
(* suspension; and a restoration that leaves the keys alone, because a     *)
(* manual pause was asked for in the same iteration, owes it to the manual *)
(* pause that this iteration then enters.                                  *)
(***************************************************************************)
USE GraceAssumption, BoundsAssumption

\* The pause owes the release.
Owed == Paused /\ ("Manual" \in clock.reasons => pending)
CarriedOK ==
    carried =>
      /\ worker.pc \in {"top", "focus", "decide"} => Owed
      /\ worker.pc = "focus_exit"
           => Paused /\ worker.pause /\ "Manual" \notin clock.reasons
      /\ worker.pc = "manual" => /\ Paused \/ worker.pause
                                 /\ "Manual" \in clock.reasons => pending
      /\ worker.pc \notin {"manual_exit", "dispatch"}

\* Playback does not dispatch during a pause.
DispatchOK == worker.pc = "dispatch" => ~Paused
Inv == TypeOK /\ CarriedOK /\ DispatchOK

\* What the clock makes of its two operations.
ClockType == [reasons : SUBSET Reason, started : 0 .. MaxTicks \cup {None}, paused : Nat]

\* Entering a pause keeps the clock typed and adds the reason.
LEMMA EnterPause ==
  ASSUME ClockOK, NEW r \in Reason, NEW at \in 0 .. MaxTicks, enter_pause(r, at)
  PROVE  ClockOK' /\ clock'.reasons = clock.reasons \cup {r}
<1>1. clock \in ClockType /\ (clock.started = None <=> clock.reasons = {})
  BY DEF ClockOK, ClockType, Paused
<1>2. CASE r \in clock.reasons
  BY <1>1, <1>2 DEF enter_pause, ClockOK, Paused
<1>3. CASE r \notin clock.reasons
  <2> DEFINE st == IF Paused THEN clock.started ELSE at
  <2>1. clock' = [clock EXCEPT !.reasons = clock.reasons \cup {r}, !.started = st]
    BY <1>3 DEF enter_pause
  <2>2. st \in 0 .. MaxTicks
    BY <1>1 DEF Paused, ClockType, None
  <2> HIDE DEF st
  <2>3. /\ clock' \in ClockType /\ clock'.reasons = clock.reasons \cup {r}
        /\ clock'.started = st
    BY <1>1, <2>1, <2>2 DEF ClockType
  <2>4. st # None
    BY <2>2 DEF None
  <2> QED BY <2>3, <2>4 DEF ClockOK, ClockType, Paused
<1> QED BY <1>2, <1>3

\* Leaving one that does not fail removes it.
LEMMA ExitPause ==
  ASSUME ClockOK, NEW r \in Reason, NEW at \in 0 .. MaxTicks, ~exit_fails(r, at),
         exit_pause(r, at)
  PROVE  ClockOK' /\ clock'.reasons = clock.reasons \ {r}
<1>1. clock \in ClockType /\ (clock.started = None <=> clock.reasons = {})
  BY DEF ClockOK, ClockType, Paused
<1>2. CASE closes(r)
  <2>1. clock.started \in 0 .. MaxTicks /\ clock.paused \in Nat /\ at >= clock.started
    BY <1>1, <1>2 DEF closes, exit_fails, ClockType, None
  <2>2. clock' = [reasons |-> {}, started |-> None, paused |-> clock.paused + at - clock.started]
    BY <1>2 DEF exit_pause
  <2>3. clock.paused + at - clock.started \in Nat
    BY <2>1
  <2>4. clock' \in ClockType /\ clock'.reasons = {} /\ clock'.started = None
    BY <2>2, <2>3 DEF ClockType
  <2> QED BY <1>2, <2>4 DEF ClockOK, ClockType, Paused, closes
<1>3. CASE ~closes(r)
  <2>1. clock' = [clock EXCEPT !.reasons = clock.reasons \ {r}]
    BY <1>3 DEF exit_pause
  <2>2. /\ clock' \in ClockType /\ clock'.reasons = clock.reasons \ {r}
        /\ clock'.started = clock.started
    BY <1>1, <2>1 DEF ClockType
  <2>3. clock'.reasons = {} <=> clock.reasons = {}
    BY <1>3, <2>2 DEF closes
  <2> QED BY <1>1, <2>2, <2>3 DEF ClockOK, ClockType, Paused
<1> QED BY <1>2, <1>3

\* The initial state.
LEMMA InitInv == Init => Inv
<1> SUFFICES ASSUME Init PROVE Inv
  OBVIOUS
<1>1. InputsOK
  <2>1. 0 \in 0 .. MaxTicks /\ 0 \in 0 .. MaxRetargets
    OBVIOUS
  <2> QED BY <2>1, Zenon DEF Init, InputsOK
<1>5. FlagsOK
  BY Zenon DEF Init, FlagsOK
<1>2. ClockOK
  BY DEF Init, ClockOK, Paused, Reason
<1>3. WorkerOK
  BY DEF Init, WorkerOK, NoSamples
<1>4. CarriedOK /\ DispatchOK
  BY DEF Init, CarriedOK, DispatchOK, NoSamples
<1> QED BY <1>1, <1>2, <1>3, <1>4, <1>5 DEF Inv, TypeOK

----------------------------------------------------------------------------
\* Where the worker may go.
Pcs == {"top", "focus", "focus_exit", "manual", "manual_exit", "decide", "dispatch", "done"}

\* It goes on within the iteration.
LEMMA GotoEffect ==
  ASSUME WorkerOK, NEW pc \in Pcs, Goto(pc)
  PROVE  /\ WorkerOK' /\ worker'.pc = pc /\ worker'.pause = worker.pause
BY DEF WorkerOK, Goto, Pcs

\* It starts over or ends.
LEMMA EndEffect ==
  ASSUME Again \/ Terminate
  PROVE  WorkerOK' /\ (Again => worker'.pc = "top") /\ (Terminate => worker'.pc = "done")
<1> DEFINE Type == [pc : Pcs, now : 0 .. MaxTicks, focus : BOOLEAN, pause : BOOLEAN,
                    target : 0 .. MaxRetargets]
<1>1. NoSamples \in Type /\ NoSamples.pc = "top"
  BY DEF NoSamples, Pcs
<1>2. \A w \in Type : [w EXCEPT !.pc = "done"] \in Type /\ [w EXCEPT !.pc = "done"].pc = "done"
  BY DEF Pcs
<1>3. /\ worker' \in Type /\ (Again => worker'.pc = "top")
      /\ (Terminate => worker'.pc = "done")
  <2> HIDE DEF Type
  <2> QED BY <1>1, <1>2 DEF Again, Terminate
<1> QED BY <1>3 DEF WorkerOK, Pcs

\* It goes to check the target.
LEMMA TargetEffect ==
  ASSUME WorkerOK, InputsOK, NEW pc \in Pcs,
         worker' = [worker EXCEPT !.pc = pc, !.target = generation]
  PROVE  WorkerOK' /\ worker'.pc = pc /\ worker'.pause = worker.pause
BY DEF WorkerOK, InputsOK, Pcs

\* A step that leaves the surroundings and the clock alone.
LEMMA StillClock ==
  ASSUME TypeOK, UNCHANGED <<now, inputs>>
  PROVE  InputsOK' /\ (UNCHANGED clock => ClockOK')
BY DEF TypeOK, InputsOK, ClockOK, Paused, inputs

\* The samples, and the part of the iteration about the focus.
LEMMA FocusSteps ==
  ASSUME Inv, sample \/ focus_lost \/ focus_kept \/ focus_grace \/ focus_restore \/ focus_exit
  PROVE  Inv'
<1> USE DEF Inv, TypeOK
<1>0. UNCHANGED <<now, inputs, committed>>
  BY DEF sample, focus_lost, focus_kept, focus_grace, focus_restore, focus_exit
<1>i. InputsOK' /\ (UNCHANGED clock => ClockOK')
  BY <1>0, StillClock
<1>w. /\ worker.now \in 0 .. MaxTicks /\ worker.pause \in BOOLEAN /\ now \in 0 .. MaxTicks
      /\ clock.reasons \subseteq Reason
  BY DEF WorkerOK, InputsOK, ClockOK
<1>r. restored_at \in 0 .. MaxTicks
  BY <1>w DEF restored_at, FlagsOK
<1>1. CASE sample
  <2>1. worker.pc = "top" /\ UNCHANGED <<clock, keys, pending, restore_started>>
    BY <1>1 DEF sample
  <2>2. CASE Terminate
    <3>1. WorkerOK' /\ worker'.pc = "done"
      BY <2>2, EndEffect
    <3> QED BY <1>0, <1>i, <2>1, <3>1 DEF FlagsOK, CarriedOK, DispatchOK, keys
  <2>3. CASE worker' = [pc |-> "focus", now |-> now, focus |-> focus_active,
                        pause |-> desired_pause, target |-> 0]
    <3>1. WorkerOK' /\ worker'.pc = "focus"
      BY <1>w, <2>3 DEF WorkerOK, InputsOK
    <3>2. FlagsOK'
      BY <1>0, <2>1 DEF FlagsOK, keys
    <3>3. CarriedOK' /\ DispatchOK'
      BY <2>1, <3>1 DEF CarriedOK, Owed, DispatchOK, Paused, keys
    <3> QED BY <1>i, <2>1, <3>1, <3>2, <3>3
  <2> QED BY <1>1, <2>2, <2>3 DEF sample
<1>2. CASE focus_lost
  <2>1. /\ worker.pc = "focus" /\ enter_pause("Focus", worker.now) /\ Opens
        /\ UNCHANGED <<held, guard_valid, pending>> /\ restore_started' = None
    BY <1>2 DEF focus_lost
  <2>2. WorkerOK' /\ worker'.pc = "manual" /\ worker'.pause = worker.pause
    BY <1>2, GotoEffect DEF focus_lost, Pcs
  <2>3. ClockOK' /\ clock'.reasons = clock.reasons \cup {"Focus"}
    BY <1>w, <2>1, EnterPause DEF Reason
  <2>4. FlagsOK'
    BY <1>0, <2>1, Zenon DEF FlagsOK, Opens
  <2>5. CarriedOK' /\ DispatchOK'
    <3>1. carried' => carried \/ clock.reasons = {}
      BY <2>1 DEF Opens, Paused
    <3> QED BY <2>1, <2>2, <2>3, <3>1 DEF CarriedOK, Owed, DispatchOK, Paused
  <2> QED BY <1>i, <2>2, <2>3, <2>4, <2>5
<1>3. CASE focus_kept \/ focus_grace
  <2>1. /\ worker.pc = "focus" /\ Goto("manual") /\ UNCHANGED <<clock, keys, pending>>
        /\ restore_started' \in {restore_started, restored_at}
    BY <1>3 DEF focus_kept, focus_grace
  <2>2. WorkerOK' /\ worker'.pc = "manual" /\ worker'.pause = worker.pause
    BY <2>1, GotoEffect DEF Pcs
  <2>3. FlagsOK'
    BY <1>0, <1>r, <2>1, Zenon DEF FlagsOK, keys
  <2>4. CarriedOK' /\ DispatchOK'
    BY <2>1, <2>2 DEF CarriedOK, Owed, DispatchOK, Paused, keys
  <2> QED BY <1>i, <2>1, <2>2, <2>3, <2>4
<1>4. CASE focus_restore
  <2>1. worker.pc = "focus" /\ UNCHANGED clock
    BY <1>4 DEF focus_restore
  <2>2. CASE /\ restore_started' = None /\ Again /\ guard_valid' = FALSE
             /\ UNCHANGED <<held, carried, pending>>
    <3>1. WorkerOK' /\ worker'.pc = "top"
      BY <2>2, EndEffect
    <3>2. FlagsOK'
      BY <1>0, <2>2, Zenon DEF FlagsOK
    <3>3. CarriedOK' /\ DispatchOK'
      BY <2>1, <2>2, <3>1 DEF CarriedOK, Owed, DispatchOK, Paused
    <3> QED BY <1>i, <2>1, <3>1, <3>2, <3>3
  <2>3. CASE /\ restore_started' = restored_at
             /\ worker' = [worker EXCEPT !.pc = "focus_exit", !.target = generation]
             /\ IF must_suspend THEN suspend_live_input /\ pending' = FALSE
                ELSE UNCHANGED <<keys, pending>>
    <3>1. WorkerOK' /\ worker'.pc = "focus_exit" /\ worker'.pause = worker.pause
      BY <2>3, TargetEffect DEF Pcs
    <3>2. FlagsOK'
      BY <1>0, <1>r, <2>3, Zenon DEF FlagsOK, suspend_live_input, keys
    <3>3. CarriedOK' /\ DispatchOK'
      <4>1. CASE must_suspend
        BY <2>3, <3>1, <4>1 DEF CarriedOK, DispatchOK, suspend_live_input
      <4>2. CASE ~must_suspend
        <5>1. carried' = carried /\ ~pending /\ (worker.pause \/ "Manual" \in clock.reasons)
          BY <2>3, <4>2 DEF must_suspend, keys
        <5> QED BY <2>1, <3>1, <5>1 DEF CarriedOK, Owed, DispatchOK, Paused
      <4> QED BY <4>1, <4>2
    <3> QED BY <1>i, <2>1, <3>1, <3>2, <3>3
  <2>4. CASE Terminate /\ UNCHANGED <<keys, pending, restore_started>>
    <3>1. WorkerOK' /\ worker'.pc = "done"
      BY <2>4, EndEffect
    <3> QED BY <1>0, <1>i, <2>1, <2>4, <3>1 DEF FlagsOK, CarriedOK, DispatchOK, keys
  <2> QED BY <1>4, <2>2, <2>3, <2>4 DEF focus_restore
<1>5. CASE focus_exit
  <2>1. worker.pc = "focus_exit" /\ restore_started' = None /\ UNCHANGED <<keys, pending>>
    BY <1>5 DEF focus_exit
  <2>2. FlagsOK'
    BY <1>0, <2>1, Zenon DEF FlagsOK, keys
  <2>3. CASE Terminate /\ UNCHANGED clock
    <3>1. WorkerOK' /\ worker'.pc = "done"
      BY <2>3, EndEffect
    <3> QED BY <1>i, <2>2, <2>3, <3>1 DEF CarriedOK, DispatchOK
  <2>4. CASE Again /\ UNCHANGED clock
    <3>1. WorkerOK' /\ worker'.pc = "top"
      BY <2>4, EndEffect
    <3>2. CarriedOK' /\ DispatchOK'
      BY <2>1, <2>4, <3>1 DEF CarriedOK, Owed, DispatchOK, Paused, keys
    <3> QED BY <1>i, <2>2, <2>4, <3>1, <3>2
  <2>5. CASE ~exit_fails("Focus", now) /\ exit_pause("Focus", now) /\ Goto("manual")
    <3>1. WorkerOK' /\ worker'.pc = "manual" /\ worker'.pause = worker.pause
      BY <2>5, GotoEffect DEF Pcs
    <3>2. ClockOK' /\ clock'.reasons = clock.reasons \ {"Focus"}
      BY <1>w, <2>5, ExitPause DEF Reason
    <3>3. CarriedOK' /\ DispatchOK'
      BY <2>1, <3>1, <3>2 DEF CarriedOK, DispatchOK, keys
    <3> QED BY <1>i, <2>2, <3>1, <3>2, <3>3
  <2> QED BY <1>5, <2>3, <2>4, <2>5 DEF focus_exit
<1> QED BY <1>1, <1>2, <1>3, <1>4, <1>5

\* The part about the manual pause, and the decision.
LEMMA ManualSteps ==
  ASSUME Inv, manual_pause \/ manual_pause_fails \/ manual_unchanged \/ manual_resume
                \/ manual_exit \/ wait_paused \/ dispatch
  PROVE  Inv'
<1> USE DEF Inv, TypeOK
<1>0. UNCHANGED <<now, inputs, committed, restore_started>>
  BY DEF manual_pause, manual_pause_fails, manual_unchanged, manual_resume, manual_exit,
         wait_paused, dispatch
<1>i. InputsOK' /\ (UNCHANGED clock => ClockOK')
  BY <1>0, StillClock
<1>w. /\ worker.now \in 0 .. MaxTicks /\ worker.pause \in BOOLEAN /\ now \in 0 .. MaxTicks
      /\ clock.reasons \subseteq Reason
  BY DEF WorkerOK, InputsOK, ClockOK
<1>1. CASE manual_pause
  <2>1. /\ worker.pc = "manual" /\ enter_pause("Manual", worker.now) /\ Goto("decide")
        /\ \/ Paused /\ pending' = TRUE /\ UNCHANGED keys
           \/ ~Paused /\ suspend_live_input /\ pending' = FALSE
    BY <1>1 DEF manual_pause
  <2>2. WorkerOK' /\ worker'.pc = "decide"
    BY <2>1, GotoEffect DEF Pcs
  <2>3. ClockOK' /\ clock'.reasons = clock.reasons \cup {"Manual"}
    BY <1>w, <2>1, EnterPause DEF Reason
  <2>4. FlagsOK'
    BY <1>0, <2>1, Zenon DEF FlagsOK, suspend_live_input, keys
  <2>5. CarriedOK' /\ DispatchOK'
    BY <2>1, <2>2, <2>3 DEF CarriedOK, Owed, DispatchOK, Paused, suspend_live_input, keys
  <2> QED BY <1>i, <2>2, <2>3, <2>4, <2>5
<1>2. CASE manual_pause_fails
  <2>1. WorkerOK' /\ worker'.pc = "done"
    BY <1>2, EndEffect DEF manual_pause_fails
  <2>2. FlagsOK' /\ UNCHANGED clock
    BY <1>0, <1>2 DEF manual_pause_fails, FlagsOK, keys
  <2> QED BY <1>i, <2>1, <2>2 DEF CarriedOK, DispatchOK
<1>3. CASE manual_unchanged
  <2>1. /\ worker.pc = "manual" /\ Goto("decide") /\ UNCHANGED <<clock, keys, pending>>
        /\ ~Paused => ~worker.pause
    BY <1>3, <1>w DEF manual_unchanged, Paused, Reason
  <2>2. WorkerOK' /\ worker'.pc = "decide"
    BY <2>1, GotoEffect DEF Pcs
  <2>3. FlagsOK'
    BY <1>0, <2>1 DEF FlagsOK, keys
  <2>4. CarriedOK' /\ DispatchOK'
    BY <2>1, <2>2 DEF CarriedOK, Owed, DispatchOK, Paused, keys
  <2> QED BY <1>i, <2>1, <2>2, <2>3, <2>4
<1>4. CASE manual_resume
  <2>1. /\ worker.pc = "manual" /\ clock.reasons = {"Manual"} /\ UNCHANGED clock
        /\ IF pending THEN suspend_live_input /\ pending' = FALSE ELSE UNCHANGED <<keys, pending>>
    BY <1>4 DEF manual_resume
  <2>2. WorkerOK' /\ worker'.pc \in {"done", "manual_exit"}
    <3>1. CASE Terminate
      BY <3>1, EndEffect
    <3>2. CASE worker' = [worker EXCEPT !.pc = "manual_exit", !.target = generation]
      BY <3>2, TargetEffect DEF Pcs
    <3> QED BY <1>4, <3>1, <3>2 DEF manual_resume
  <2>3. FlagsOK'
    BY <1>0, <2>1, Zenon DEF FlagsOK, suspend_live_input, keys
  <2>4. carried' => FALSE
    BY <2>1 DEF CarriedOK, suspend_live_input, keys
  <2> QED BY <1>i, <2>1, <2>2, <2>3, <2>4 DEF CarriedOK, DispatchOK
<1>5. CASE manual_exit
  <2>1. worker.pc = "manual_exit" /\ UNCHANGED <<keys, pending>>
    BY <1>5 DEF manual_exit
  <2>2. FlagsOK' /\ ~carried'
    BY <1>0, <2>1 DEF FlagsOK, CarriedOK, keys
  <2>3. CASE (Terminate \/ Again) /\ UNCHANGED clock
    <3>1. WorkerOK' /\ worker'.pc \in {"done", "top"}
      BY <2>3, EndEffect
    <3> QED BY <1>i, <2>2, <2>3, <3>1 DEF CarriedOK, DispatchOK
  <2>4. CASE ~exit_fails("Manual", now) /\ exit_pause("Manual", now) /\ Goto("decide")
    <3>1. WorkerOK' /\ worker'.pc = "decide"
      BY <2>4, GotoEffect DEF Pcs
    <3>2. ClockOK'
      BY <1>w, <2>4, ExitPause DEF Reason
    <3> QED BY <1>i, <2>2, <3>1, <3>2 DEF CarriedOK, DispatchOK
  <2> QED BY <1>5, <2>3, <2>4 DEF manual_exit
<1>6. CASE wait_paused
  <2>1. WorkerOK' /\ worker'.pc = "top"
    BY <1>6, EndEffect DEF wait_paused
  <2>2. FlagsOK'
    BY <1>0, <1>6 DEF wait_paused, FlagsOK, keys
  <2>3. CarriedOK' /\ DispatchOK'
    BY <1>6, <2>1 DEF wait_paused, CarriedOK, Owed, DispatchOK, Paused, keys
  <2> QED BY <1>6, <1>i, <2>1, <2>2, <2>3 DEF wait_paused
<1>7. CASE dispatch
  <2>1. WorkerOK' /\ worker'.pc = "dispatch"
    BY <1>7, GotoEffect DEF dispatch, Pcs
  <2>2. FlagsOK'
    BY <1>0, <1>7 DEF dispatch, FlagsOK, keys
  <2>3. CarriedOK' /\ DispatchOK'
    BY <1>7, <2>1 DEF dispatch, CarriedOK, Owed, DispatchOK, Paused, keys
  <2> QED BY <1>7, <1>i, <2>1, <2>2, <2>3 DEF dispatch
<1> QED BY <1>1, <1>2, <1>3, <1>4, <1>5, <1>6, <1>7

\* Dispatching.  Nothing is carried there, and the pause that the gate opens
\* is about the focus alone.
LEMMA DispatchSteps ==
  ASSUME Inv, send_up \/ send_down \/ no_work \/ guard_refuses \/ handle_final_focus_loss
  PROVE  Inv'
<1> USE DEF Inv, TypeOK
<1>0. UNCHANGED <<now, inputs, pending, guard_valid>> /\ worker.pc = "dispatch"
  BY DEF send_up, send_down, no_work, guard_refuses, handle_final_focus_loss, keys
<1>i. InputsOK' /\ (UNCHANGED clock => ClockOK')
  BY <1>0, StillClock
<1>c. ~carried /\ clock.reasons = {} /\ now \in 0 .. MaxTicks
  BY <1>0 DEF CarriedOK, DispatchOK, Paused, InputsOK
<1>1. CASE send_up \/ send_down \/ no_work \/ guard_refuses
  <2>1. UNCHANGED clock /\ ~carried'
    BY <1>1, <1>c DEF send_up, send_down, no_work, guard_refuses, keys
  <2>2. WorkerOK' /\ worker'.pc \in {"top", "done"}
    BY <1>1, EndEffect DEF send_up, send_down, no_work, guard_refuses
  <2>3. FlagsOK'
    BY <1>0, <1>1, Zenon DEF send_up, send_down, no_work, guard_refuses, FlagsOK, keys
  <2> QED BY <1>i, <2>1, <2>2, <2>3 DEF CarriedOK, DispatchOK
<1>2. CASE handle_final_focus_loss
  <2>1. FlagsOK'
    BY <1>0, <1>2, Zenon DEF handle_final_focus_loss, FlagsOK, Opens
  <2>2. CASE committed
    <3>1. enter_pause("Focus", now) /\ Again
      BY <1>2, <2>2 DEF handle_final_focus_loss
    <3>2. ClockOK' /\ clock'.reasons = {"Focus"}
      BY <1>c, <3>1, EnterPause DEF Reason
    <3>3. WorkerOK' /\ worker'.pc = "top"
      BY <3>1, EndEffect
    <3>4. CarriedOK' /\ DispatchOK'
      BY <3>2, <3>3 DEF CarriedOK, Owed, DispatchOK, Paused
    <3> QED BY <1>i, <2>1, <3>2, <3>3, <3>4
  <2>3. CASE ~committed
    <3>1. Terminate /\ UNCHANGED clock
      BY <1>2, <2>3 DEF handle_final_focus_loss
    <3>2. WorkerOK' /\ worker'.pc = "done"
      BY <3>1, EndEffect
    <3> QED BY <1>i, <2>1, <3>1, <3>2 DEF CarriedOK, DispatchOK
  <2> QED BY <2>2, <2>3
<1> QED BY <1>1, <1>2

\* Time and the callers touch nothing that the iteration owes.
LEMMA OutsideSteps ==
  ASSUME Inv, Tick \/ pause \/ resume \/ set_focus_hint \/ set_target_hwnd \/ UNCHANGED vars
  PROVE  Inv'
<1>1. UNCHANGED <<clock, held, carried, guard_valid, pending, committed, restore_started, worker>>
  BY DEF Tick, pause, resume, set_focus_hint, set_target_hwnd, vars, keys
<1>2. ClockOK' /\ FlagsOK' /\ WorkerOK' /\ CarriedOK' /\ DispatchOK'
  BY <1>1 DEF Inv, TypeOK, ClockOK, FlagsOK, WorkerOK, CarriedOK, Owed, DispatchOK, Paused
<1>3. InputsOK
  BY DEF Inv, TypeOK
<1>4. CASE Tick
  BY <1>2, <1>3, <1>4 DEF Tick, inputs, InputsOK, Inv, TypeOK
<1>5. CASE set_target_hwnd
  BY <1>2, <1>3, <1>5 DEF set_target_hwnd, InputsOK, Inv, TypeOK
<1>6. CASE pause \/ resume \/ set_focus_hint \/ UNCHANGED vars
  <2>1. InputsOK'
    BY <1>3, <1>6, Zenon DEF pause, resume, set_focus_hint, vars, InputsOK
  <2> QED BY <1>2, <2>1 DEF Inv, TypeOK
<1> QED BY <1>4, <1>5, <1>6

\* The invariant.
LEMMA Invariant == Spec => []Inv
<1>1. Inv /\ [Next]_vars => Inv'
  BY FocusSteps, ManualSteps, DispatchSteps, OutsideSteps DEF Next, Worker
<1> QED BY InitInv, <1>1, PTL DEF Spec

\* The types of the pause section: an interval is open exactly while there is
\* a reason to pause, and the paused time never goes negative (clock.rs).
THEOREM TypeCorrect == Spec => []TypeOK
<1>1. Inv => TypeOK
  BY DEF Inv
<1> QED BY Invariant, <1>1, PTL

\* A key held when playback paused is released before it dispatches again,
\* in whatever order focus losses, manual pauses and resumes come
\* (dispatch_loop.rs, suspend_live_input).
THEOREM NoKeyCarriedOver == Spec => []NothingCarriedOver
<1>1. Inv => NothingCarriedOver
  BY DEF Inv, CarriedOK, NothingCarriedOver
<1> QED BY Invariant, <1>1, PTL

----------------------------------------------------------------------------
(***************************************************************************)
(* ProgressClock implements an atomic register.  Between publications the  *)
(* atomics hold the last published anchor (MemoryOK), because a            *)
(* publication has stored every field before the sequence is even again    *)
(* (StoresOK).  A reader never holds a sequence of the future, so a        *)
(* sequence that is still the one it read means that no store came in      *)
(* between, and what it has read is what is there (ReadsOK).               *)
(***************************************************************************)

\* What the fields of a publication hold after the store that follows each
\* program counter.
StoresOK ==
    /\ writer.pc # "idle" => writer.anchor \in Anchor
    /\ writer.pc \in {"pause", "pause_valid", "paused", "frozen", "valid", "close"}
         => epoch_qpc = writer.anchor.epoch
    /\ writer.pc \in {"pause_valid", "paused", "frozen", "valid", "close"}
         => pause_started_qpc = writer.anchor.pause
    /\ writer.pc \in {"paused", "frozen", "valid", "close"}
         => pause_started_valid = (writer.anchor.pause # 0)
    /\ writer.pc \in {"frozen", "valid", "close"} => paused = writer.anchor.paused
    /\ writer.pc \in {"valid", "close"} => frozen = writer.anchor.frozen
    /\ writer.pc = "close" => valid = TRUE

\* The anchor the atomics hold.
Memory == snapshot([valid |-> valid, epoch |-> epoch_qpc, pause |-> pause_started_qpc,
                    pause_valid |-> pause_started_valid, paused |-> paused, frozen |-> frozen])
MemoryOK == writer.pc = "idle" => published = Memory

\* What a reader has read while the sequence is the one it began with.
Fresh == reader.read.sequence = sequence /\ writer.pc = "idle"
ReadsOK ==
    /\ reader.read.sequence <= sequence
    /\ Fresh /\ reader.pc \in {"epoch", "pause", "pause_valid", "paused", "frozen", "after"}
         => reader.read.valid = valid
    /\ Fresh /\ reader.pc \in {"pause", "pause_valid", "paused", "frozen", "after"}
         => reader.read.epoch = epoch_qpc
    /\ Fresh /\ reader.pc \in {"pause_valid", "paused", "frozen", "after"}
         => reader.read.pause = pause_started_qpc
    /\ Fresh /\ reader.pc \in {"paused", "frozen", "after"}
         => reader.read.pause_valid = pause_started_valid
    /\ Fresh /\ reader.pc \in {"frozen", "after"} => reader.read.paused = paused
    /\ Fresh /\ reader.pc = "after" => reader.read.frozen = frozen

\* A publication that has begun leaves room for the number that ends it.
BoundOK == writer.pc # "idle" => sequence + 1 <= MaxSequence

ClockInv == ClockTypeOK /\ BoundOK /\ StoresOK /\ MemoryOK /\ ReadsOK

\* The next number has the other parity.
LEMMA Parity ==
  ASSUME NEW n \in Nat
  PROVE  Odd(n + 1) <=> ~Odd(n)
BY DEF Odd

\* The locals of a reader.
Locals == [sequence : 0 .. MaxSequence, valid : BOOLEAN, epoch : Ticks \cup {0},
           pause : Ticks \cup {0}, pause_valid : BOOLEAN, paused : BOOLEAN, frozen : BOOLEAN]

\* A reader that has read nothing is typed.
LEMMA NotReadType == NotRead \in Locals
BY MaxSequenceAssumption DEF NotRead, Locals

\* The initial state.
LEMMA ClockInitInv == ClockInit => ClockInv
<1> SUFFICES ASSUME ClockInit PROVE ClockInv
  OBVIOUS
<1> USE DEF ClockInit, NoReader
<1>1. SequenceOK /\ AtomicsOK /\ WriterOK
  <2>1. SequenceOK
    BY MaxSequenceAssumption DEF SequenceOK, Odd
  <2>2. AtomicsOK
    BY DEF AtomicsOK
  <2>3. WriterOK
    BY DEF WriterOK, WriterPc
  <2> QED BY <2>1, <2>2, <2>3
<1>5. ReaderOK
  BY NotReadType DEF ReaderOK, ReaderPc, Locals
<1>6. ValuesOK
  BY DEF ValuesOK
<1>2. StoresOK
  BY DEF StoresOK
<1>3. MemoryOK
  BY DEF MemoryOK, Memory, snapshot
<1>4. ReadsOK
  BY DEF ReadsOK, NotRead
<1> QED BY <1>1, <1>2, <1>3, <1>4, <1>5, <1>6 DEF ClockInv, ClockTypeOK, BoundOK

\* A publication begins: the sequence leaves every reader's behind.
LEMMA BeginStep ==
  ASSUME ClockInv, NEW a \in Live \cup Terminal, publish_anchor(a)
  PROVE  ClockInv'
<1> USE MaxSequenceAssumption DEF ClockInv, publish_anchor, payload
<1>0. a \in Anchor
  BY DEF Live, Terminal
<1>1. SequenceOK'
  <2>1. sequence \in Nat /\ ~Odd(sequence) /\ sequence' \in 0 .. MaxSequence
    BY DEF ClockTypeOK, SequenceOK
  <2>2. Odd(sequence') /\ writer'.pc # "idle"
    BY <2>1, Parity
  <2> QED BY <2>1, <2>2 DEF SequenceOK
<1>5. WriterOK'
  BY <1>0 DEF WriterOK, WriterPc
<1>6. AtomicsOK' /\ ReaderOK' /\ ValuesOK'
  BY DEF ClockTypeOK, AtomicsOK, ReaderOK, ValuesOK
<1>2. StoresOK'
  BY <1>0 DEF StoresOK
<1>3. MemoryOK'
  BY DEF MemoryOK
<1>4. ReadsOK'
  BY DEF ReadsOK, Fresh, ClockTypeOK, SequenceOK, ReaderOK
<1> QED BY <1>1, <1>2, <1>3, <1>4, <1>5, <1>6 DEF ClockTypeOK, SequenceOK, BoundOK

\* A field is stored.
LEMMA StoreStep ==
  ASSUME ClockInv,
         store_epoch \/ store_pause \/ store_pause_valid \/ store_paused \/ store_frozen
           \/ store_valid
  PROVE  ClockInv'
<1> USE DEF ClockInv, store_epoch, store_pause, store_pause_valid, store_paused, store_frozen,
            store_valid, Continue
<1>0. /\ writer.pc # "idle" /\ writer'.pc # "idle" /\ writer'.pc \in WriterPc
      /\ writer.anchor \in Anchor /\ writer' = [pc |-> writer'.pc, anchor |-> writer.anchor]
      /\ UNCHANGED <<sequence, reader, got, published>>
  BY DEF ClockTypeOK, WriterOK, StoresOK, WriterPc
<1>1. SequenceOK' /\ WriterOK' /\ ReaderOK' /\ ValuesOK'
  BY <1>0 DEF ClockTypeOK, SequenceOK, WriterOK, ReaderOK, ValuesOK
<1>5. AtomicsOK'
  <2>1. /\ writer.anchor.epoch \in Ticks /\ writer.anchor.pause \in Ticks \cup {0}
        /\ writer.anchor.paused \in BOOLEAN /\ writer.anchor.frozen \in BOOLEAN
    BY <1>0 DEF Anchor
  <2> QED BY <2>1 DEF ClockTypeOK, AtomicsOK
<1>2. StoresOK'
  BY <1>0 DEF StoresOK
<1>3. MemoryOK'
  BY <1>0 DEF MemoryOK
<1>4. ReadsOK'
  BY <1>0 DEF ReadsOK, Fresh
<1> QED BY <1>1, <1>2, <1>3, <1>4, <1>5, <1>0 DEF ClockTypeOK, BoundOK

\* It ends: the atomics hold the anchor.
LEMMA CloseStep ==
  ASSUME ClockInv, close_sequence
  PROVE  ClockInv' /\ published' \in Anchor /\ UNCHANGED got
<1> USE MaxSequenceAssumption DEF ClockInv, close_sequence, payload
<1>0. writer.anchor \in Anchor
  BY DEF StoresOK
<1>1. SequenceOK'
  <2>1. sequence \in Nat /\ Odd(sequence) /\ sequence + 1 <= MaxSequence
    BY DEF ClockTypeOK, SequenceOK, BoundOK
  <2> QED BY <2>1, Parity DEF SequenceOK
<1>5. AtomicsOK' /\ WriterOK' /\ ReaderOK' /\ ValuesOK'
  BY <1>0 DEF ClockTypeOK, AtomicsOK, WriterOK, ReaderOK, ValuesOK, WriterPc
<1>2. StoresOK'
  BY DEF StoresOK
<1>3. MemoryOK'
  BY <1>0 DEF MemoryOK, Memory, snapshot, StoresOK, Anchor
<1>4. ReadsOK'
  BY DEF ReadsOK, Fresh, ClockTypeOK, SequenceOK, ReaderOK
<1> QED BY <1>0, <1>1, <1>2, <1>3, <1>4, <1>5 DEF ClockTypeOK, BoundOK

\* A reader that reads a field.
LEMMA ReadStep ==
  ASSUME ClockInv,
         begin_load \/ load_before \/ load_valid \/ load_epoch \/ load_pause
           \/ load_pause_valid \/ load_paused \/ load_frozen
  PROVE  ClockInv' /\ UNCHANGED <<published, got>>
<1> USE DEF ClockInv, begin_load, load_before, load_valid, load_epoch, load_pause, load_pause_valid,
            load_paused, load_frozen, Loads, payload
<1>0. UNCHANGED <<sequence, epoch_qpc, pause_started_qpc, pause_started_valid, paused, frozen,
                  valid, writer, got, published>>
  OBVIOUS
<1>1. SequenceOK' /\ AtomicsOK' /\ WriterOK' /\ ValuesOK'
  BY <1>0 DEF ClockTypeOK, SequenceOK, AtomicsOK, WriterOK, ValuesOK
<1>5. ReaderOK'
  <2>1. reader \in [pc : ReaderPc, read : Locals]
    BY DEF ClockTypeOK, ReaderOK, Locals
  <2>2. /\ reader.read \in Locals /\ reader.pc \in ReaderPc
        /\ reader = [pc |-> reader.pc, read |-> reader.read]
    BY <2>1
  <2>3. reader' \in [pc : ReaderPc, read : Locals]
    <3>1. CASE begin_load
      BY <2>2, <3>1 DEF ReaderPc
    <3>2. CASE load_before
      <4>1. [NotRead EXCEPT !.sequence = sequence] \in Locals
        BY NotReadType DEF Locals, ClockTypeOK, SequenceOK
      <4> QED BY <3>2, <4>1 DEF ReaderPc
    <3>3. CASE load_valid \/ load_paused \/ load_frozen \/ load_pause_valid
      BY <2>2, <3>3 DEF ReaderPc, Locals, ClockTypeOK, AtomicsOK
    <3>4. CASE load_epoch \/ load_pause
      BY <2>2, <3>4 DEF ReaderPc, Locals, ClockTypeOK, AtomicsOK
    <3> QED BY <3>1, <3>2, <3>3, <3>4
  <2> QED BY <2>3 DEF ReaderOK, Locals
<1>2. StoresOK'
  BY <1>0 DEF StoresOK
<1>3. MemoryOK'
  BY <1>0 DEF MemoryOK, Memory, snapshot
<1>4. ReadsOK'
  BY <1>0 DEF ReadsOK, Fresh, ClockTypeOK, SequenceOK, ReaderOK, NotRead
<1> QED BY <1>0, <1>1, <1>2, <1>3, <1>4, <1>5 DEF ClockTypeOK, BoundOK

\* A load that returns gives the last publication; one that does not retries.
LEMMA ReturnStep ==
  ASSUME ClockInv, load_after
  PROVE  ClockInv' /\ UNCHANGED published /\ got' \in {published, got}
<1> USE DEF ClockInv, load_after, payload
<1>0. UNCHANGED <<sequence, epoch_qpc, pause_started_qpc, pause_started_valid, paused, frozen,
                  valid, writer, published>>
  OBVIOUS
<1>1. got' \in {published, got}
  <2>1. CASE unchanged
    <3>1. writer.pc = "idle" /\ Fresh
      BY <2>1 DEF unchanged, ClockTypeOK, SequenceOK, Fresh
    <3>2. snapshot(reader.read) = Memory
      BY <3>1 DEF ReadsOK, Memory, snapshot
    <3> QED BY <2>1, <3>1, <3>2 DEF MemoryOK
  <2>2. CASE ~unchanged
    BY <2>2
  <2> QED BY <2>1, <2>2
<1>2. SequenceOK' /\ AtomicsOK' /\ WriterOK' /\ ValuesOK'
  BY <1>0, <1>1 DEF ClockTypeOK, SequenceOK, AtomicsOK, WriterOK, ValuesOK
<1>6. ReaderOK'
  <2>1. reader' = [pc |-> "idle", read |-> NotRead] \/ reader' = [pc |-> "before", read |-> NotRead]
    BY DEF NoReader
  <2> QED BY <2>1, NotReadType DEF ReaderOK, ReaderPc, Locals
<1>3. StoresOK'
  BY <1>0 DEF StoresOK
<1>4. MemoryOK'
  BY <1>0 DEF MemoryOK, Memory, snapshot
<1>5. ReadsOK'
  BY <1>0 DEF ReadsOK, Fresh, ClockTypeOK, SequenceOK, NotRead, NoReader
<1> QED BY <1>0, <1>1, <1>2, <1>3, <1>4, <1>5, <1>6 DEF ClockTypeOK, BoundOK

\* Every step keeps the invariant and is a step of the register or none.
LEMMA InvStep ==
  ASSUME ClockInv, [ClockNext]_clockvars
  PROVE  ClockInv' /\ [Register!Next]_<<published, got>>
<1> USE DEF Register!Next, Register!Publish, Register!Read
<1>1. CASE \E a \in Live \cup Terminal : publish_anchor(a)
  BY <1>1, BeginStep DEF publish_anchor
<1>2. CASE store_epoch \/ store_pause \/ store_pause_valid \/ store_paused \/ store_frozen
             \/ store_valid
  <2>1. UNCHANGED <<published, got>>
    BY <1>2 DEF store_epoch, store_pause, store_pause_valid, store_paused, store_frozen,
                store_valid
  <2> QED BY <1>2, <2>1, StoreStep
<1>3. CASE close_sequence
  BY <1>3, CloseStep
<1>4. CASE begin_load \/ load_before \/ load_valid \/ load_epoch \/ load_pause
             \/ load_pause_valid \/ load_paused \/ load_frozen
  BY <1>4, ReadStep
<1>5. CASE load_after
  <2>1. ClockInv' /\ UNCHANGED published /\ got' \in {published, got}
    BY <1>5, ReturnStep
  <2> QED BY <2>1
<1>6. CASE UNCHANGED clockvars
  BY <1>6 DEF clockvars, payload, ClockInv, ClockTypeOK, SequenceOK, AtomicsOK, WriterOK,
              ReaderOK, ValuesOK, BoundOK, StoresOK, MemoryOK, Memory, snapshot, ReadsOK, Fresh
<1> QED BY <1>1, <1>2, <1>3, <1>4, <1>5, <1>6 DEF ClockNext, Writer, Reader

\* The type invariant of the progress clock, with the parity of the sequence
\* that tells readers of a publication in progress (SharedProgressClock).
THEOREM ClockTypeCorrect == ClockSpec => []ClockTypeOK
<1>1. ClockInv /\ [ClockNext]_clockvars => ClockInv'
  BY InvStep
<1>2. ClockInv => ClockTypeOK
  BY DEF ClockInv
<1> QED BY ClockInitInv, <1>1, <1>2, PTL DEF ClockSpec

\* Publication and load of the progress clock implement an atomic register:
\* whatever a load that retries returns is the anchor published last.
THEOREM ClockIsAtomic == ClockSpec => SnapshotIsAtomic
<1>1. ClockInit => Register!Init
  BY DEF ClockInit, Register!Init
<1>2. ClockInv /\ [ClockNext]_clockvars => ClockInv'
  BY InvStep
<1>3. ClockInv /\ [ClockNext]_clockvars => [Register!Next]_<<published, got>>
  BY InvStep
<1> QED BY ClockInitInv, <1>1, <1>2, <1>3, PTL DEF ClockSpec, SnapshotIsAtomic, Register!Spec
============================================================================
