---------------------------- MODULE TimerProofs -----------------------------
(***************************************************************************)
(* Proofs about Timer for any bounds and lengths of lists: a stopped timer *)
(* is silent, the call counter is exact, and no callback meets what was    *)
(* destroyed.                                                              *)
(***************************************************************************)
EXTENDS Timer, TLAPS

USE RemovableAssumption, TimerAssumption

\* What start, stop and on_timer keep: a stopped timer is not armed and on_timer
\* will not arm the rest of a list; m_old_callback is older than the last start.
SilentInv ==
  /\ stopped = "yes" => uvTimer # "armed" /\ (running # 0 /\ ~m_state_was_reset => m_timeouts_ms = 0)
  /\ m_call_counter + (IF running # 0 /\ ~m_state_was_reset THEN 1 ELSE 0) = calls
  /\ m_callback <= starts /\ (m_old_callback # 0 => m_old_callback < starts)

\* What keeps the scheduled callback from meeting a deleted timer: there is one
\* removal, in one stage; the executor of an idle phase runs before the phase
\* ends; and no callback is scheduled once a removal is.
RemovalInv ==
  /\ idles + closing + deleted = IF m_removal_scheduled THEN 1 ELSE 0
  /\ toRun <= idles
  /\ executorRuns => phase = "idle"
  /\ clearQueued => deleted = 0
  /\ clearQueued /\ (closing > 0 \/ toRun > 0) => executorRuns
  /\ toRun > 0 => phase = "idle"
  /\ "timer" \notin dangling

\* The inductive invariant of the proofs.
IInv == TypeOK /\ SilentInv /\ RemovalInv

\* The constructor establishes the invariant.
LEMMA InitIInv == Init => IInv
<1> SUFFICES ASSUME Init PROVE IInv OBVIOUS
<1>1. <<>> \in Seq(RemoveCallbacks) OBVIOUS
<1>2. 0 \in 0..MaxStarts OBVIOUS
<1>3. RemovableTypeOK BY <1>1 DEF Init, RemovableInit, RemovableTypeOK
<1>4. TypeOK BY <1>2, <1>3 DEF Init, TypeOK
<1>5. SilentInv BY DEF Init, SilentInv
<1>6. RemovalInv BY DEF Init, RemovableInit, RemovalInv
<1> QED BY <1>4, <1>5, <1>6 DEF IInv

\* start() replaces the callback and arms the timer.
LEMMA StartStep ==
  ASSUME IInv, NEW n \in Lengths, NEW repeat \in BOOLEAN, NEW callback \in {0, starts + 1},
         start(n, repeat, callback)
  PROVE  IInv'
<1>1. n \in Nat /\ callback \in Nat BY DEF IInv, TypeOK
<1>2. UNCHANGED <<phase, m_removal_scheduled, m_about_to_remove, m_on_remove_callback, idles,
                  toRun, closing, deleted, notified, running, executorRuns>>
  BY DEF start, removableVars
<1>3. starts < MaxStarts /\ ~m_removal_scheduled /\ m_call_counter' = 0 BY DEF start, MayUse
<1>4. CASE n = 0
  <2>1. UNCHANGED <<uvTimer, uvRepeat, m_callback, m_old_callback, m_timeouts_ms, m_repeat_ms,
                    m_state_was_reset, clearQueued, starts, stopped, dangling>>
        /\ calls' = IF running # 0 /\ ~m_state_was_reset THEN 1 ELSE 0
    BY <1>4 DEF start
  <2> QED BY <1>2, <1>3, <2>1 DEF IInv, TypeOK, RemovableTypeOK, SilentInv, RemovalInv
<1>5. CASE n # 0
  <2>1. /\ calls' = 0 /\ m_state_was_reset' = TRUE /\ dangling' = Destroy(m_old_callback)
        /\ m_old_callback' = m_callback /\ clearQueued' = TRUE /\ m_repeat_ms' = repeat
        /\ m_callback' = callback /\ starts' = starts + 1 /\ stopped' = "no"
        /\ uvTimer' = "armed" /\ uvRepeat' = (n = 1 /\ repeat) /\ m_timeouts_ms' = n - 1
    BY <1>5 DEF start, start_impl
  <2>2. dangling' \subseteq {"callback", "timer"} /\ "timer" \notin dangling'
    BY <2>1 DEF Destroy, IInv, TypeOK, RemovalInv
  <2>3. uvRepeat' \in BOOLEAN BY <2>1
  <2>4. TypeOK' BY <1>1, <1>2, <1>3, <1>5, <2>1, <2>2, <2>3 DEF IInv, TypeOK, RemovableTypeOK
  <2>5. SilentInv' BY <1>2, <1>3, <2>1 DEF IInv, TypeOK, SilentInv
  <2>6. RemovalInv' BY <1>2, <1>3, <2>1, <2>2 DEF IInv, TypeOK, RemovableTypeOK, RemovalInv
  <2> QED BY <2>4, <2>5, <2>6 DEF IInv
<1> QED BY <1>4, <1>5

\* stop() and schedule_removal() stop the timer.
LEMMA StopStep == IInv /\ (stop \/ timer_schedule_removal) => IInv'
<1> SUFFICES ASSUME IInv, stop \/ timer_schedule_removal PROVE IInv' OBVIOUS
<1>1. UNCHANGED <<uvRepeat, m_callback, m_old_callback, m_timeouts_ms, m_repeat_ms,
                  m_call_counter, m_state_was_reset, running, clearQueued, executorRuns,
                  starts, calls, dangling>>
      /\ uvTimer' = "stopped" /\ stopped' = Stopping /\ ~m_removal_scheduled
  BY DEF stop, timer_schedule_removal, MayUse
<1>2. SilentInv' BY <1>1 DEF IInv, TypeOK, SilentInv, Stopping
<1>3. stopped' \in {"yes", "midlist"} BY <1>1 DEF Stopping
<1>4. CASE stop
  <2>1. UNCHANGED removableVars BY <1>4 DEF stop
  <2> QED BY <1>1, <1>2, <1>3, <2>1 DEF removableVars, IInv, TypeOK, RemovableTypeOK, RemovalInv
<1>5. CASE timer_schedule_removal
  <2>1. /\ m_removal_scheduled' = TRUE /\ idles' = idles + 1
        /\ UNCHANGED <<phase, m_about_to_remove, m_on_remove_callback, toRun, closing, deleted, notified>>
    BY <1>5 DEF timer_schedule_removal, schedule_removal
  <2>2. TypeOK' BY <1>1, <1>3, <2>1 DEF IInv, TypeOK, RemovableTypeOK
  <2>3. RemovalInv' BY <1>1, <2>1 DEF IInv, TypeOK, RemovableTypeOK, RemovalInv
  <2> QED BY <1>2, <2>2, <2>3 DEF IInv
<1> QED BY <1>4, <1>5

\* on_timer and the return from the callback count, and arm the rest of a list,
\* which a timer stopped for good does not have.
LEMMA FireStep == IInv /\ (on_timer \/ CallbackReturns) => IInv'
<1> SUFFICES ASSUME IInv, on_timer \/ CallbackReturns PROVE IInv' OBVIOUS
<1>1. UNCHANGED <<phase, m_removal_scheduled, m_about_to_remove, m_on_remove_callback, idles,
                  toRun, closing, deleted, notified, m_callback, m_old_callback, m_repeat_ms,
                  clearQueued, executorRuns, starts, stopped, dangling>>
  BY DEF on_timer, CallbackReturns, removableVars
<1>2. RemovalInv' BY <1>1 DEF IInv, RemovalInv
<1>3. CASE on_timer
  <2>1. /\ running = 0 /\ uvTimer = "armed" /\ m_state_was_reset' = FALSE /\ calls' = calls + 1
        /\ running' = m_callback
    BY <1>3 DEF on_timer
  <2>2. m_state_was_reset' \in BOOLEAN BY <2>1
  <2>3. CASE m_callback # 0
    <3>1. /\ uvTimer' = (IF uvRepeat THEN "armed" ELSE "stopped")
          /\ UNCHANGED <<uvRepeat, m_timeouts_ms, m_call_counter>>
      BY <1>3, <2>3 DEF on_timer
    <3>2. uvTimer' \in {"armed", "stopped"} /\ running' \in 0..MaxStarts
      BY <2>1, <3>1 DEF IInv, TypeOK
    <3>3. TypeOK' BY <1>1, <2>1, <2>2, <3>2, <3>1 DEF IInv, TypeOK, RemovableTypeOK
    <3>4. SilentInv' BY <1>1, <2>1, <2>3, <3>1 DEF IInv, TypeOK, SilentInv
    <3> QED BY <1>2, <3>3, <3>4 DEF IInv
  <2>4. CASE m_callback = 0
    <3>1. CountAndRearm(IF uvRepeat THEN "armed" ELSE "stopped") BY <1>3, <2>4 DEF on_timer
    <3>2. uvTimer' \in {"stopped", "armed"} /\ m_call_counter' = m_call_counter + 1
      BY <3>1 DEF CountAndRearm, start_impl
    <3>3. uvRepeat' \in BOOLEAN /\ m_timeouts_ms' \in Nat
      <4>1. CASE m_timeouts_ms > 0
        BY <3>1, <4>1 DEF CountAndRearm, start_impl, IInv, TypeOK
      <4>2. CASE ~(m_timeouts_ms > 0)
        BY <3>1, <4>2 DEF CountAndRearm, IInv, TypeOK
      <4> QED BY <4>1, <4>2
    <3>4. running' \in 0..MaxStarts BY <2>1 DEF IInv, TypeOK
    <3>5. TypeOK' BY <1>1, <2>1, <2>2, <3>2, <3>3, <3>4 DEF IInv, TypeOK, RemovableTypeOK
    <3>6. SilentInv' BY <1>1, <2>1, <2>4, <3>2 DEF IInv, TypeOK, SilentInv
    <3> QED BY <1>2, <3>5, <3>6 DEF IInv
  <2> QED BY <2>3, <2>4
<1>4. CASE CallbackReturns
  <2>1. running # 0 /\ running' = 0 /\ UNCHANGED <<m_state_was_reset, calls>>
    BY <1>4 DEF CallbackReturns
  <2>2. CASE m_state_was_reset
    <3>1. UNCHANGED <<m_call_counter, uvTimer, uvRepeat, m_timeouts_ms>>
      BY <1>4, <2>2 DEF CallbackReturns
    <3> QED BY <1>1, <1>2, <2>1, <2>2, <3>1 DEF IInv, TypeOK, RemovableTypeOK, SilentInv
  <2>3. CASE ~m_state_was_reset
    <3>1. CountAndRearm(uvTimer) BY <1>4, <2>3 DEF CallbackReturns
    <3>2. m_call_counter' = m_call_counter + 1 BY <3>1 DEF CountAndRearm
    <3>3. CASE m_timeouts_ms > 0
      <4>1. uvTimer' = "armed" /\ uvRepeat' \in BOOLEAN /\ m_timeouts_ms' = m_timeouts_ms - 1
        BY <3>1, <3>3 DEF CountAndRearm, start_impl
      <4>2. TypeOK' BY <1>1, <2>1, <3>2, <3>3, <4>1 DEF IInv, TypeOK, RemovableTypeOK
      <4>3. stopped # "yes" BY <2>1, <2>3, <3>3 DEF IInv, TypeOK, SilentInv
      <4>4. SilentInv' BY <1>1, <2>1, <2>3, <3>2, <4>3 DEF IInv, TypeOK, SilentInv
      <4> QED BY <1>2, <4>2, <4>4 DEF IInv
    <3>4. CASE m_timeouts_ms = 0
      <4>1. UNCHANGED <<uvTimer, uvRepeat, m_timeouts_ms>>
        BY <3>1, <3>4 DEF CountAndRearm
      <4>2. TypeOK' BY <1>1, <2>1, <3>2, <4>1 DEF IInv, TypeOK, RemovableTypeOK
      <4>3. SilentInv' BY <1>1, <2>1, <2>3, <3>2, <4>1 DEF IInv, TypeOK, SilentInv
      <4> QED BY <1>2, <4>2, <4>3 DEF IInv
    <3> QED BY <3>3, <3>4 DEF IInv, TypeOK
  <2> QED BY <2>2, <2>3
<1> QED BY <1>3, <1>4

\* The idle phase calls the executor and the idle handles, in any order.
LEMMA IdleStep == IInv /\ (EnterIdle \/ ClearOldCallback \/ OnRemoval) => IInv'
<1> SUFFICES ASSUME IInv, EnterIdle \/ ClearOldCallback \/ OnRemoval PROVE IInv' OBVIOUS
<1>1. CASE EnterIdle
  <2>1. /\ phase' = "idle" /\ toRun' = idles /\ executorRuns' \in BOOLEAN
        /\ clearQueued => executorRuns'
        /\ UNCHANGED <<m_removal_scheduled, m_about_to_remove, m_on_remove_callback, idles,
                       closing, deleted, notified>>
        /\ UNCHANGED <<uvTimer, uvRepeat, m_callback, m_old_callback, m_timeouts_ms, m_repeat_ms,
                       m_call_counter, m_state_was_reset, running, clearQueued, starts, calls,
                       stopped, dangling>>
    BY <1>1 DEF EnterIdle, BeginIdle
  <2>2. TypeOK' BY <2>1 DEF IInv, TypeOK, RemovableTypeOK
  <2>3. SilentInv' BY <2>1 DEF IInv, SilentInv
  <2>4. RemovalInv' BY <2>1 DEF IInv, TypeOK, RemovableTypeOK, RemovalInv
  <2> QED BY <2>2, <2>3, <2>4 DEF IInv
<1>2. CASE ClearOldCallback
  <2>1. /\ executorRuns /\ executorRuns' = FALSE /\ clearQueued' = FALSE
        /\ UNCHANGED <<phase, m_removal_scheduled, m_about_to_remove, m_on_remove_callback, idles,
                       toRun, closing, deleted, notified>>
        /\ UNCHANGED <<uvTimer, uvRepeat, m_callback, m_timeouts_ms, m_repeat_ms, m_call_counter,
                       m_state_was_reset, running, starts, calls, stopped>>
    BY <1>2 DEF ClearOldCallback, removableVars
  <2>2. UNCHANGED dangling /\ m_old_callback' \in {0, m_old_callback}
    BY <1>2 DEF ClearOldCallback, Alive, IInv, RemovalInv
  <2>3. executorRuns' \in BOOLEAN /\ clearQueued' \in BOOLEAN BY <2>1
  <2>4. m_old_callback' \in 0..MaxStarts BY <2>2 DEF IInv, TypeOK
  <2>5. TypeOK' BY <2>1, <2>2, <2>4, <2>3 DEF IInv, TypeOK, RemovableTypeOK
  <2>6. SilentInv' BY <2>1, <2>2 DEF IInv, SilentInv
  <2>7. RemovalInv' BY <2>1, <2>2 DEF IInv, TypeOK, RemovalInv
  <2> QED BY <2>5, <2>6, <2>7 DEF IInv
<1>3. CASE OnRemoval
  <2>1. /\ phase = "idle" /\ toRun > 0 /\ m_about_to_remove' = TRUE
        /\ idles' = idles - 1 /\ toRun' = toRun - 1 /\ closing' = closing + 1
        /\ UNCHANGED <<phase, m_removal_scheduled, m_on_remove_callback, deleted>>
        /\ UNCHANGED <<uvTimer, uvRepeat, m_callback, m_old_callback, m_timeouts_ms, m_repeat_ms,
                       m_call_counter, m_state_was_reset, running, clearQueued, executorRuns,
                       starts, calls, stopped>>
    BY <1>3 DEF OnRemoval, on_removal
  <2>2. deleted = 0 BY <2>1 DEF IInv, TypeOK, RemovableTypeOK, RemovalInv
  <2>3. UNCHANGED dangling BY <1>3, <2>2 DEF OnRemoval, Alive
  <2>4. notified' \in Seq(RemoveCallbacks)
    <3>1. CASE m_on_remove_callback = NoCallback
      BY <1>3, <3>1 DEF OnRemoval, on_removal, IInv, TypeOK, RemovableTypeOK
    <3>2. CASE m_on_remove_callback # NoCallback
      <4>1. m_on_remove_callback \in RemoveCallbacks BY <3>2 DEF IInv, TypeOK, RemovableTypeOK
      <4>2. notified' = Append(notified, m_on_remove_callback) BY <1>3, <3>2 DEF OnRemoval, on_removal
      <4> QED BY <4>1, <4>2 DEF IInv, TypeOK, RemovableTypeOK
    <3> QED BY <3>1, <3>2
  <2>5. TypeOK' BY <2>1, <2>3, <2>4 DEF IInv, TypeOK, RemovableTypeOK, RemovalInv
  <2>6. SilentInv' BY <2>1 DEF IInv, SilentInv
  <2>7. RemovalInv' BY <2>1, <2>3 DEF IInv, TypeOK, RemovableTypeOK, RemovalInv
  <2> QED BY <2>5, <2>6, <2>7 DEF IInv
<1> QED BY <1>1, <1>2, <1>3

\* The other phases, and the deletion in the closing phase.
LEMMA PhaseStep == IInv /\ (Delete \/ EnterNextPhase) => IInv'
<1> SUFFICES ASSUME IInv, Delete \/ EnterNextPhase PROVE IInv' OBVIOUS
<1>1. CASE Delete
  <2>1. /\ phase = "closing" /\ closing > 0 /\ deleted' = deleted + 1 /\ closing' = closing - 1
        /\ uvTimer' = "closed"
        /\ UNCHANGED <<phase, m_removal_scheduled, m_about_to_remove, m_on_remove_callback,
                       idles, toRun, notified>>
        /\ UNCHANGED <<uvRepeat, m_callback, m_old_callback, m_timeouts_ms, m_repeat_ms,
                       m_call_counter, m_state_was_reset, running, clearQueued, executorRuns,
                       starts, calls, stopped>>
    BY <1>1 DEF Delete, on_delete_idle_handle_close
  <2>2. deleted = 0 /\ ~clearQueued BY <2>1 DEF IInv, TypeOK, RemovableTypeOK, RemovalInv
  <2>3. UNCHANGED dangling BY <1>1, <2>2 DEF Delete, Alive
  <2>4. TypeOK' BY <2>1, <2>3 DEF IInv, TypeOK, RemovableTypeOK
  <2>5. SilentInv' BY <2>1 DEF IInv, SilentInv
  <2>6. RemovalInv' BY <2>1, <2>2, <2>3 DEF IInv, TypeOK, RemovableTypeOK, RemovalInv
  <2> QED BY <2>4, <2>5, <2>6 DEF IInv
<1>2. CASE EnterNextPhase
  <2>1. /\ phase' \in {"poll", "closing", "timers"} /\ ~executorRuns
        /\ phase = "idle" => toRun = 0
        /\ UNCHANGED <<m_removal_scheduled, m_about_to_remove, m_on_remove_callback, idles,
                       toRun, closing, deleted, notified>>
    BY <1>2 DEF EnterNextPhase, NextPhase
  <2>2. UNCHANGED timerVars BY <1>2 DEF EnterNextPhase
  <2> QED BY <2>1, <2>2 DEF timerVars, IInv, TypeOK, RemovableTypeOK, SilentInv, RemovalInv
<1> QED BY <1>1, <1>2

\* Every step keeps the invariant.
LEMMA NextIInv == IInv /\ [Next]_vars => IInv'
<1> SUFFICES ASSUME IInv, [Next]_vars PROVE IInv' OBVIOUS
<1>1. CASE UserCall BY <1>1, StartStep, StopStep DEF UserCall
<1>2. CASE on_timer BY <1>2, FireStep
<1>3. CASE LoopStep BY <1>3, FireStep, IdleStep, PhaseStep DEF LoopStep
<1>4. CASE UNCHANGED vars
  BY <1>4 DEF vars, removableVars, timerVars, IInv, TypeOK, RemovableTypeOK, SilentInv, RemovalInv
<1> QED BY <1>1, <1>2, <1>3, <1>4 DEF Next

\* So it holds of every reachable state.
LEMMA AlwaysIInv == Spec => []IInv
BY InitIInv, NextIInv, PTL DEF Spec

\* After stop() or schedule_removal() the timer does not fire until it is
\* started again, and callback_call_counter() counts the completed calls.
THEOREM StoppedIsSilent == Spec => []StopsAndCounts
<1>1. IInv => StopsAndCounts BY DEF IInv, SilentInv, StopsAndCounts
<1> QED BY <1>1, AlwaysIInv, PTL

\* The scheduled callback never meets a deleted timer, and a callback that
\* restarts its timer once is not destroyed while it runs.
THEOREM CallbackStaysAlive == Spec => CallbackAlive
<1> DEFINE Step == /\ "timer" \notin dangling'
                   /\ "callback" \in dangling' \ dangling => starts' >= running + 2
<1>1. ASSUME IInv, IInv', [Next]_vars PROVE [Step]_vars
  <2>1. "timer" \notin dangling' BY <1>1 DEF IInv, RemovalInv
  <2>2. ASSUME "callback" \in dangling' \ dangling PROVE starts' >= running + 2
    <3>1. dangling' # dangling BY <2>2
    <3>2. UserCall
      <4>1. CASE on_timer BY <3>1, <4>1 DEF on_timer
      <4>2. CASE LoopStep
        <5>1. dangling' \subseteq dangling \cup {"timer"}
          BY <4>2 DEF LoopStep, CallbackReturns, EnterIdle, ClearOldCallback, OnRemoval, Delete,
               EnterNextPhase, timerVars
        <5> QED BY <2>2, <5>1
      <4>3. CASE UNCHANGED vars BY <3>1, <4>3 DEF vars, timerVars
      <4> QED BY <1>1, <4>1, <4>2, <4>3 DEF Next
    <3>3. PICK n \in Lengths, repeat \in BOOLEAN, callback \in {0, starts + 1} :
            start(n, repeat, callback)
      BY <3>1, <3>2 DEF UserCall, stop, timer_schedule_removal
    <3>4. n # 0 BY <3>1, <3>3 DEF start
    <3>5. dangling' = Destroy(m_old_callback) /\ starts' = starts + 1 BY <3>3, <3>4 DEF start
    <3>6. m_old_callback # 0 /\ running = m_old_callback BY <2>2, <3>5 DEF Destroy
    <3> QED BY <1>1, <3>5, <3>6 DEF IInv, TypeOK, SilentInv
  <2> QED BY <2>1, <2>2
<1>2. CallbackAlive <=> [][Step]_vars BY DEF CallbackAlive
<1> QED BY <1>1, <1>2, AlwaysIInv, PTL DEF Spec
=============================================================================
