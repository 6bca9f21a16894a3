------------------------------- MODULE Timer --------------------------------
(***************************************************************************)
(* Timer: a Removable around a uv_timer_t.  start() keeps the callback it  *)
(* replaces alive in m_old_callback, because it may be the one being       *)
(* called, and schedules a callback on the loop that drops it.  Durations  *)
(* are left out: an armed timer may fire in any timers phase.  A list of   *)
(* timeouts is its length, a callback the number of the start() that set   *)
(* it, 0 being a null callback.                                            *)
(***************************************************************************)
EXTENDS Removable

CONSTANTS Lengths,            \* lengths of the lists given to start()
          MaxStarts,          \* bound on the calls of start()
          MaxCalls            \* bound on m_call_counter

ASSUME TimerAssumption == /\ Lengths \subseteq Nat
                          /\ MaxStarts \in Nat /\ MaxCalls \in Nat

VARIABLES
  uvTimer,             \* "stopped", "armed" or "closed"
  uvRepeat,            \* the uv_timer_t has a repeat
  m_callback, m_old_callback,
  m_timeouts_ms,       \* timeouts not armed yet
  m_repeat_ms,         \* a repeat was asked for
  m_call_counter,
  m_state_was_reset,
  running,             \* the callback on_timer is in, 0 if none
  clearQueued,         \* a callback that drops m_old_callback waits in the loop's queue
  executorRuns,        \* the idle phase has still to call the loop's executor
  starts,              \* history: the calls of start() with a callback
  calls,               \* history: calls of on_timer since the last start()
  stopped,             \* history: whether stop() was called after the last start()
  dangling             \* what was used or deleted after its end: "callback", "timer"

timerVars == <<uvTimer, uvRepeat, m_callback, m_old_callback, m_timeouts_ms, m_repeat_ms,
               m_call_counter, m_state_was_reset, running, clearQueued, executorRuns,
               starts, calls, stopped, dangling>>
vars == <<removableVars, timerVars>>

Init == /\ RemovableInit
        /\ uvTimer = "stopped" /\ uvRepeat = FALSE
        /\ m_callback = 0 /\ m_old_callback = 0
        /\ m_timeouts_ms = 0 /\ m_repeat_ms = FALSE
        /\ m_call_counter = 0 /\ m_state_was_reset = FALSE
        /\ running = 0 /\ clearQueued = FALSE /\ executorRuns = FALSE
        /\ starts = 0 /\ calls = 0 /\ stopped = "no" /\ dangling = {}

-----------------------------------------------------------------------------
(* Calls made by user code, from the timer's callback or from any other *)

\* schedule_removal() is the last call that user code makes.
MayUse == Alive /\ ~m_removal_scheduled

\* How a stop is remembered: made in a callback which on_timer will follow by
\* arming the rest of the list, or not.
Stopping == IF running # 0 /\ ~m_state_was_reset /\ m_timeouts_ms > 0 THEN "midlist" ELSE "yes"

\* A callback object goes away: harmful when it is the one being called.
Destroy(f) == IF f # 0 /\ running = f THEN dangling \cup {"callback"} ELSE dangling

start_impl(n, repeat) ==
  /\ uvTimer' = "armed"
  /\ uvRepeat' = (n = 1 /\ repeat)
  /\ m_timeouts_ms' = n - 1

\* Faulty variants of the operations stand before them, with the property that
\* rejects each.  CallbackAlive: the callback that is replaced is not kept.
StartOverwrites(n, repeat, callback) ==
  /\ MayUse /\ starts < MaxStarts /\ (repeat => n = 1)
  /\ m_call_counter' = 0
  /\ IF n = 0
     THEN /\ calls' = IF running # 0 /\ ~m_state_was_reset THEN 1 ELSE 0
          /\ UNCHANGED <<uvTimer, uvRepeat, m_callback, m_old_callback, m_timeouts_ms, m_repeat_ms,
                         m_state_was_reset, clearQueued, starts, stopped, dangling>>
     ELSE /\ calls' = 0
          /\ m_state_was_reset' = TRUE
          /\ dangling' = Destroy(m_callback)
          /\ m_old_callback' = 0
          /\ clearQueued' = TRUE
          /\ m_repeat_ms' = repeat
          /\ m_callback' = callback
          /\ start_impl(n, repeat)
          /\ starts' = starts + 1
          /\ stopped' = "no"
  /\ UNCHANGED <<removableVars, running, executorRuns>>

\* A list of several timeouts never has a repeat.
start(n, repeat, callback) ==
  /\ MayUse /\ starts < MaxStarts /\ (repeat => n = 1)
  /\ m_call_counter' = 0
  /\ IF n = 0
     THEN /\ calls' = IF running # 0 /\ ~m_state_was_reset THEN 1 ELSE 0
          /\ UNCHANGED <<uvTimer, uvRepeat, m_callback, m_old_callback, m_timeouts_ms, m_repeat_ms,
                         m_state_was_reset, clearQueued, starts, stopped, dangling>>
     ELSE /\ calls' = 0
          /\ m_state_was_reset' = TRUE
          /\ dangling' = Destroy(m_old_callback)
          /\ m_old_callback' = m_callback
          /\ clearQueued' = TRUE
          /\ m_repeat_ms' = repeat
          /\ m_callback' = callback
          /\ start_impl(n, repeat)
          /\ starts' = starts + 1
          /\ stopped' = "no"
  /\ UNCHANGED <<removableVars, running, executorRuns>>

\* StopsAndCounts: only a timer that does not repeat is stopped.
StopOneShot ==
  /\ MayUse
  /\ uvTimer' = IF uvRepeat THEN uvTimer ELSE "stopped"
  /\ stopped' = Stopping
  /\ UNCHANGED <<removableVars, uvRepeat, m_callback, m_old_callback, m_timeouts_ms, m_repeat_ms,
                 m_call_counter, m_state_was_reset, running, clearQueued, executorRuns,
                 starts, calls, dangling>>

stop ==
  /\ MayUse
  /\ uvTimer' = "stopped"
  /\ stopped' = Stopping
  /\ UNCHANGED <<removableVars, uvRepeat, m_callback, m_old_callback, m_timeouts_ms, m_repeat_ms,
                 m_call_counter, m_state_was_reset, running, clearQueued, executorRuns,
                 starts, calls, dangling>>

\* Timer::schedule_removal.
timer_schedule_removal ==
  /\ MayUse
  /\ schedule_removal
  /\ uvTimer' = "stopped"
  /\ stopped' = Stopping
  /\ UNCHANGED <<uvRepeat, m_callback, m_old_callback, m_timeouts_ms, m_repeat_ms,
                 m_call_counter, m_state_was_reset, running, clearQueued, executorRuns,
                 starts, calls, dangling>>

-----------------------------------------------------------------------------
(* The loop thread *)

\* The end of on_timer, where the timer itself is in state timer.
CountAndRearm(timer) ==
  /\ m_call_counter' = m_call_counter + 1
  /\ IF m_timeouts_ms > 0 THEN start_impl(m_timeouts_ms, m_repeat_ms)
     ELSE uvTimer' = timer /\ UNCHANGED <<uvRepeat, m_timeouts_ms>>

\* libuv stops the timer, arms it again if it has a repeat, and calls on_timer,
\* which calls the callback ...
on_timer ==
  LET fired == IF uvRepeat THEN "armed" ELSE "stopped" IN
  /\ phase = "timers" /\ running = 0 /\ uvTimer = "armed" /\ calls < MaxCalls
  /\ m_state_was_reset' = FALSE
  /\ calls' = calls + 1
  /\ running' = m_callback
  /\ IF m_callback # 0
     THEN uvTimer' = fired /\ UNCHANGED <<uvRepeat, m_timeouts_ms, m_call_counter>>
     ELSE CountAndRearm(fired)
  /\ UNCHANGED <<removableVars, m_callback, m_old_callback, m_repeat_ms, clearQueued,
                 executorRuns, starts, stopped, dangling>>

\* EveryTimeoutFires: the next timeout of the list is not armed.
CountOnly ==
  /\ running # 0
  /\ running' = 0
  /\ m_call_counter' = m_call_counter + (IF m_state_was_reset THEN 0 ELSE 1)
  /\ UNCHANGED <<removableVars, uvTimer, uvRepeat, m_callback, m_old_callback, m_timeouts_ms,
                 m_repeat_ms, m_state_was_reset, clearQueued, executorRuns, starts, calls,
                 stopped, dangling>>

\* ... and goes on when it returns, unless it restarted the timer.
CallbackReturns ==
  /\ running # 0
  /\ running' = 0
  /\ IF m_state_was_reset
     THEN UNCHANGED <<m_call_counter, uvTimer, uvRepeat, m_timeouts_ms>>
     ELSE CountAndRearm(uvTimer)
  /\ UNCHANGED <<removableVars, m_callback, m_old_callback, m_repeat_ms, m_state_was_reset,
                 clearQueued, executorRuns, starts, calls, stopped, dangling>>

\* The executor of the loop runs in the idle phase when a callback waits for
\* it, one of another object or the one start() scheduled.
EnterIdle ==
  /\ running = 0
  /\ BeginIdle
  /\ executorRuns' \in IF clearQueued THEN {TRUE} ELSE BOOLEAN
  /\ UNCHANGED <<uvTimer, uvRepeat, m_callback, m_old_callback, m_timeouts_ms, m_repeat_ms,
                 m_call_counter, m_state_was_reset, running, clearQueued, starts, calls,
                 stopped, dangling>>

\* The scheduled callbacks drop m_old_callback.
ClearOldCallback ==
  /\ phase = "idle" /\ executorRuns
  /\ executorRuns' = FALSE
  /\ clearQueued' = FALSE
  /\ IF clearQueued /\ Alive
     THEN m_old_callback' = 0 /\ UNCHANGED dangling
     ELSE /\ dangling' = IF clearQueued THEN dangling \cup {"timer"} ELSE dangling
          /\ UNCHANGED m_old_callback
  /\ UNCHANGED <<removableVars, uvTimer, uvRepeat, m_callback, m_timeouts_ms, m_repeat_ms,
                 m_call_counter, m_state_was_reset, running, starts, calls, stopped>>

OnRemoval ==
  /\ on_removal
  /\ dangling' = IF Alive THEN dangling ELSE dangling \cup {"timer"}
  /\ UNCHANGED <<uvTimer, uvRepeat, m_callback, m_old_callback, m_timeouts_ms, m_repeat_ms,
                 m_call_counter, m_state_was_reset, running, clearQueued, executorRuns,
                 starts, calls, stopped>>

\* The object is deleted; ~Impl stops and closes the uv_timer_t.
Delete ==
  /\ on_delete_idle_handle_close
  /\ dangling' = IF Alive THEN dangling ELSE dangling \cup {"timer"}
  /\ uvTimer' = "closed"
  /\ UNCHANGED <<uvRepeat, m_callback, m_old_callback, m_timeouts_ms, m_repeat_ms,
                 m_call_counter, m_state_was_reset, running, clearQueued, executorRuns,
                 starts, calls, stopped>>

EnterNextPhase == NextPhase /\ ~executorRuns /\ UNCHANGED timerVars

UserCall ==
  \/ \E n \in Lengths, repeat \in BOOLEAN, callback \in {0, starts + 1} : start(n, repeat, callback)
  \/ stop
  \/ timer_schedule_removal

LoopStep == \/ CallbackReturns \/ EnterIdle \/ ClearOldCallback \/ OnRemoval
            \/ Delete \/ EnterNextPhase

Next == UserCall \/ on_timer \/ LoopStep

Spec == Init /\ [][Next]_vars

\* The loop iterates, callbacks return, and the time of an armed timer comes.
FairSpec == Spec /\ WF_vars(LoopStep) /\ SF_vars(on_timer)

-----------------------------------------------------------------------------
(* Properties *)

\* Every variable of Timer::Impl and of Removable has its type.
TypeOK ==
  /\ RemovableTypeOK
  /\ uvTimer \in {"stopped", "armed", "closed"} /\ uvRepeat \in BOOLEAN
  /\ m_callback \in 0..MaxStarts /\ m_old_callback \in 0..MaxStarts /\ running \in 0..MaxStarts
  /\ m_timeouts_ms \in Nat /\ m_repeat_ms \in BOOLEAN /\ m_call_counter \in Nat
  /\ m_state_was_reset \in BOOLEAN /\ clearQueued \in BOOLEAN /\ executorRuns \in BOOLEAN
  /\ starts \in 0..MaxStarts /\ calls \in Nat /\ stopped \in {"no", "yes", "midlist"}
  /\ dangling \subseteq {"callback", "timer"}

\* No callback meets what was destroyed.  The one start() schedules captures the
\* timer, and never runs after the timer was deleted, in whatever phases
\* start() and schedule_removal() were called.  "Old callback is needed to save
\* (move) current one and not overwrite itself while being inside the call":
\* the callback that on_timer calls may restart its timer and is not destroyed
\* while it runs, unless it calls start() a second time.
CallbackAlive ==
  [][ /\ "timer" \notin dangling'
      /\ "callback" \in dangling' \ dangling => starts' >= running + 2 ]_vars

\* After stop() or schedule_removal(), also from inside the callback, the timer
\* does not fire until it is started again, whatever restarts, repeats and stops
\* came before.  A stop inside the callback while timeouts of the list are left
\* ("midlist") is undone by on_timer, which arms the next one.
\* callback_call_counter() is the number of completed calls since start(), also
\* when callbacks restart the timer.  A start() with an empty list, which
\* resets the counter and nothing else, lets the call it is made in count.
StopsAndCounts ==
  /\ TypeOK
  /\ stopped = "yes" /\ running = 0 => uvTimer # "armed"
  /\ m_call_counter + (IF running # 0 /\ ~m_state_was_reset THEN 1 ELSE 0) = calls

\* Every timeout of the list given to start() fires, unless the timer is
\* stopped or started again.
EveryTimeoutFires ==
  \A g \in 1..MaxStarts :
    (starts = g /\ m_timeouts_ms > 0) ~> (starts # g \/ stopped # "no" \/ m_timeouts_ms = 0)
=============================================================================
