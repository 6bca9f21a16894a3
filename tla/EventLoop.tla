----------------------------- MODULE EventLoop ------------------------------
(***************************************************************************)
(* EventLoop::Impl: the two callback queues, the handles called on every   *)
(* loop cycle, the blocking of the exit, the signal handlers, run() and    *)
(* the destructor.  The loop thread is a program counter over the phases   *)
(* of uv_run and the statements of run(); while it is inside a user        *)
(* callback, or outside run(), user code may call any method of the loop.  *)
(* Other threads may call execute_on_loop_thread only.                     *)
(***************************************************************************)
EXTENDS Integers, Sequences

CONSTANTS Callbacks,      \* callbacks handed to the two queues, each at most once
          Threads,        \* threads other than the loop's
          CycleHandles,   \* handles of schedule_call_on_each_loop_cycle
          Signals,        \* EventLoop::Signal
          MaxBlock        \* bound on m_dummy_idle_ref_counter, either way from 0

ASSUME ConstantsAssumption == /\ MaxBlock \in Nat
                              /\ "executor" \notin CycleHandles
                              /\ "async" \notin Signals

VARIABLES
  pc,             \* where the loop thread is
  ret,            \* where execute_pending_callbacks returns to
  inCallback,     \* a user callback is on the loop thread's stack
  mode,           \* "run", or which of the two uv_run calls of finish()
  m_run_called,
  m_is_running,
  has_pending_callbacks,           \* local of run()
  m_async_callbacks_queue,
  asyncSignal,                     \* uv_async_send not yet seen by the loop
  callbacks_queue_copy,            \* local of execute_pending_callbacks
  sending,                         \* threads between the push and uv_async_send
  m_sync_callbacks_queue,
  queue_copy,                      \* local of the executor function
  m_have_active_sync_callbacks,
  executorActive,                  \* the executor's idle handle is started
  cycleActive, cycleUsed,          \* started, ever started handles
  m_dummy_idle_ref_counter,
  m_signal_handlers,               \* per signal: none, stopped, once or repeat
  raised,                          \* signals caught, not yet read by the loop
  toRun,                           \* what the current phase has still to call
  closing,                         \* some handle waits for its close callback
  fresh,                           \* callbacks not handed over yet
  asyncExecuted, syncExecuted      \* history: the calls made

loopVars == <<pc, ret, inCallback, mode, m_run_called, m_is_running, has_pending_callbacks>>
asyncVars == <<m_async_callbacks_queue, asyncSignal, callbacks_queue_copy, sending, asyncExecuted>>
syncVars == <<m_sync_callbacks_queue, queue_copy, m_have_active_sync_callbacks, executorActive, syncExecuted>>
handleVars == <<cycleActive, cycleUsed, m_dummy_idle_ref_counter, m_signal_handlers, raised>>
vars == <<loopVars, asyncVars, syncVars, handleVars, toRun, closing, fresh>>

ActiveSignals == {s \in Signals : m_signal_handlers[s] \in {"once", "repeat"}}

\* libuv's uv__loop_alive: the async handle is unreferenced and does not count.
LoopAlive == \/ executorActive
             \/ cycleActive # {}
             \/ m_dummy_idle_ref_counter > 0
             \/ ActiveSignals # {}
             \/ closing

Init == /\ pc = "outside" /\ ret = "again" /\ inCallback = FALSE /\ mode = "run"
        /\ m_run_called = FALSE /\ m_is_running = FALSE /\ has_pending_callbacks = FALSE
        /\ m_async_callbacks_queue = <<>> /\ asyncSignal = FALSE
        /\ callbacks_queue_copy = <<>> /\ sending = {} /\ asyncExecuted = <<>>
        /\ m_sync_callbacks_queue = <<>> /\ queue_copy = <<>> /\ syncExecuted = <<>>
        /\ m_have_active_sync_callbacks = FALSE /\ executorActive = FALSE
        /\ cycleActive = {} /\ cycleUsed = {} /\ m_dummy_idle_ref_counter = 0
        /\ m_signal_handlers = [s \in Signals |-> "none"] /\ raised = {}
        /\ toRun = {} /\ closing = FALSE /\ fresh = Callbacks

-----------------------------------------------------------------------------
(* Calls made by user code on the loop thread *)

UserCode == inCallback \/ pc = "outside"

\* Faulty variants of the operations stand before them: each has the bug its
\* comment names, and the property named is the one that rejects it.

\* m_async is gone once finish() has started, so the loop may not be posted to.
execute_on_loop_thread(c) ==
  /\ UserCode /\ mode = "run" /\ c \in fresh
  /\ m_async_callbacks_queue' = Append(m_async_callbacks_queue, c)
  /\ asyncSignal' = TRUE
  /\ fresh' = fresh \ {c}
  /\ UNCHANGED <<loopVars, callbacks_queue_copy, sending, asyncExecuted, syncVars,
                 handleVars, toRun, closing>>


schedule_callback(c) ==
  /\ UserCode /\ c \in fresh
  /\ executorActive' = (executorActive \/ ~m_have_active_sync_callbacks)
  /\ m_have_active_sync_callbacks' = TRUE
  /\ m_sync_callbacks_queue' = Append(m_sync_callbacks_queue, c)
  /\ fresh' = fresh \ {c}
  /\ UNCHANGED <<loopVars, asyncVars, queue_copy, syncExecuted, handleVars, toRun, closing>>

schedule_call_on_each_loop_cycle(h) ==
  /\ UserCode /\ h \in CycleHandles \ cycleUsed
  /\ cycleActive' = cycleActive \cup {h}
  /\ cycleUsed' = cycleUsed \cup {h}
  /\ UNCHANGED <<loopVars, asyncVars, syncVars, m_dummy_idle_ref_counter,
                 m_signal_handlers, raised, toRun, closing, fresh>>

stop_call_on_each_loop_cycle(h) ==
  /\ UserCode /\ h \in cycleActive
  /\ cycleActive' = cycleActive \ {h}
  /\ toRun' = toRun \ {h}
  /\ closing' = TRUE
  /\ UNCHANGED <<loopVars, asyncVars, syncVars, cycleUsed, m_dummy_idle_ref_counter,
                 m_signal_handlers, raised, fresh>>

start_block_loop_from_exit ==
  /\ UserCode /\ m_dummy_idle_ref_counter < MaxBlock
  /\ m_dummy_idle_ref_counter' = m_dummy_idle_ref_counter + 1
  /\ UNCHANGED <<loopVars, asyncVars, syncVars, cycleActive, cycleUsed,
                 m_signal_handlers, raised, toRun, closing, fresh>>

\* Nothing stops the counter from going below 0; the next start then starts
\* no timer, so the timer runs exactly while the counter is positive.
stop_block_loop_from_exit ==
  /\ UserCode /\ m_dummy_idle_ref_counter > -MaxBlock
  /\ m_dummy_idle_ref_counter' = m_dummy_idle_ref_counter - 1
  /\ closing' = (closing \/ m_dummy_idle_ref_counter = 1)
  /\ UNCHANGED <<loopVars, asyncVars, syncVars, cycleActive, cycleUsed,
                 m_signal_handlers, raised, toRun, fresh>>

add_signal_handler(s, continuity) ==
  /\ UserCode /\ mode = "run"
  /\ m_signal_handlers' = [m_signal_handlers EXCEPT ![s] = continuity]
  /\ UNCHANGED <<loopVars, asyncVars, syncVars, cycleActive, cycleUsed,
                 m_dummy_idle_ref_counter, raised, toRun, closing, fresh>>

remove_signal_handler(s) ==
  /\ UserCode /\ s \in ActiveSignals
  /\ m_signal_handlers' = [m_signal_handlers EXCEPT ![s] = "stopped"]
  /\ UNCHANGED <<loopVars, asyncVars, syncVars, cycleActive, cycleUsed,
                 m_dummy_idle_ref_counter, raised, toRun, closing, fresh>>

UserCall ==
  \/ \E c \in Callbacks : execute_on_loop_thread(c) \/ schedule_callback(c)
  \/ \E h \in CycleHandles : schedule_call_on_each_loop_cycle(h) \/ stop_call_on_each_loop_cycle(h)
  \/ start_block_loop_from_exit
  \/ stop_block_loop_from_exit
  \/ \E s \in Signals : remove_signal_handler(s)
                        \/ \E k \in {"once", "repeat"} : add_signal_handler(s, k)

\* The user callback on the loop thread's stack returns.
CallbackReturns ==
  /\ inCallback
  /\ inCallback' = FALSE
  /\ UNCHANGED <<pc, ret, mode, m_run_called, m_is_running, has_pending_callbacks,
                 asyncVars, syncVars, handleVars, toRun, closing, fresh>>

-----------------------------------------------------------------------------
(* Other threads: execute_on_loop_thread is a push under the mutex followed *)
(* by uv_async_send outside of it.  A signal may be caught at any time.     *)

ThreadPush(t, c) ==
  /\ mode = "run" /\ t \notin sending /\ c \in fresh
  /\ m_async_callbacks_queue' = Append(m_async_callbacks_queue, c)
  /\ sending' = sending \cup {t}
  /\ fresh' = fresh \ {c}
  /\ UNCHANGED <<loopVars, asyncSignal, callbacks_queue_copy, asyncExecuted, syncVars,
                 handleVars, toRun, closing>>

\* NoLostWakeup: wakes the loop up only if it finds the queue empty.
SendIfEmpty(t) ==
  /\ t \in sending
  /\ sending' = sending \ {t}
  /\ asyncSignal' = (asyncSignal \/ m_async_callbacks_queue = <<>>)
  /\ UNCHANGED <<loopVars, m_async_callbacks_queue, callbacks_queue_copy, asyncExecuted,
                 syncVars, handleVars, toRun, closing, fresh>>

ThreadSend(t) ==
  /\ t \in sending
  /\ sending' = sending \ {t}
  /\ asyncSignal' = TRUE
  /\ UNCHANGED <<loopVars, m_async_callbacks_queue, callbacks_queue_copy, asyncExecuted,
                 syncVars, handleVars, toRun, closing, fresh>>

RaiseSignal(s) ==
  /\ s \in ActiveSignals \ raised
  /\ raised' = raised \cup {s}
  /\ UNCHANGED <<loopVars, asyncVars, syncVars, cycleActive, cycleUsed,
                 m_dummy_idle_ref_counter, m_signal_handlers, toRun, closing, fresh>>

-----------------------------------------------------------------------------
(* The loop thread: uv_run, and what libuv calls *)

At(label) == pc = label /\ ~inCallback
Goto(label) == pc' = label /\ UNCHANGED <<ret, inCallback, mode, m_run_called, m_is_running, has_pending_callbacks>>
Call(label) == pc' = label /\ inCallback' = TRUE /\ UNCHANGED <<ret, mode, m_run_called, m_is_running, has_pending_callbacks>>

run ==
  /\ At("outside")
  /\ m_run_called' = TRUE /\ m_is_running' = TRUE
  /\ pc' = "uv_run"
  /\ UNCHANGED <<ret, inCallback, mode, has_pending_callbacks, asyncVars, syncVars,
                 handleVars, toRun, closing, fresh>>

\* The head of uv_run's loop: leave it when nothing is alive, else the idle
\* phase calls the handles that are started now and no others.
uv_run ==
  /\ At("uv_run")
  /\ IF LoopAlive
     THEN /\ Goto("idle")
          /\ toRun' = cycleActive \cup (IF executorActive THEN {"executor"} ELSE {})
     ELSE /\ Goto(IF mode = "run" THEN "pending" ELSE "finished")
          /\ UNCHANGED toRun
  /\ UNCHANGED <<asyncVars, syncVars, handleVars, closing, fresh>>

on_idle(h) ==
  /\ At("idle") /\ h \in toRun \ {"executor"}
  /\ toRun' = toRun \ {h}
  /\ Call("idle")
  /\ UNCHANGED <<asyncVars, syncVars, handleVars, closing, fresh>>

\* PostedIsCalled: a queue of one callback is left alone.
SwapIfSeveral ==
  /\ At("idle") /\ "executor" \in toRun
  /\ toRun' = toRun \ {"executor"}
  /\ IF Len(m_sync_callbacks_queue) > 1
     THEN queue_copy' = m_sync_callbacks_queue /\ m_sync_callbacks_queue' = <<>>
     ELSE UNCHANGED <<queue_copy, m_sync_callbacks_queue>>
  /\ Goto("executor")
  /\ UNCHANGED <<asyncVars, m_have_active_sync_callbacks, executorActive, syncExecuted,
                 handleVars, closing, fresh>>

\* The executor function takes the queue ...
ExecutorSwap ==
  /\ At("idle") /\ "executor" \in toRun
  /\ toRun' = toRun \ {"executor"}
  /\ queue_copy' = m_sync_callbacks_queue
  /\ m_sync_callbacks_queue' = <<>>
  /\ Goto("executor")
  /\ UNCHANGED <<asyncVars, m_have_active_sync_callbacks, executorActive, syncExecuted,
                 handleVars, closing, fresh>>

\* ... calls each callback of its copy ...
ExecutorCall ==
  /\ At("executor") /\ queue_copy # <<>>
  /\ syncExecuted' = Append(syncExecuted, Head(queue_copy))
  /\ queue_copy' = Tail(queue_copy)
  /\ Call("executor")
  /\ UNCHANGED <<asyncVars, m_sync_callbacks_queue, m_have_active_sync_callbacks,
                 executorActive, handleVars, toRun, closing, fresh>>

\* ExecutorArmed: the handle is closed whatever was scheduled meanwhile.
CloseExecutor ==
  /\ At("executor") /\ queue_copy = <<>>
  /\ executorActive' = FALSE /\ m_have_active_sync_callbacks' = FALSE /\ closing' = TRUE
  /\ Goto("idle")
  /\ UNCHANGED <<asyncVars, m_sync_callbacks_queue, queue_copy, syncExecuted, handleVars,
                 toRun, fresh>>

\* ExitsWhenIdle: the handle is never closed.
KeepExecutor ==
  /\ At("executor") /\ queue_copy = <<>>
  /\ Goto("idle")
  /\ UNCHANGED <<asyncVars, syncVars, handleVars, toRun, closing, fresh>>

\* ... and closes its handle when they scheduled nothing new.
ExecutorDone ==
  /\ At("executor") /\ queue_copy = <<>>
  /\ IF m_sync_callbacks_queue = <<>>
     THEN executorActive' = FALSE /\ m_have_active_sync_callbacks' = FALSE /\ closing' = TRUE
     ELSE UNCHANGED <<executorActive, m_have_active_sync_callbacks, closing>>
  /\ Goto("idle")
  /\ UNCHANGED <<asyncVars, m_sync_callbacks_queue, queue_copy, syncExecuted, handleVars,
                 toRun, fresh>>

\* End of the idle phase.  The poll phase reads what is ready now; it waits
\* for nothing when no handle is ready, a timer or an idle handle ends it.
Poll ==
  /\ At("idle") /\ toRun = {}
  /\ toRun' = raised \cup (IF asyncSignal THEN {"async"} ELSE {})
  /\ raised' = {}
  /\ Goto("dispatch")
  /\ UNCHANGED <<asyncVars, syncVars, cycleActive, cycleUsed, m_dummy_idle_ref_counter,
                 m_signal_handlers, closing, fresh>>

on_async ==
  /\ At("dispatch") /\ "async" \in toRun
  /\ toRun' = toRun \ {"async"}
  /\ asyncSignal' = FALSE
  /\ pc' = "execute_pending" /\ ret' = "dispatch"
  /\ UNCHANGED <<inCallback, mode, m_run_called, m_is_running, has_pending_callbacks,
                 m_async_callbacks_queue, callbacks_queue_copy, sending, asyncExecuted,
                 syncVars, handleVars, closing, fresh>>

\* libuv drops a signal whose handler was stopped meanwhile; a handler of
\* handle_signal_once is stopped before its callback is called.
on_signal(s) ==
  /\ At("dispatch") /\ s \in toRun \ {"async"}
  /\ toRun' = toRun \ {s}
  /\ IF s \in ActiveSignals
     THEN /\ Call("dispatch")
          /\ m_signal_handlers' = [m_signal_handlers EXCEPT ![s] = IF @ = "once" THEN "stopped" ELSE @]
     ELSE UNCHANGED <<loopVars, m_signal_handlers>>
  /\ UNCHANGED <<asyncVars, syncVars, cycleActive, cycleUsed, m_dummy_idle_ref_counter,
                 raised, closing, fresh>>

\* End of the iteration: the close callbacks run.
CloseHandles ==
  /\ At("dispatch") /\ toRun = {}
  /\ closing' = FALSE
  /\ pc' = IF mode = "once2" THEN "finished" ELSE "uv_run"
  /\ mode' = IF mode = "once1" THEN "once2" ELSE mode
  /\ UNCHANGED <<ret, inCallback, m_run_called, m_is_running, has_pending_callbacks,
                 asyncVars, syncVars, handleVars, toRun, fresh>>

\* run(), after uv_run: the size of the queue is read under the mutex, which
\* is released before execute_pending_callbacks takes it again.
CheckPending ==
  /\ At("pending")
  /\ has_pending_callbacks' = (m_async_callbacks_queue # <<>>)
  /\ pc' = "execute_pending" /\ ret' = "again"
  /\ UNCHANGED <<inCallback, mode, m_run_called, m_is_running, asyncVars, syncVars,
                 handleVars, toRun, closing, fresh>>

\* CallbacksInOrder: the queue is copied but not emptied.
ExecutePendingCopy ==
  /\ At("execute_pending")
  /\ callbacks_queue_copy' = m_async_callbacks_queue
  /\ Goto("callbacks")
  /\ UNCHANGED <<m_async_callbacks_queue, asyncSignal, sending, asyncExecuted, syncVars,
                 handleVars, toRun, closing, fresh>>

ExecutePendingSwap ==
  /\ At("execute_pending")
  /\ callbacks_queue_copy' = m_async_callbacks_queue
  /\ m_async_callbacks_queue' = <<>>
  /\ Goto("callbacks")
  /\ UNCHANGED <<asyncSignal, sending, asyncExecuted, syncVars, handleVars, toRun, closing, fresh>>

ExecutePendingCall ==
  /\ At("callbacks") /\ callbacks_queue_copy # <<>>
  /\ asyncExecuted' = Append(asyncExecuted, Head(callbacks_queue_copy))
  /\ callbacks_queue_copy' = Tail(callbacks_queue_copy)
  /\ Call("callbacks")
  /\ UNCHANGED <<m_async_callbacks_queue, asyncSignal, sending, syncVars, handleVars,
                 toRun, closing, fresh>>

ExecutePendingDone ==
  /\ At("callbacks") /\ callbacks_queue_copy = <<>>
  /\ Goto(ret)
  /\ UNCHANGED <<asyncVars, syncVars, handleVars, toRun, closing, fresh>>

\* ReturnsIdleUnlessLate: uv_run is not repeated.
RunOnce ==
  /\ At("again")
  /\ Goto("returning")
  /\ UNCHANGED <<asyncVars, syncVars, handleVars, toRun, closing, fresh>>

\* The condition of run()'s do-while.
RunAgain ==
  /\ At("again")
  /\ Goto(IF has_pending_callbacks THEN "uv_run" ELSE "returning")
  /\ UNCHANGED <<asyncVars, syncVars, handleVars, toRun, closing, fresh>>

RunReturns ==
  /\ At("returning")
  /\ m_is_running' = FALSE
  /\ pc' = "outside"
  /\ UNCHANGED <<ret, inCallback, mode, m_run_called, has_pending_callbacks, asyncVars,
                 syncVars, handleVars, toRun, closing, fresh>>

\* The destructor.  The async handle is being closed, so uv_loop_close
\* reports EBUSY and, if run() was ever called, uv_run(UV_RUN_ONCE) runs twice.
\* Otherwise what is left of the queues goes away with the Impl.
finish ==
  /\ At("outside") /\ sending = {}
  /\ m_signal_handlers' = [s \in Signals |-> "none"]
  /\ m_async_callbacks_queue' = <<>> /\ asyncSignal' = FALSE
  /\ m_sync_callbacks_queue' = <<>>
  /\ closing' = TRUE
  /\ mode' = "once1"
  /\ pc' = IF m_run_called THEN "uv_run" ELSE "finished"
  /\ UNCHANGED <<ret, inCallback, m_run_called, m_is_running, has_pending_callbacks,
                 callbacks_queue_copy, sending, asyncExecuted, queue_copy,
                 m_have_active_sync_callbacks, executorActive, syncExecuted, cycleActive,
                 cycleUsed, m_dummy_idle_ref_counter, raised, toRun, fresh>>

Finished == pc = "finished" /\ UNCHANGED vars

LoopStep ==
  \/ CallbackReturns
  \/ uv_run \/ (\E h \in CycleHandles : on_idle(h)) \/ Poll \/ CloseHandles
  \/ ExecutorSwap \/ ExecutorCall \/ ExecutorDone
  \/ on_async \/ (\E s \in Signals : on_signal(s))
  \/ CheckPending \/ ExecutePendingSwap \/ ExecutePendingCall \/ ExecutePendingDone
  \/ RunAgain \/ RunReturns

Next ==
  \/ LoopStep
  \/ run
  \/ finish
  \/ UserCall
  \/ \E t \in Threads : ThreadSend(t) \/ \E c \in Callbacks : ThreadPush(t, c)
  \/ \E s \in Signals : RaiseSignal(s)
  \/ Finished

Spec == Init /\ [][Next]_vars

\* libuv keeps calling, user callbacks return, and a thread that has pushed
\* goes on to its uv_async_send.
FairSpec == Spec /\ WF_vars(LoopStep) /\ \A t \in Threads : WF_vars(ThreadSend(t))

-----------------------------------------------------------------------------
(* Properties *)

Labels == {"outside", "uv_run", "idle", "executor", "dispatch", "execute_pending",
           "callbacks", "pending", "again", "returning", "finished"}

\* Every variable of EventLoop::Impl has its type.
TypeOK ==
  /\ pc \in Labels /\ ret \in {"dispatch", "again"}
  /\ inCallback \in BOOLEAN /\ mode \in {"run", "once1", "once2"}
  /\ m_run_called \in BOOLEAN /\ m_is_running \in BOOLEAN /\ has_pending_callbacks \in BOOLEAN
  /\ m_async_callbacks_queue \in Seq(Callbacks) /\ callbacks_queue_copy \in Seq(Callbacks)
  /\ asyncExecuted \in Seq(Callbacks) /\ asyncSignal \in BOOLEAN /\ sending \subseteq Threads
  /\ m_sync_callbacks_queue \in Seq(Callbacks) /\ queue_copy \in Seq(Callbacks)
  /\ syncExecuted \in Seq(Callbacks)
  /\ m_have_active_sync_callbacks \in BOOLEAN /\ executorActive \in BOOLEAN
  /\ cycleActive \subseteq CycleHandles /\ cycleUsed \subseteq CycleHandles
  /\ m_dummy_idle_ref_counter \in -MaxBlock..MaxBlock
  /\ m_signal_handlers \in [Signals -> {"none", "stopped", "once", "repeat"}]
  /\ raised \subseteq Signals
  /\ toRun \subseteq CycleHandles \cup Signals \cup {"executor", "async"}
  /\ closing \in BOOLEAN /\ fresh \subseteq Callbacks

\* A callback pushed by execute_on_loop_thread always has a wake-up of the
\* loop on its way: a signal the loop has not consumed, a thread about to call
\* uv_async_send, or the loop thread about to swap the queue.
NoLostWakeup ==
  m_async_callbacks_queue # <<>> => \/ asyncSignal
                                    \/ sending # {}
                                    \/ pc = "execute_pending"

\* schedule_callback's flag and the executor's idle handle agree, so that a
\* callback in the queue, or one being scheduled, always has a live executor,
\* and the copy being worked off is never overwritten by a second swap.
ExecutorArmed ==
  /\ m_have_active_sync_callbacks = executorActive
  /\ m_sync_callbacks_queue # <<>> => executorActive
  /\ pc = "executor" => executorActive
  /\ queue_copy # <<>> => pc = "executor"
  /\ callbacks_queue_copy # <<>> => pc = "callbacks"

\* What the phases of uv_run guarantee each other: the idle phase never calls
\* an executor whose handle was closed, or twice, and the statements of run()
\* are never reached from the uv_run calls of the destructor.
Phases ==
  /\ pc = "idle" /\ "executor" \in toRun => executorActive
  /\ pc = "executor" => "executor" \notin toRun
  /\ pc \in {"outside", "pending", "again", "returning"} => mode = "run"
  /\ pc \in {"execute_pending", "callbacks"} /\ ret = "again" => mode = "run"

\* The inductive invariant of the proofs.
IInv == TypeOK /\ NoLostWakeup /\ ExecutorArmed /\ Phases

\* run() returns only when nothing is left to do: no started handle, no block,
\* no registered signal handler and no scheduled callback, the ones scheduled
\* by the callbacks that run() itself calls after uv_run included.
ReturnsOnlyWhenIdle ==
  pc = "returning" => ~LoopAlive /\ m_sync_callbacks_queue = <<>>

AsyncFifo == INSTANCE CallbackFifo
               WITH pending <- callbacks_queue_copy \o m_async_callbacks_queue,
                    executed <- asyncExecuted, closed <- mode # "run"
SyncFifo == INSTANCE CallbackFifo
              WITH pending <- queue_copy \o m_sync_callbacks_queue,
                   executed <- syncExecuted, closed <- mode # "run"

\* The callbacks of execute_on_loop_thread, from every thread, and those of
\* schedule_callback are called once each and in the order of their pushes,
\* although both queues are swapped with a copy that is worked off: each
\* implements a FIFO queue.
CallbacksInOrder == AsyncFifo!Spec /\ SyncFifo!Spec

In(c, q) == \E i \in 1..Len(q) : q[i] = c

\* A callback posted from any thread to a running loop is called, unless run()
\* returns first, and so is a callback scheduled on the loop thread.
PostedIsCalled ==
  /\ \A c \in Callbacks : (m_is_running /\ In(c, m_async_callbacks_queue))
                            ~> (In(c, asyncExecuted) \/ ~m_is_running)
  /\ \A c \in Callbacks : (m_is_running /\ In(c, m_sync_callbacks_queue))
                            ~> (In(c, syncExecuted) \/ ~m_is_running)

\* "When EventLoop has nothing to do, it exits": if in the end no cycle handle,
\* block or signal handler is left, run() returns.
ExitsWhenIdle ==
  <>[](cycleActive = {} /\ m_dummy_idle_ref_counter <= 0 /\ ActiveSignals = {})
    => []<>(~m_is_running)
=============================================================================
