-------------------------- MODULE EventLoopProofs ---------------------------
(* Machine-checked proofs about EventLoop, for all values of its constants. *)
EXTENDS EventLoop, SequenceTheorems, TLAPS

\* Every step of the loop, of user code or of another thread keeps the types.
LEMMA TypeInductive == TypeOK /\ [Next]_vars => TypeOK'
<1> SUFFICES ASSUME TypeOK, [Next]_vars PROVE TypeOK'
  OBVIOUS
<1> USE ConstantsAssumption DEF TypeOK, Labels, vars, loopVars, asyncVars, syncVars, handleVars, UserCode, At, Goto, Call, ActiveSignals
<1>1. ASSUME NEW c \in Callbacks, execute_on_loop_thread(c)
      PROVE  TypeOK'
  BY <1>1 DEF execute_on_loop_thread
<1>2. ASSUME NEW c \in Callbacks, schedule_callback(c)
      PROVE  TypeOK'
  BY <1>2 DEF schedule_callback
<1>3. ASSUME NEW h \in CycleHandles, schedule_call_on_each_loop_cycle(h)
      PROVE  TypeOK'
  BY <1>3 DEF schedule_call_on_each_loop_cycle
<1>4. ASSUME NEW h \in CycleHandles, stop_call_on_each_loop_cycle(h)
      PROVE  TypeOK'
  BY <1>4 DEF stop_call_on_each_loop_cycle
<1>5. CASE start_block_loop_from_exit
  BY <1>5 DEF start_block_loop_from_exit
<1>6. CASE stop_block_loop_from_exit
  BY <1>6 DEF stop_block_loop_from_exit
<1>7. ASSUME NEW s \in Signals, remove_signal_handler(s)
      PROVE  TypeOK'
  BY <1>7 DEF remove_signal_handler
<1>8. ASSUME NEW s \in Signals, NEW k \in {"once", "repeat"}, add_signal_handler(s, k)
      PROVE  TypeOK'
  BY <1>8 DEF add_signal_handler
<1>9. CASE CallbackReturns
  <2>1. inCallback' \in BOOLEAN
    BY <1>9 DEF CallbackReturns
  <2>2. UNCHANGED <<pc, ret, mode, m_run_called, m_is_running, has_pending_callbacks,
                    asyncVars, syncVars, handleVars, toRun, closing, fresh>>
    BY <1>9 DEF CallbackReturns
  <2> QED
    BY <2>1, <2>2
<1>10. CASE uv_run
  BY <1>10 DEF uv_run
<1>11. ASSUME NEW h \in CycleHandles, on_idle(h)
      PROVE  TypeOK'
  BY <1>11 DEF on_idle
<1>12. CASE Poll
  BY <1>12 DEF Poll
<1>13. CASE CloseHandles
  BY <1>13 DEF CloseHandles
<1>14. CASE ExecutorSwap
  BY <1>14 DEF ExecutorSwap
<1>15. CASE ExecutorCall
  BY <1>15 DEF ExecutorCall
<1>16. CASE ExecutorDone
  <2>1. executorActive' \in BOOLEAN /\ m_have_active_sync_callbacks' \in BOOLEAN /\ closing' \in BOOLEAN
    BY <1>16 DEF ExecutorDone
  <2>2. pc' \in Labels
    BY <1>16 DEF ExecutorDone
  <2>3. UNCHANGED <<ret, inCallback, mode, m_run_called, m_is_running, has_pending_callbacks, asyncVars,
                    m_sync_callbacks_queue, queue_copy, syncExecuted, handleVars, toRun, fresh>>
    BY <1>16 DEF ExecutorDone
  <2> QED
    BY <2>1, <2>2, <2>3
<1>17. CASE on_async
  BY <1>17 DEF on_async
<1>18. ASSUME NEW s \in Signals, on_signal(s)
      PROVE  TypeOK'
  <2>1. inCallback' \in BOOLEAN /\ pc' \in Labels /\ UNCHANGED ret
    BY <1>18 DEF on_signal
  <2>2. m_signal_handlers' \in [Signals -> {"none", "stopped", "once", "repeat"}]
    BY <1>18 DEF on_signal
  <2>3. toRun' \subseteq toRun
    BY <1>18 DEF on_signal
  <2>4. UNCHANGED <<mode, m_run_called, m_is_running, has_pending_callbacks, asyncVars, syncVars,
                    cycleActive, cycleUsed, m_dummy_idle_ref_counter, raised, closing, fresh>>
    BY <1>18 DEF on_signal
  <2> QED
    BY <2>1, <2>2, <2>3, <2>4
<1>19. CASE CheckPending
  BY <1>19 DEF CheckPending
<1>20. CASE ExecutePendingSwap
  BY <1>20 DEF ExecutePendingSwap
<1>21. CASE ExecutePendingCall
  BY <1>21 DEF ExecutePendingCall
<1>22. CASE ExecutePendingDone
  BY <1>22 DEF ExecutePendingDone
<1>23. CASE RunAgain
  BY <1>23 DEF RunAgain
<1>24. CASE RunReturns
  <2>1. m_is_running' \in BOOLEAN /\ pc' \in Labels
    BY <1>24 DEF RunReturns
  <2>2. UNCHANGED <<ret, inCallback, mode, m_run_called, has_pending_callbacks, asyncVars,
                    syncVars, handleVars, toRun, closing, fresh>>
    BY <1>24 DEF RunReturns
  <2> QED
    BY <2>1, <2>2
<1>25. CASE run
  BY <1>25 DEF run
<1>26. CASE finish
  <2>1. m_async_callbacks_queue' \in Seq(Callbacks) /\ m_sync_callbacks_queue' \in Seq(Callbacks)
    BY <1>26 DEF finish
  <2>3. m_signal_handlers' \in [Signals -> {"none", "stopped", "once", "repeat"}]
    BY <1>26 DEF finish
  <2>4. asyncSignal' \in BOOLEAN /\ closing' \in BOOLEAN /\ mode' \in {"run", "once1", "once2"}
    BY <1>26 DEF finish
  <2>5. pc' \in Labels
    BY <1>26 DEF finish
  <2>2. UNCHANGED <<ret, inCallback, m_run_called, m_is_running, has_pending_callbacks,
                    callbacks_queue_copy, sending, asyncExecuted, queue_copy,
                    m_have_active_sync_callbacks, executorActive, syncExecuted, cycleActive,
                    cycleUsed, m_dummy_idle_ref_counter, raised, toRun, fresh>>
    BY <1>26 DEF finish
  <2> QED
    BY <2>1, <2>2, <2>3, <2>4, <2>5
<1>27. ASSUME NEW t \in Threads, ThreadSend(t)
      PROVE  TypeOK'
  BY <1>27 DEF ThreadSend
<1>28. ASSUME NEW t \in Threads, NEW c \in Callbacks, ThreadPush(t, c)
      PROVE  TypeOK'
  BY <1>28 DEF ThreadPush
<1>29. ASSUME NEW s \in Signals, RaiseSignal(s)
      PROVE  TypeOK'
  BY <1>29 DEF RaiseSignal
<1>30. CASE Finished
  BY <1>30 DEF Finished
<1>31. CASE UNCHANGED vars
  BY <1>31
<1> QED
  BY <1>1, <1>2, <1>3, <1>4, <1>5, <1>6, <1>7, <1>8, <1>9, <1>10, <1>11, <1>12, <1>13, <1>14, <1>15, <1>16, <1>17, <1>18, <1>19, <1>20, <1>21, <1>22, <1>23, <1>24, <1>25, <1>26, <1>27, <1>28, <1>29, <1>30, <1>31 DEF Next, LoopStep, UserCall

\* No step loses the wake-up of a posted callback.
LEMMA WakeupInductive == IInv /\ [Next]_vars => NoLostWakeup'
<1> SUFFICES ASSUME IInv, [Next]_vars PROVE NoLostWakeup'
  OBVIOUS
<1> USE ConstantsAssumption DEF IInv, NoLostWakeup, TypeOK, vars, loopVars, asyncVars, syncVars, handleVars, UserCode, At, Goto, Call
<1>1. ASSUME NEW c \in Callbacks, execute_on_loop_thread(c)
      PROVE  NoLostWakeup'
  BY <1>1 DEF execute_on_loop_thread
<1>2. ASSUME NEW c \in Callbacks, schedule_callback(c)
      PROVE  NoLostWakeup'
  BY <1>2 DEF schedule_callback
<1>3. ASSUME NEW h \in CycleHandles, schedule_call_on_each_loop_cycle(h)
      PROVE  NoLostWakeup'
  BY <1>3 DEF schedule_call_on_each_loop_cycle
<1>4. ASSUME NEW h \in CycleHandles, stop_call_on_each_loop_cycle(h)
      PROVE  NoLostWakeup'
  BY <1>4 DEF stop_call_on_each_loop_cycle
<1>5. CASE start_block_loop_from_exit
  BY <1>5 DEF start_block_loop_from_exit
<1>6. CASE stop_block_loop_from_exit
  BY <1>6 DEF stop_block_loop_from_exit
<1>7. ASSUME NEW s \in Signals, remove_signal_handler(s)
      PROVE  NoLostWakeup'
  BY <1>7 DEF remove_signal_handler
<1>8. ASSUME NEW s \in Signals, NEW k \in {"once", "repeat"}, add_signal_handler(s, k)
      PROVE  NoLostWakeup'
  BY <1>8 DEF add_signal_handler
<1>9. CASE CallbackReturns
  BY <1>9 DEF CallbackReturns
<1>10. CASE uv_run
  BY <1>10 DEF uv_run
<1>11. ASSUME NEW h \in CycleHandles, on_idle(h)
      PROVE  NoLostWakeup'
  BY <1>11 DEF on_idle
<1>12. CASE Poll
  BY <1>12 DEF Poll
<1>13. CASE CloseHandles
  BY <1>13 DEF CloseHandles
<1>14. CASE ExecutorSwap
  BY <1>14 DEF ExecutorSwap
<1>15. CASE ExecutorCall
  BY <1>15 DEF ExecutorCall
<1>16. CASE ExecutorDone
  BY <1>16 DEF ExecutorDone
<1>17. CASE on_async
  BY <1>17 DEF on_async
<1>18. ASSUME NEW s \in Signals, on_signal(s)
      PROVE  NoLostWakeup'
  BY <1>18 DEF on_signal
<1>19. CASE CheckPending
  BY <1>19 DEF CheckPending
<1>20. CASE ExecutePendingSwap
  BY <1>20 DEF ExecutePendingSwap
<1>21. CASE ExecutePendingCall
  BY <1>21 DEF ExecutePendingCall
<1>22. CASE ExecutePendingDone
  BY <1>22 DEF ExecutePendingDone
<1>23. CASE RunAgain
  BY <1>23 DEF RunAgain
<1>24. CASE RunReturns
  BY <1>24 DEF RunReturns
<1>25. CASE run
  BY <1>25 DEF run
<1>26. CASE finish
  BY <1>26 DEF finish
<1>27. ASSUME NEW t \in Threads, ThreadSend(t)
      PROVE  NoLostWakeup'
  BY <1>27 DEF ThreadSend
<1>28. ASSUME NEW t \in Threads, NEW c \in Callbacks, ThreadPush(t, c)
      PROVE  NoLostWakeup'
  BY <1>28 DEF ThreadPush
<1>29. ASSUME NEW s \in Signals, RaiseSignal(s)
      PROVE  NoLostWakeup'
  BY <1>29 DEF RaiseSignal
<1>30. CASE Finished
  BY <1>30 DEF Finished
<1>31. CASE UNCHANGED vars
  BY <1>31
<1> QED
  BY <1>1, <1>2, <1>3, <1>4, <1>5, <1>6, <1>7, <1>8, <1>9, <1>10, <1>11, <1>12, <1>13, <1>14, <1>15, <1>16, <1>17, <1>18, <1>19, <1>20, <1>21, <1>22, <1>23, <1>24, <1>25, <1>26, <1>27, <1>28, <1>29, <1>30, <1>31 DEF Next, LoopStep, UserCall

\* No step separates the executor's handle from its flag and its queue.
LEMMA ExecutorInductive == IInv /\ [Next]_vars => ExecutorArmed'
<1> SUFFICES ASSUME IInv, [Next]_vars PROVE ExecutorArmed'
  OBVIOUS
<1> USE ConstantsAssumption DEF IInv, ExecutorArmed, Phases, TypeOK, vars, loopVars, asyncVars, syncVars, handleVars, UserCode, At, Goto, Call
<1>1. ASSUME NEW c \in Callbacks, execute_on_loop_thread(c)
      PROVE  ExecutorArmed'
  BY <1>1 DEF execute_on_loop_thread
<1>2. ASSUME NEW c \in Callbacks, schedule_callback(c)
      PROVE  ExecutorArmed'
  BY <1>2 DEF schedule_callback
<1>3. ASSUME NEW h \in CycleHandles, schedule_call_on_each_loop_cycle(h)
      PROVE  ExecutorArmed'
  BY <1>3 DEF schedule_call_on_each_loop_cycle
<1>4. ASSUME NEW h \in CycleHandles, stop_call_on_each_loop_cycle(h)
      PROVE  ExecutorArmed'
  BY <1>4 DEF stop_call_on_each_loop_cycle
<1>5. CASE start_block_loop_from_exit
  BY <1>5 DEF start_block_loop_from_exit
<1>6. CASE stop_block_loop_from_exit
  BY <1>6 DEF stop_block_loop_from_exit
<1>7. ASSUME NEW s \in Signals, remove_signal_handler(s)
      PROVE  ExecutorArmed'
  BY <1>7 DEF remove_signal_handler
<1>8. ASSUME NEW s \in Signals, NEW k \in {"once", "repeat"}, add_signal_handler(s, k)
      PROVE  ExecutorArmed'
  BY <1>8 DEF add_signal_handler
<1>9. CASE CallbackReturns
  BY <1>9 DEF CallbackReturns
<1>10. CASE uv_run
  BY <1>10 DEF uv_run
<1>11. ASSUME NEW h \in CycleHandles, on_idle(h)
      PROVE  ExecutorArmed'
  BY <1>11 DEF on_idle
<1>12. CASE Poll
  BY <1>12 DEF Poll
<1>13. CASE CloseHandles
  BY <1>13 DEF CloseHandles
<1>14. CASE ExecutorSwap
  BY <1>14 DEF ExecutorSwap
<1>15. CASE ExecutorCall
  BY <1>15 DEF ExecutorCall
<1>16. CASE ExecutorDone
  BY <1>16 DEF ExecutorDone
<1>17. CASE on_async
  BY <1>17 DEF on_async
<1>18. ASSUME NEW s \in Signals, on_signal(s)
      PROVE  ExecutorArmed'
  BY <1>18 DEF on_signal
<1>19. CASE CheckPending
  BY <1>19 DEF CheckPending
<1>20. CASE ExecutePendingSwap
  BY <1>20 DEF ExecutePendingSwap
<1>21. CASE ExecutePendingCall
  BY <1>21 DEF ExecutePendingCall
<1>22. CASE ExecutePendingDone
  BY <1>22 DEF ExecutePendingDone
<1>23. CASE RunAgain
  BY <1>23 DEF RunAgain
<1>24. CASE RunReturns
  BY <1>24 DEF RunReturns
<1>25. CASE run
  BY <1>25 DEF run
<1>26. CASE finish
  BY <1>26 DEF finish
<1>27. ASSUME NEW t \in Threads, ThreadSend(t)
      PROVE  ExecutorArmed'
  BY <1>27 DEF ThreadSend
<1>28. ASSUME NEW t \in Threads, NEW c \in Callbacks, ThreadPush(t, c)
      PROVE  ExecutorArmed'
  BY <1>28 DEF ThreadPush
<1>29. ASSUME NEW s \in Signals, RaiseSignal(s)
      PROVE  ExecutorArmed'
  BY <1>29 DEF RaiseSignal
<1>30. CASE Finished
  BY <1>30 DEF Finished
<1>31. CASE UNCHANGED vars
  BY <1>31
<1> QED
  BY <1>1, <1>2, <1>3, <1>4, <1>5, <1>6, <1>7, <1>8, <1>9, <1>10, <1>11, <1>12, <1>13, <1>14, <1>15, <1>16, <1>17, <1>18, <1>19, <1>20, <1>21, <1>22, <1>23, <1>24, <1>25, <1>26, <1>27, <1>28, <1>29, <1>30, <1>31 DEF Next, LoopStep, UserCall

\* No step leaves the order of the phases.
LEMMA PhasesInductive == IInv /\ [Next]_vars => Phases'
<1> SUFFICES ASSUME IInv, [Next]_vars PROVE Phases'
  OBVIOUS
<1> USE ConstantsAssumption DEF IInv, ExecutorArmed, Phases, TypeOK, vars, loopVars, asyncVars, syncVars, handleVars, UserCode, At, Goto, Call
<1>1. ASSUME NEW c \in Callbacks, execute_on_loop_thread(c)
      PROVE  Phases'
  BY <1>1 DEF execute_on_loop_thread
<1>2. ASSUME NEW c \in Callbacks, schedule_callback(c)
      PROVE  Phases'
  BY <1>2 DEF schedule_callback
<1>3. ASSUME NEW h \in CycleHandles, schedule_call_on_each_loop_cycle(h)
      PROVE  Phases'
  BY <1>3 DEF schedule_call_on_each_loop_cycle
<1>4. ASSUME NEW h \in CycleHandles, stop_call_on_each_loop_cycle(h)
      PROVE  Phases'
  BY <1>4 DEF stop_call_on_each_loop_cycle
<1>5. CASE start_block_loop_from_exit
  BY <1>5 DEF start_block_loop_from_exit
<1>6. CASE stop_block_loop_from_exit
  BY <1>6 DEF stop_block_loop_from_exit
<1>7. ASSUME NEW s \in Signals, remove_signal_handler(s)
      PROVE  Phases'
  BY <1>7 DEF remove_signal_handler
<1>8. ASSUME NEW s \in Signals, NEW k \in {"once", "repeat"}, add_signal_handler(s, k)
      PROVE  Phases'
  BY <1>8 DEF add_signal_handler
<1>9. CASE CallbackReturns
  BY <1>9 DEF CallbackReturns
<1>10. CASE uv_run
  BY <1>10 DEF uv_run
<1>11. ASSUME NEW h \in CycleHandles, on_idle(h)
      PROVE  Phases'
  BY <1>11 DEF on_idle
<1>12. CASE Poll
  BY <1>12 DEF Poll
<1>13. CASE CloseHandles
  BY <1>13 DEF CloseHandles
<1>14. CASE ExecutorSwap
  BY <1>14 DEF ExecutorSwap
<1>15. CASE ExecutorCall
  BY <1>15 DEF ExecutorCall
<1>16. CASE ExecutorDone
  BY <1>16 DEF ExecutorDone
<1>17. CASE on_async
  BY <1>17 DEF on_async
<1>18. ASSUME NEW s \in Signals, on_signal(s)
      PROVE  Phases'
  BY <1>18 DEF on_signal
<1>19. CASE CheckPending
  BY <1>19 DEF CheckPending
<1>20. CASE ExecutePendingSwap
  BY <1>20 DEF ExecutePendingSwap
<1>21. CASE ExecutePendingCall
  BY <1>21 DEF ExecutePendingCall
<1>22. CASE ExecutePendingDone
  BY <1>22 DEF ExecutePendingDone
<1>23. CASE RunAgain
  BY <1>23 DEF RunAgain
<1>24. CASE RunReturns
  BY <1>24 DEF RunReturns
<1>25. CASE run
  BY <1>25 DEF run
<1>26. CASE finish
  BY <1>26 DEF finish
<1>27. ASSUME NEW t \in Threads, ThreadSend(t)
      PROVE  Phases'
  BY <1>27 DEF ThreadSend
<1>28. ASSUME NEW t \in Threads, NEW c \in Callbacks, ThreadPush(t, c)
      PROVE  Phases'
  BY <1>28 DEF ThreadPush
<1>29. ASSUME NEW s \in Signals, RaiseSignal(s)
      PROVE  Phases'
  BY <1>29 DEF RaiseSignal
<1>30. CASE Finished
  BY <1>30 DEF Finished
<1>31. CASE UNCHANGED vars
  BY <1>31
<1> QED
  BY <1>1, <1>2, <1>3, <1>4, <1>5, <1>6, <1>7, <1>8, <1>9, <1>10, <1>11, <1>12, <1>13, <1>14, <1>15, <1>16, <1>17, <1>18, <1>19, <1>20, <1>21, <1>22, <1>23, <1>24, <1>25, <1>26, <1>27, <1>28, <1>29, <1>30, <1>31 DEF Next, LoopStep, UserCall

\* The inductive invariant holds in every reachable state.
THEOREM Invariance == Spec => []IInv
<1>1. Init => IInv
  <2> SUFFICES ASSUME Init PROVE IInv
    OBVIOUS
  <2>1. m_signal_handlers \in [Signals -> {"none", "stopped", "once", "repeat"}]
    BY DEF Init
  <2>2. TypeOK
    <3>1. /\ pc \in Labels /\ ret \in {"dispatch", "again"} /\ mode \in {"run", "once1", "once2"}
          /\ m_dummy_idle_ref_counter \in -MaxBlock..MaxBlock
      BY ConstantsAssumption DEF Init, Labels
    <3>2. /\ m_async_callbacks_queue \in Seq(Callbacks) /\ callbacks_queue_copy \in Seq(Callbacks)
          /\ asyncExecuted \in Seq(Callbacks) /\ syncExecuted \in Seq(Callbacks)
          /\ m_sync_callbacks_queue \in Seq(Callbacks) /\ queue_copy \in Seq(Callbacks)
      BY DEF Init
    <3>3. /\ inCallback \in BOOLEAN /\ m_run_called \in BOOLEAN /\ m_is_running \in BOOLEAN
          /\ has_pending_callbacks \in BOOLEAN /\ asyncSignal \in BOOLEAN
          /\ m_have_active_sync_callbacks \in BOOLEAN /\ executorActive \in BOOLEAN
          /\ closing \in BOOLEAN
      BY Zenon DEF Init
    <3>4. /\ sending \subseteq Threads /\ cycleActive \subseteq CycleHandles
          /\ cycleUsed \subseteq CycleHandles /\ raised \subseteq Signals
          /\ toRun \subseteq CycleHandles \cup Signals \cup {"executor", "async"}
          /\ fresh \subseteq Callbacks
      BY DEF Init
    <3> QED
      BY <2>1, <3>1, <3>2, <3>3, <3>4 DEF TypeOK
  <2>3. NoLostWakeup /\ ExecutorArmed
    BY DEF Init, NoLostWakeup, ExecutorArmed
  <2>4. Phases
    BY DEF Init, Phases
  <2> QED
    BY <2>2, <2>3, <2>4 DEF IInv
<1>2. IInv /\ [Next]_vars => IInv'
  BY TypeInductive, WakeupInductive, ExecutorInductive, PhasesInductive DEF IInv
<1> QED
  BY <1>1, <1>2, PTL DEF Spec

\* Every variable of EventLoop::Impl keeps its type.
THEOREM TypeCorrect == Spec => []TypeOK
BY Invariance, PTL DEF IInv

\* execute_on_loop_thread never loses the wake-up of a callback, for any
\* number of threads and callbacks.
THEOREM NoWakeupIsLost == Spec => []NoLostWakeup
BY Invariance, PTL DEF IInv

\* schedule_callback always leaves a live executor behind, and the copy an
\* executor works off is never overwritten.
THEOREM ExecutorStaysArmed == Spec => []ExecutorArmed
BY Invariance, PTL DEF IInv

\* Appending to the right part of a concatenation.
LEMMA AppendRight ==
  ASSUME NEW S, NEW a \in Seq(S), NEW b \in Seq(S), NEW c \in S
  PROVE  a \o Append(b, c) = Append(a \o b, c)
OBVIOUS

\* Taking the head of the left part of a concatenation.
LEMMA HeadLeft ==
  ASSUME NEW S, NEW a \in Seq(S), NEW b \in Seq(S), a # <<>>
  PROVE  /\ a \o b # <<>>
         /\ Head(a \o b) = Head(a)
         /\ Tail(a \o b) = Tail(a) \o b
OBVIOUS

\* The empty sequence is neutral on both sides.
LEMMA EmptyNeutral ==
  ASSUME NEW S, NEW a \in Seq(S)
  PROVE  a \o <<>> = a /\ <<>> \o a = a
OBVIOUS

\* Every step is a step of the queue of posted callbacks or leaves it alone.
LEMMA AsyncFifoStep == IInv /\ [Next]_vars => [AsyncFifo!Next]_(AsyncFifo!vars)
<1> SUFFICES ASSUME IInv, [Next]_vars PROVE [AsyncFifo!Next]_(AsyncFifo!vars)
  OBVIOUS
<1>0. /\ callbacks_queue_copy \in Seq(Callbacks) /\ m_async_callbacks_queue \in Seq(Callbacks)
      /\ callbacks_queue_copy # <<>> => pc = "callbacks"
      /\ pc = "outside" => mode = "run"
  BY DEF IInv, TypeOK, ExecutorArmed, Phases
<1> USE DEF vars, loopVars, asyncVars, syncVars, handleVars, At, Goto, Call, AsyncFifo!vars
<1>1. ASSUME NEW c \in Callbacks, execute_on_loop_thread(c)
      PROVE  [AsyncFifo!Next]_(AsyncFifo!vars)
  <2>1. /\ m_async_callbacks_queue' = Append(m_async_callbacks_queue, c)
        /\ UNCHANGED <<callbacks_queue_copy, asyncExecuted, mode>>
    BY <1>1 DEF execute_on_loop_thread
  <2>2. callbacks_queue_copy \o Append(m_async_callbacks_queue, c)
          = Append(callbacks_queue_copy \o m_async_callbacks_queue, c)
    BY <1>0, AppendRight
  <2>3. AsyncFifo!Post(c)
    BY <2>1, <2>2 DEF AsyncFifo!Post
  <2> QED
    BY <2>3 DEF AsyncFifo!Next
<1>2. ASSUME NEW c \in Callbacks, schedule_callback(c)
      PROVE  [AsyncFifo!Next]_(AsyncFifo!vars)
  BY <1>2 DEF schedule_callback
<1>3. ASSUME NEW h \in CycleHandles, schedule_call_on_each_loop_cycle(h)
      PROVE  [AsyncFifo!Next]_(AsyncFifo!vars)
  BY <1>3 DEF schedule_call_on_each_loop_cycle
<1>4. ASSUME NEW h \in CycleHandles, stop_call_on_each_loop_cycle(h)
      PROVE  [AsyncFifo!Next]_(AsyncFifo!vars)
  BY <1>4 DEF stop_call_on_each_loop_cycle
<1>5. CASE start_block_loop_from_exit
  BY <1>5 DEF start_block_loop_from_exit
<1>6. CASE stop_block_loop_from_exit
  BY <1>6 DEF stop_block_loop_from_exit
<1>7. ASSUME NEW s \in Signals, remove_signal_handler(s)
      PROVE  [AsyncFifo!Next]_(AsyncFifo!vars)
  BY <1>7 DEF remove_signal_handler
<1>8. ASSUME NEW s \in Signals, NEW k \in {"once", "repeat"}, add_signal_handler(s, k)
      PROVE  [AsyncFifo!Next]_(AsyncFifo!vars)
  BY <1>8 DEF add_signal_handler
<1>9. CASE CallbackReturns
  BY <1>9 DEF CallbackReturns
<1>10. CASE uv_run
  BY <1>10 DEF uv_run
<1>11. ASSUME NEW h \in CycleHandles, on_idle(h)
      PROVE  [AsyncFifo!Next]_(AsyncFifo!vars)
  BY <1>11 DEF on_idle
<1>12. CASE Poll
  BY <1>12 DEF Poll
<1>13. CASE CloseHandles
  BY <1>13 DEF CloseHandles
<1>14. CASE ExecutorSwap
  BY <1>14 DEF ExecutorSwap
<1>15. CASE ExecutorCall
  BY <1>15 DEF ExecutorCall
<1>16. CASE ExecutorDone
  BY <1>16 DEF ExecutorDone
<1>17. CASE on_async
  BY <1>17 DEF on_async
<1>18. ASSUME NEW s \in Signals, on_signal(s)
      PROVE  [AsyncFifo!Next]_(AsyncFifo!vars)
  BY <1>18 DEF on_signal
<1>19. CASE CheckPending
  BY <1>19 DEF CheckPending
<1>20. CASE ExecutePendingSwap
  BY <1>0, <1>20, EmptyNeutral DEF ExecutePendingSwap
<1>21. CASE ExecutePendingCall
  <2>1. AsyncFifo!Execute
    BY <1>0, <1>21, HeadLeft DEF ExecutePendingCall, AsyncFifo!Execute
  <2> QED
    BY <2>1 DEF AsyncFifo!Next
<1>22. CASE ExecutePendingDone
  BY <1>22 DEF ExecutePendingDone
<1>23. CASE RunAgain
  BY <1>23 DEF RunAgain
<1>24. CASE RunReturns
  BY <1>24 DEF RunReturns
<1>25. CASE run
  BY <1>25 DEF run
<1>26. CASE finish
  <2>1. AsyncFifo!Destroy
    BY <1>0, <1>26, EmptyNeutral DEF finish, AsyncFifo!Destroy
  <2> QED
    BY <2>1 DEF AsyncFifo!Next
<1>27. ASSUME NEW t \in Threads, ThreadSend(t)
      PROVE  [AsyncFifo!Next]_(AsyncFifo!vars)
  BY <1>27 DEF ThreadSend
<1>28. ASSUME NEW t \in Threads, NEW c \in Callbacks, ThreadPush(t, c)
      PROVE  [AsyncFifo!Next]_(AsyncFifo!vars)
  <2>1. /\ m_async_callbacks_queue' = Append(m_async_callbacks_queue, c)
        /\ UNCHANGED <<callbacks_queue_copy, asyncExecuted, mode>>
    BY <1>28 DEF ThreadPush
  <2>2. callbacks_queue_copy \o Append(m_async_callbacks_queue, c)
          = Append(callbacks_queue_copy \o m_async_callbacks_queue, c)
    BY <1>0, AppendRight
  <2>3. AsyncFifo!Post(c)
    BY <2>1, <2>2 DEF AsyncFifo!Post
  <2> QED
    BY <2>3 DEF AsyncFifo!Next
<1>29. ASSUME NEW s \in Signals, RaiseSignal(s)
      PROVE  [AsyncFifo!Next]_(AsyncFifo!vars)
  BY <1>29 DEF RaiseSignal
<1>30. CASE Finished
  BY <1>30 DEF Finished
<1>31. CASE UNCHANGED vars
  BY <1>31
<1> QED
  BY <1>1, <1>2, <1>3, <1>4, <1>5, <1>6, <1>7, <1>8, <1>9, <1>10, <1>11, <1>12, <1>13, <1>14, <1>15, <1>16, <1>17, <1>18, <1>19, <1>20, <1>21, <1>22, <1>23, <1>24, <1>25, <1>26, <1>27, <1>28, <1>29, <1>30, <1>31 DEF Next, LoopStep, UserCall

\* The callbacks of execute_on_loop_thread are called once each and in the order
\* of their pushes, for any number of threads: EventLoop implements CallbackFifo.
THEOREM AsyncImplementsFifo == Spec => AsyncFifo!Spec
<1>1. Init => AsyncFifo!Init
  BY EmptyNeutral DEF Init, AsyncFifo!Init
<1> QED
  BY <1>1, AsyncFifoStep, Invariance, PTL DEF Spec, AsyncFifo!Spec

\* Every step is a step of the queue of scheduled callbacks or leaves it alone.
LEMMA SyncFifoStep == IInv /\ [Next]_vars => [SyncFifo!Next]_(SyncFifo!vars)
<1> SUFFICES ASSUME IInv, [Next]_vars PROVE [SyncFifo!Next]_(SyncFifo!vars)
  OBVIOUS
<1>0. /\ queue_copy \in Seq(Callbacks) /\ m_sync_callbacks_queue \in Seq(Callbacks)
      /\ queue_copy # <<>> => pc = "executor"
      /\ pc = "outside" => mode = "run"
  BY DEF IInv, TypeOK, ExecutorArmed, Phases
<1> USE DEF vars, loopVars, asyncVars, syncVars, handleVars, At, Goto, Call, SyncFifo!vars
<1>1. ASSUME NEW c \in Callbacks, execute_on_loop_thread(c)
      PROVE  [SyncFifo!Next]_(SyncFifo!vars)
  BY <1>1 DEF execute_on_loop_thread
<1>2. ASSUME NEW c \in Callbacks, schedule_callback(c)
      PROVE  [SyncFifo!Next]_(SyncFifo!vars)
  <2>1. /\ m_sync_callbacks_queue' = Append(m_sync_callbacks_queue, c)
        /\ UNCHANGED <<queue_copy, syncExecuted, mode>>
    BY <1>2 DEF schedule_callback
  <2>2. queue_copy \o Append(m_sync_callbacks_queue, c)
          = Append(queue_copy \o m_sync_callbacks_queue, c)
    BY <1>0, AppendRight
  <2>3. SyncFifo!Post(c)
    BY <2>1, <2>2 DEF SyncFifo!Post
  <2> QED
    BY <2>3 DEF SyncFifo!Next
<1>3. ASSUME NEW h \in CycleHandles, schedule_call_on_each_loop_cycle(h)
      PROVE  [SyncFifo!Next]_(SyncFifo!vars)
  BY <1>3 DEF schedule_call_on_each_loop_cycle
<1>4. ASSUME NEW h \in CycleHandles, stop_call_on_each_loop_cycle(h)
      PROVE  [SyncFifo!Next]_(SyncFifo!vars)
  BY <1>4 DEF stop_call_on_each_loop_cycle
<1>5. CASE start_block_loop_from_exit
  BY <1>5 DEF start_block_loop_from_exit
<1>6. CASE stop_block_loop_from_exit
  BY <1>6 DEF stop_block_loop_from_exit
<1>7. ASSUME NEW s \in Signals, remove_signal_handler(s)
      PROVE  [SyncFifo!Next]_(SyncFifo!vars)
  BY <1>7 DEF remove_signal_handler
<1>8. ASSUME NEW s \in Signals, NEW k \in {"once", "repeat"}, add_signal_handler(s, k)
      PROVE  [SyncFifo!Next]_(SyncFifo!vars)
  BY <1>8 DEF add_signal_handler
<1>9. CASE CallbackReturns
  BY <1>9 DEF CallbackReturns
<1>10. CASE uv_run
  BY <1>10 DEF uv_run
<1>11. ASSUME NEW h \in CycleHandles, on_idle(h)
      PROVE  [SyncFifo!Next]_(SyncFifo!vars)
  BY <1>11 DEF on_idle
<1>12. CASE Poll
  BY <1>12 DEF Poll
<1>13. CASE CloseHandles
  BY <1>13 DEF CloseHandles
<1>14. CASE ExecutorSwap
  BY <1>0, <1>14, EmptyNeutral DEF ExecutorSwap
<1>15. CASE ExecutorCall
  <2>1. SyncFifo!Execute
    BY <1>0, <1>15, HeadLeft DEF ExecutorCall, SyncFifo!Execute
  <2> QED
    BY <2>1 DEF SyncFifo!Next
<1>16. CASE ExecutorDone
  BY <1>16 DEF ExecutorDone
<1>17. CASE on_async
  BY <1>17 DEF on_async
<1>18. ASSUME NEW s \in Signals, on_signal(s)
      PROVE  [SyncFifo!Next]_(SyncFifo!vars)
  BY <1>18 DEF on_signal
<1>19. CASE CheckPending
  BY <1>19 DEF CheckPending
<1>20. CASE ExecutePendingSwap
  BY <1>20 DEF ExecutePendingSwap
<1>21. CASE ExecutePendingCall
  BY <1>21 DEF ExecutePendingCall
<1>22. CASE ExecutePendingDone
  BY <1>22 DEF ExecutePendingDone
<1>23. CASE RunAgain
  BY <1>23 DEF RunAgain
<1>24. CASE RunReturns
  BY <1>24 DEF RunReturns
<1>25. CASE run
  BY <1>25 DEF run
<1>26. CASE finish
  <2>1. SyncFifo!Destroy
    BY <1>0, <1>26, EmptyNeutral DEF finish, SyncFifo!Destroy
  <2> QED
    BY <2>1 DEF SyncFifo!Next
<1>27. ASSUME NEW t \in Threads, ThreadSend(t)
      PROVE  [SyncFifo!Next]_(SyncFifo!vars)
  BY <1>27 DEF ThreadSend
<1>28. ASSUME NEW t \in Threads, NEW c \in Callbacks, ThreadPush(t, c)
      PROVE  [SyncFifo!Next]_(SyncFifo!vars)
  BY <1>28 DEF ThreadPush
<1>29. ASSUME NEW s \in Signals, RaiseSignal(s)
      PROVE  [SyncFifo!Next]_(SyncFifo!vars)
  BY <1>29 DEF RaiseSignal
<1>30. CASE Finished
  BY <1>30 DEF Finished
<1>31. CASE UNCHANGED vars
  BY <1>31
<1> QED
  BY <1>1, <1>2, <1>3, <1>4, <1>5, <1>6, <1>7, <1>8, <1>9, <1>10, <1>11, <1>12, <1>13, <1>14, <1>15, <1>16, <1>17, <1>18, <1>19, <1>20, <1>21, <1>22, <1>23, <1>24, <1>25, <1>26, <1>27, <1>28, <1>29, <1>30, <1>31 DEF Next, LoopStep, UserCall

\* The callbacks of schedule_callback are called once each and in order:
\* EventLoop implements CallbackFifo a second time.
THEOREM SyncImplementsFifo == Spec => SyncFifo!Spec
<1>1. Init => SyncFifo!Init
  BY EmptyNeutral DEF Init, SyncFifo!Init
<1> QED
  BY <1>1, SyncFifoStep, Invariance, PTL DEF Spec, SyncFifo!Spec

\* Both callback queues of EventLoop::Impl are FIFO queues.
THEOREM ImplementsFifos == Spec => CallbacksInOrder
  BY AsyncImplementsFifo, SyncImplementsFifo DEF CallbacksInOrder
=============================================================================
