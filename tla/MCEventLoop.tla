---------------------------- MODULE MCEventLoop -----------------------------
(***************************************************************************)
(* EventLoop for TLC, with a history variable that tells whether another   *)
(* thread posted a callback in the window that run() leaves open between   *)
(* its test of the queue and the swap in execute_pending_callbacks.        *)
(***************************************************************************)
EXTENDS EventLoop, TLC

VARIABLE late

\* Symmetry of the run that checks no liveness.
Symmetry == Permutations(Callbacks) \cup Permutations(Threads)

InWindow == pc = "execute_pending" /\ ret = "again"

MCInit == Init /\ late = FALSE
MCNext == Next /\ late' = IF InWindow THEN late \/ m_async_callbacks_queue' \notin {m_async_callbacks_queue, <<>>}
                          ELSE late /\ pc # "pending"
MCSpec == MCInit /\ [][MCNext]_<<vars, late>>
MCFairSpec == MCSpec /\ WF_vars(LoopStep) /\ \A t \in Threads : WF_vars(ThreadSend(t))

\* run() returns only when nothing is left to do, the window excepted: no
\* started handle, block, signal handler or scheduled callback is left behind,
\* through every nesting of callbacks that post and schedule.
ReturnsIdleUnlessLate == ~late => ReturnsOnlyWhenIdle
=============================================================================
