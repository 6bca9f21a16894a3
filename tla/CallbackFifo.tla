---------------------------- MODULE CallbackFifo ----------------------------
(***************************************************************************)
(* What a callback queue of the event loop promises its users: a callback  *)
(* that was handed over is called once, after the ones handed over before  *)
(* it; only the destruction of the loop, which happens once, discards the  *)
(* ones that are left.  EventLoop implements it twice: the callbacks of    *)
(* execute_on_loop_thread and the callbacks of schedule_callback.          *)
(***************************************************************************)
EXTENDS Sequences

CONSTANT Callbacks

VARIABLES pending,    \* handed over, not called yet
          executed,   \* called, in the order of the calls
          closed      \* the loop is being destroyed

vars == <<pending, executed, closed>>

Init == pending = <<>> /\ executed = <<>> /\ closed = FALSE

Post(c) == /\ pending' = Append(pending, c)
           /\ UNCHANGED <<executed, closed>>

Execute == /\ pending # <<>>
           /\ executed' = Append(executed, Head(pending))
           /\ pending' = Tail(pending)
           /\ UNCHANGED closed

Destroy == /\ ~closed
           /\ closed' = TRUE
           /\ pending' = <<>>
           /\ UNCHANGED executed

Next == (\E c \in Callbacks : Post(c)) \/ Execute \/ Destroy

Spec == Init /\ [][Next]_vars
=============================================================================
