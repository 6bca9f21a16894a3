----------------------------- MODULE LoopPhases -----------------------------
(***************************************************************************)
(* The iteration of the event loop as the objects that live on it see it:  *)
(* a poll phase in which I/O events arrive, a closing phase in which the   *)
(* close callbacks of the handles given to uv_close before it are called,  *)
(* and an idle phase in which the callbacks scheduled on the loop before   *)
(* it, and the idle handles of Removable, are called.  EventLoop and       *)
(* Removable model the mechanisms behind the idle phase in detail; here    *)
(* only the phase in which something runs matters.  A handle and a         *)
(* scheduled callback are records with a kind and an id, and those of one  *)
(* phase run in any order.                                                 *)
(***************************************************************************)
EXTENDS Naturals, FiniteSets

VARIABLES
  phase,
  scheduled,       \* callbacks for the next idle phase
  jobs,            \* callbacks the current idle phase has still to call
  closeRequests,   \* handles for the next closing phase
  closing,         \* handles the current closing phase has still to call
  inCallback       \* the user's callback the loop thread is in

loopVars == <<phase, scheduled, jobs, closeRequests, closing, inCallback>>

Item(kind, id) == [kind |-> kind, id |-> id]
NotInCallback == Item("none", 0)

LoopInit == /\ phase = "poll" /\ inCallback = NotInCallback
            /\ scheduled = {} /\ jobs = {} /\ closeRequests = {} /\ closing = {}

\* The loop thread is in the phase and in no callback.
Idling(p) == phase = p /\ inCallback = NotInCallback

BeginClosing ==
  /\ Idling("poll")
  /\ phase' = "closing"
  /\ closing' = closeRequests /\ closeRequests' = {}
  /\ UNCHANGED <<scheduled, jobs, inCallback>>

BeginIdle ==
  /\ Idling("closing") /\ closing = {}
  /\ phase' = "idle"
  /\ jobs' = scheduled /\ scheduled' = {}
  /\ UNCHANGED <<closeRequests, closing, inCallback>>

BeginPoll ==
  /\ Idling("idle") /\ jobs = {}
  /\ phase' = "poll"
  /\ UNCHANGED <<scheduled, jobs, closeRequests, closing, inCallback>>

LoopTypeOK == /\ phase \in {"poll", "closing", "idle"}
              /\ phase # "idle" => jobs = {}
              /\ phase # "closing" => closing = {}
=============================================================================
