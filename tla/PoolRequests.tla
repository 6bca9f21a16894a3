---------------------------- MODULE PoolRequests ----------------------------
(***************************************************************************)
(* Requests that are one call, one answer of the thread pool and one       *)
(* callback: stat, resolve_host and make_temp_dir.  The first two may be   *)
(* called before the loop runs and are deferred then.  A request object    *)
(* lives until its callback has returned.                                  *)
(***************************************************************************)
EXTENDS LoopPhases

CONSTANT MaxRequests   \* bound on the calls

ASSUME PoolRequestsAssumption == MaxRequests \in Nat

VARIABLES
  is_running,   \* of the loop
  request       \* of each call: its kind, whether it has a callback, its state and
                \* how often the callback was called

requestVars == <<is_running, request>>

Requests == 1..MaxRequests
Kinds == {"stat", "resolve_host", "make_temp_dir"}

\* made: the program makes these calls, before the loop runs or when it does.
RequestInit(made) ==
  /\ is_running = ~made
  /\ request = [r \in Requests |-> [kind |-> "stat", callback |-> FALSE, calls |-> 0,
                                    state |-> IF made THEN "none" ELSE "absent"]]

Deferred(r) == Item("deferred_request", r)
Answering(r) == Item("answer", r)

run == /\ ~is_running
       /\ is_running' = TRUE
       /\ UNCHANGED <<loopVars, request>>

CallbackCalled(q) == [q EXCEPT !.calls = IF q.callback THEN @ + 1 ELSE @]

\* stat_impl, resolve_host_impl and make_temp_dir: libuv takes the request or
\* fails at once; then the callback is called, and the request deleted.
impl(q, fails) == IF fails THEN [CallbackCalled(q) EXCEPT !.state = "deleted"]
                  ELSE [q EXCEPT !.state = "pool"]

\* User code calls before the loop runs, between two of its events or in a callback.
\* resolve_host is given a callback, which on_getaddrinfo calls without looking.
defer_execution_if_required(r, kind, callback, fails) ==
  LET q == [request[r] EXCEPT !.kind = kind, !.callback = callback]
  IN  /\ request[r].state = "none" /\ \A s \in 1..(r - 1) : request[s].state # "none"
      /\ Idling("poll") \/ \E s \in Requests : inCallback = Answering(s)
      /\ kind = "resolve_host" => callback
      /\ IF is_running \/ kind = "make_temp_dir"
         THEN request' = [request EXCEPT ![r] = impl(q, fails)] /\ UNCHANGED scheduled
         ELSE /\ request' = [request EXCEPT ![r] = [q EXCEPT !.state = "deferred"]]
              /\ scheduled' = scheduled \cup {Deferred(r)}
      /\ UNCHANGED <<phase, jobs, closeRequests, closing, inCallback, is_running>>

DeferredCall(r, fails) ==
  /\ Idling("idle") /\ Deferred(r) \in jobs
  /\ jobs' = jobs \ {Deferred(r)}
  /\ request' = [request EXCEPT ![r] = impl(@, fails)]
  /\ UNCHANGED <<phase, scheduled, closeRequests, closing, inCallback, is_running>>

\* on_stat, on_getaddrinfo and on_make_temp_dir: the callback is called, ...
on_answer(r) ==
  /\ is_running /\ Idling("poll") /\ request[r].state = "pool"
  /\ IF request[r].callback
     THEN inCallback' = Answering(r) /\ request' = [request EXCEPT ![r] = CallbackCalled(@)]
     ELSE request' = [request EXCEPT ![r].state = "deleted"] /\ UNCHANGED inCallback
  /\ UNCHANGED <<phase, scheduled, jobs, closeRequests, closing, is_running>>

\* ... and when it has returned, the request is deleted.
AnswerReturns(r) ==
  /\ inCallback = Answering(r)
  /\ inCallback' = NotInCallback
  /\ request' = [request EXCEPT ![r].state = "deleted"]
  /\ UNCHANGED <<phase, scheduled, jobs, closeRequests, closing, is_running>>

RequestCall == \E r \in Requests, kind \in Kinds, callback, fails \in BOOLEAN :
                 defer_execution_if_required(r, kind, callback, fails)
RequestStep == \E r \in Requests : AnswerReturns(r) \/ \E fails \in BOOLEAN : DeferredCall(r, fails)
RequestAnswer == \E r \in Requests : on_answer(r)

\* The callback of a request, if it has one, is called once, by a request that is
\* still there, and for a deferred request only when the loop runs.
AnsweredOnce(r) ==
  LET q == request[r]
  IN  /\ q.calls = IF q.callback /\ (q.state = "deleted" \/ inCallback = Answering(r)) THEN 1 ELSE 0
      /\ inCallback = Answering(r) => q.state = "pool"
      /\ ~is_running /\ q.state \in {"pool", "deleted"} => q.kind = "make_temp_dir"
=============================================================================
