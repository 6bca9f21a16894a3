--------------------------- MODULE EventLoopWork ----------------------------
(***************************************************************************)
(* EventLoop::add_work and cancel_work: a work is scheduled on the loop    *)
(* thread, handed to libuv's thread pool, run by a pool thread and         *)
(* reported back on the loop thread, where it is deleted.  cancel_work is  *)
(* called on the loop thread and races with the pool threads.  The order   *)
(* in which the loop and the pool pick works is left open.                 *)
(***************************************************************************)
EXTENDS Naturals, Sequences

CONSTANTS Works,     \* handles returned by add_work, each used once
          Workers,   \* threads of libuv's pool
          NoWork

ASSUME NoWorkAssumption == NoWork \notin Works

VARIABLES
  running,      \* uv_run is on the loop thread's stack
  state,        \* where each work is
  cancelled,    \* works with WorkBase::cancelled set
  queued,       \* works with WorkBase::queued set
  cancelling,   \* the work cancel_work has marked but not yet dealt with
  status,       \* what libuv will pass to on_after_work
  worker,       \* what each pool thread is busy with
  executed,     \* history: works whose work callback was called
  reply,        \* history: what cancel_work returned, OK once it ever was
  posted,       \* works whose report on_work posted to the loop thread
  done,         \* history: the calls of each work's done callback
  crashed       \* the process died of undefined behaviour

vars == <<running, state, cancelled, queued, cancelling, status, worker, executed,
          reply, posted, done, crashed>>

States == {"none", "scheduled", "pooled", "taken", "working", "after", "freed"}

Init == /\ running = FALSE
        /\ state = [w \in Works |-> "none"]
        /\ cancelled = {} /\ queued = {} /\ cancelling = NoWork
        /\ status = [w \in Works |-> "OK"]
        /\ worker = [k \in Workers |-> NoWork]
        /\ executed = {}
        /\ reply = [w \in Works |-> "none"]
        /\ posted = {} /\ done = [w \in Works |-> <<>>]
        /\ crashed = FALSE

\* The loop thread is free to enter user code or a callback of its own.
LoopFree == cancelling = NoWork /\ ~crashed

run == /\ LoopFree /\ ~running
       /\ running' = TRUE
       /\ UNCHANGED <<state, cancelled, queued, cancelling, status, worker, executed,
                      reply, posted, done, crashed>>

\* uv_run ends when no request is active and no callback is scheduled, and run
\* then calls what was posted before it returns.
RunReturns ==
  /\ LoopFree /\ running /\ posted = {}
  /\ \A w \in Works : state[w] \in {"none", "freed"}
  /\ running' = FALSE
  /\ UNCHANGED <<state, cancelled, queued, cancelling, status, worker, executed,
                 reply, posted, done, crashed>>

add_work(w) ==
  /\ LoopFree /\ state[w] = "none"
  /\ state' = [state EXCEPT ![w] = "scheduled"]
  /\ UNCHANGED <<running, cancelled, queued, cancelling, status, worker, executed,
                 reply, posted, done, crashed>>

\* Faulty variants of the operations stand before them, with the property
\* that rejects each.  CancelOkIsHonoured: the cancelled flag is ignored.
QueueAnyway(w) ==
  /\ LoopFree /\ running /\ state[w] = "scheduled"
  /\ queued' = queued \cup {w}
  /\ state' = [state EXCEPT ![w] = "pooled"]
  /\ UNCHANGED <<running, cancelled, cancelling, status, worker, executed, reply, posted, done, crashed>>

\* WorkIsDone: a cancelled work is forgotten.
QueueForgets(w) ==
  /\ LoopFree /\ running /\ state[w] = "scheduled"
  /\ IF w \in cancelled THEN UNCHANGED <<queued, state>>
     ELSE /\ queued' = queued \cup {w}
          /\ state' = [state EXCEPT ![w] = "pooled"]
  /\ UNCHANGED <<running, cancelled, cancelling, status, worker, executed, reply, posted, done, crashed>>

\* DoneOnce: a cancelled work is reported and queued all the same.
QueueReports(w) ==
  /\ LoopFree /\ running /\ state[w] = "scheduled"
  /\ IF w \in cancelled
     THEN done' = [done EXCEPT ![w] = Append(@, "CANCELED")]
     ELSE UNCHANGED done
  /\ queued' = queued \cup {w}
  /\ state' = [state EXCEPT ![w] = "pooled"]
  /\ UNCHANGED <<running, cancelled, cancelling, status, worker, executed, reply, posted, crashed>>

\* The callback add_work schedules.
QueueWork(w) ==
  /\ LoopFree /\ running /\ state[w] = "scheduled"
  /\ IF w \in cancelled
     THEN /\ done' = [done EXCEPT ![w] = Append(@, "CANCELED")]
          /\ state' = [state EXCEPT ![w] = "freed"]
          /\ UNCHANGED queued
     ELSE /\ queued' = queued \cup {w}
          /\ state' = [state EXCEPT ![w] = "pooled"]
          /\ UNCHANGED done
  /\ UNCHANGED <<running, cancelled, cancelling, status, worker, executed, reply, posted, crashed>>

\* cancel_work sets the flag of a work that was not deleted yet ...
cancel_work(w) ==
  /\ LoopFree /\ state[w] \notin {"none", "freed"}
  /\ cancelled' = cancelled \cup {w}
  /\ cancelling' = w
  /\ UNCHANGED <<running, state, queued, status, worker, executed, reply, posted, done, crashed>>

\* ... and then, for a queued work, asks libuv, which gives up a work that no
\* pool thread has taken and answers EBUSY for any other.
UvCancelled(w) == state[w] = "pooled" \/ (state[w] = "after" /\ status[w] = "CANCELED")

\* WorkOutlivesOnWork: a queued work is reported and deleted at once.
CancelDeletes(w) ==
  /\ cancelling = w /\ ~crashed
  /\ IF w \in queued
     THEN /\ state' = [state EXCEPT ![w] = "freed"]
          /\ status' = [status EXCEPT ![w] = "CANCELED"]
          /\ done' = [done EXCEPT ![w] = Append(@, "CANCELED")]
     ELSE UNCHANGED <<state, status, done>>
  /\ cancelling' = NoWork
  /\ UNCHANGED <<running, cancelled, queued, worker, executed, reply, posted, crashed>>

CancelReply(w) ==
  /\ cancelling = w /\ ~crashed
  /\ IF w \in queued
     THEN IF UvCancelled(w)
          THEN /\ state' = [state EXCEPT ![w] = "after"]
               /\ status' = [status EXCEPT ![w] = "CANCELED"]
               /\ reply' = [reply EXCEPT ![w] = "OK"]
          ELSE /\ reply' = [reply EXCEPT ![w] = IF @ = "OK" THEN "OK" ELSE "BUSY"]
               /\ UNCHANGED <<state, status>>
     ELSE /\ reply' = [reply EXCEPT ![w] = "OK"]
          /\ UNCHANGED <<state, status>>
  /\ cancelling' = NoWork
  /\ UNCHANGED <<running, cancelled, queued, worker, executed, posted, done, crashed>>

TakeWork(k, w) ==
  /\ ~crashed /\ worker[k] = NoWork /\ state[w] = "pooled"
  /\ worker' = [worker EXCEPT ![k] = w]
  /\ state' = [state EXCEPT ![w] = "taken"]
  /\ UNCHANGED <<running, cancelled, queued, cancelling, status, executed, reply, posted, done, crashed>>

\* on_work.  For a cancelled work it posts a report to the loop thread, through
\* req->loop->data, an EventLoop*, reinterpreted as an EventLoop::Impl*:
\* undefined behaviour, which kills the process, posts the report or does not.
on_work(k) ==
  /\ ~crashed /\ worker[k] # NoWork /\ state[worker[k]] = "taken"
  /\ IF worker[k] \in cancelled
     THEN /\ state' = [state EXCEPT ![worker[k]] = "after"]
          /\ worker' = [worker EXCEPT ![k] = NoWork]
          /\ crashed' \in BOOLEAN
          /\ posted' \in {posted, posted \cup {worker[k]}}
          /\ UNCHANGED executed
     ELSE /\ state' = [state EXCEPT ![worker[k]] = "working"]
          /\ executed' = executed \cup {worker[k]}
          /\ UNCHANGED <<worker, posted, crashed>>
  /\ UNCHANGED <<running, cancelled, queued, cancelling, status, reply, done>>

WorkCallbackReturns(k) ==
  /\ ~crashed /\ worker[k] # NoWork /\ state[worker[k]] = "working"
  /\ state' = [state EXCEPT ![worker[k]] = "after"]
  /\ worker' = [worker EXCEPT ![k] = NoWork]
  /\ UNCHANGED <<running, cancelled, queued, cancelling, status, executed, reply, posted, done, crashed>>

on_after_work(w) ==
  /\ LoopFree /\ running /\ state[w] = "after"
  /\ done' = [done EXCEPT ![w] = Append(@, status[w])]
  /\ state' = [state EXCEPT ![w] = "freed"]
  /\ UNCHANGED <<running, cancelled, queued, cancelling, status, worker, executed, reply, posted, crashed>>

\* The report on_work posted.  It comes before on_after_work or after it, when
\* the work it refers to is deleted.
PostedReport(w) ==
  /\ LoopFree /\ running /\ w \in posted
  /\ posted' = posted \ {w}
  /\ done' = [done EXCEPT ![w] = Append(@, "CANCELED")]
  /\ crashed' \in {FALSE, state[w] = "freed"}
  /\ UNCHANGED <<running, state, cancelled, queued, cancelling, status, worker, executed, reply>>

Stopped == crashed /\ UNCHANGED vars

LoopStep == \E w \in Works : QueueWork(w) \/ on_after_work(w) \/ PostedReport(w)
PoolStep == \E k \in Workers : \/ on_work(k) \/ WorkCallbackReturns(k)
                               \/ \E w \in Works : TakeWork(k, w)

Next == \/ run
        \/ LoopStep
        \/ PoolStep
        \/ \E w \in Works : add_work(w) \/ cancel_work(w) \/ CancelReply(w)
        \/ RunReturns
        \/ Stopped

Spec == Init /\ [][Next]_vars

\* User code calls cancel_work finitely often before it returns to the loop,
\* which then goes on with its callbacks; the pool threads run.
FairSpec == /\ Spec /\ SF_vars(LoopStep)
            /\ \A w \in Works : WF_vars(CancelReply(w))
            /\ WF_vars(PoolStep)

-----------------------------------------------------------------------------
(* Properties *)

\* Every variable has its type, and a pool thread holds a live work.
TypeOK ==
  /\ running \in BOOLEAN /\ state \in [Works -> States]
  /\ cancelled \subseteq Works /\ queued \subseteq Works /\ executed \subseteq Works
  /\ posted \subseteq Works /\ cancelling \in Works \cup {NoWork}
  /\ status \in [Works -> {"OK", "CANCELED"}]
  /\ worker \in [Workers -> Works \cup {NoWork}]
  /\ reply \in [Works -> {"none", "OK", "BUSY"}]
  /\ done \in [Works -> Seq({"OK", "CANCELED"})] /\ crashed \in BOOLEAN

\* The works on_work gave up: a pool thread had taken them when cancel_work set
\* the flag, so that libuv answered EBUSY, and on_work then met it.
GivenUp(w) == /\ w \in (cancelled \cap queued) \ executed
              /\ status[w] = "OK" /\ state[w] \in {"after", "freed"}

\* The reports of a work that on_work gave up, as far as they have come.
GivenUpReports(w) ==
  IF state[w] = "freed"
  THEN IF w \in posted THEN {<<"OK">>}
       ELSE {<<"OK">>, <<"OK", "CANCELED">>, <<"CANCELED", "OK">>}
  ELSE IF w \in posted THEN {<<>>} ELSE {<<>>, <<"CANCELED">>}

\* The done callback of a work that on_work did not give up is called exactly
\* once, at the moment the work is deleted, whether it was executed, cancelled
\* before it was queued or cancelled in the pool.  One that on_work gave up is
\* told OK once, when it is deleted, and may be told CANCELED once more, before
\* or after: on_work and on_after_work both report it.
DoneOnce ==
  \A w \in Works :
    IF GivenUp(w) THEN done[w] \in GivenUpReports(w)
    ELSE Len(done[w]) = IF state[w] = "freed" THEN 1 ELSE 0

\* A pool thread never holds a deleted work, and no two hold the same one:
\* on_work's reference to the work stays valid until it returns.
WorkOutlivesOnWork ==
  \A k \in Workers : worker[k] # NoWork =>
    /\ state[worker[k]] \in {"taken", "working"}
    /\ \A j \in Workers : worker[j] = worker[k] => j = k

\* When cancel_work returned OK the work callback is never called and the done
\* callback is told OPERATION_CANCELED.
CancelOkIsHonoured ==
  \A w \in Works : reply[w] = "OK" =>
    /\ w \notin executed
    /\ \A i \in 1..Len(done[w]) : done[w][i] = "CANCELED"

\* What holds of a work wherever it is; the inductive part of the proofs.
WorkInv(w) ==
  /\ IF GivenUp(w) THEN done[w] \in GivenUpReports(w)
     ELSE /\ done[w] \in IF state[w] = "freed" THEN {<<"OK">>, <<"CANCELED">>} ELSE {<<>>}
          /\ w \notin posted
  /\ state[w] = "working" => w \in executed
  /\ state[w] = "after" => w \in executed \/ status[w] = "CANCELED" \/ GivenUp(w)
  /\ state[w] \in {"pooled", "taken", "working", "after"} => w \in queued
  /\ state[w] \in {"none", "scheduled"} => w \notin queued
  /\ state[w] \in {"none", "scheduled", "pooled", "taken"} => w \notin executed
  /\ status[w] = "CANCELED" => state[w] \in {"after", "freed"} /\ w \notin executed
  /\ cancelling = w => w \in cancelled /\ state[w] \notin {"none", "freed"}
  /\ reply[w] = "OK" =>
       /\ w \in cancelled \ executed
       /\ \/ state[w] = "scheduled"
          \/ state[w] = "after" /\ status[w] = "CANCELED"
          \/ state[w] = "freed" /\ done[w] = <<"CANCELED">>

IInv == TypeOK /\ WorkOutlivesOnWork /\ \A w \in Works : WorkInv(w)

\* Once the loop runs, every work is reported and deleted, unless the process
\* dies of the undefined behaviour on_work has for a work that it gives up.
WorkIsDone ==
  \A w \in Works : (running /\ state[w] # "none") ~>
    (state[w] = "freed" \/ (crashed /\ \E v \in Works : GivenUp(v)))
=============================================================================
