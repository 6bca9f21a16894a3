------------------------ MODULE EventLoopWorkProofs -------------------------
(* Machine-checked proofs about EventLoopWork, for any works and pool threads. *)
EXTENDS EventLoopWork, SequenceTheorems, TLAPS

\* Append makes a pair of a report and the next one.
LEMMA AppendPair == ASSUME NEW a, NEW b PROVE Append(<<a>>, b) = <<a, b>>
<1>1. <<a>> \in Seq({a, b}) /\ <<a, b>> \in Seq({a, b}) /\ Append(<<a>>, b) \in Seq({a, b})
  OBVIOUS
<1>2. /\ Len(Append(<<a>>, b)) = 2 /\ Append(<<a>>, b)[1] = a /\ Append(<<a>>, b)[2] = b
      /\ Len(<<a, b>>) = 2 /\ <<a, b>>[1] = a /\ <<a, b>>[2] = b
  OBVIOUS
<1>3. \A i \in 1..2 : Append(<<a>>, b)[i] = <<a, b>>[i]
  <2>1. ASSUME NEW i \in 1..2
        PROVE  Append(<<a>>, b)[i] = <<a, b>>[i]
    <3>1. i = 1 \/ i = 2
      OBVIOUS
    <3> QED
      BY <1>2, <3>1
  <2> QED
    BY <2>1
<1> QED
  BY <1>1, <1>2, <1>3, SeqEqual

\* Every step keeps the types.
LEMMA TypeInductive == TypeOK /\ [Next]_vars => TypeOK'
<1> SUFFICES ASSUME TypeOK, [Next]_vars PROVE TypeOK'
  OBVIOUS
<1> USE NoWorkAssumption DEF TypeOK, States, vars, LoopFree
<1>1. CASE run
  BY <1>1 DEF run
<1>2. CASE RunReturns
  BY <1>2 DEF RunReturns
<1>3. ASSUME NEW w \in Works, add_work(w)
      PROVE  TypeOK'
  BY <1>3 DEF add_work
<1>4. ASSUME NEW w \in Works, cancel_work(w)
      PROVE  TypeOK'
  BY <1>4 DEF cancel_work
<1>5. ASSUME NEW w \in Works, QueueWork(w)
      PROVE  TypeOK'
  <2>1. CASE w \in cancelled
    <3>1. /\ done' = [done EXCEPT ![w] = Append(@, "CANCELED")]
          /\ state' = [state EXCEPT ![w] = "freed"]
          /\ UNCHANGED <<running, cancelled, queued, cancelling, status, worker, executed, reply, posted, crashed>>
      BY <1>5, <2>1 DEF QueueWork
    <3> QED
      BY <1>5, <3>1
  <2>2. CASE w \notin cancelled
    <3>1. /\ queued' = queued \cup {w}
          /\ state' = [state EXCEPT ![w] = "pooled"]
          /\ UNCHANGED <<running, cancelled, done, cancelling, status, worker, executed, reply, posted, crashed>>
      BY <1>5, <2>2 DEF QueueWork
    <3> QED
      BY <3>1
  <2> QED
    BY <2>1, <2>2
<1>6. ASSUME NEW w \in Works, CancelReply(w)
      PROVE  TypeOK'
  BY <1>6 DEF CancelReply
<1>7. ASSUME NEW w \in Works, on_after_work(w)
      PROVE  TypeOK'
  BY <1>7 DEF on_after_work
<1>8. ASSUME NEW k \in Workers, on_work(k)
      PROVE  TypeOK'
  <2>1. worker[k] \in Works /\ state[worker[k]] = "taken"
    BY <1>8 DEF on_work
  <2>2. CASE worker[k] \in cancelled
    <3>1. /\ state' = [state EXCEPT ![worker[k]] = "after"]
          /\ worker' = [worker EXCEPT ![k] = NoWork]
          /\ crashed' \in BOOLEAN
          /\ posted' \in {posted, posted \cup {worker[k]}}
          /\ UNCHANGED <<running, cancelled, queued, cancelling, status, executed, reply, done>>
      BY <1>8, <2>2 DEF on_work
    <3> QED
      BY <2>1, <3>1
  <2>3. CASE worker[k] \notin cancelled
    <3>1. /\ state' = [state EXCEPT ![worker[k]] = "working"]
          /\ executed' = executed \cup {worker[k]}
          /\ UNCHANGED <<running, cancelled, queued, cancelling, status, worker, posted, crashed, reply, done>>
      BY <1>8, <2>3 DEF on_work
    <3> QED
      BY <2>1, <3>1
  <2> QED
    BY <2>2, <2>3
<1>9. ASSUME NEW k \in Workers, WorkCallbackReturns(k)
      PROVE  TypeOK'
  BY <1>9 DEF WorkCallbackReturns
<1>10. ASSUME NEW k \in Workers, NEW w \in Works, TakeWork(k, w)
      PROVE  TypeOK'
  BY <1>10 DEF TakeWork
<1>11. ASSUME NEW w \in Works, PostedReport(w)
      PROVE  TypeOK'
  <2>1. /\ done' = [done EXCEPT ![w] = Append(@, "CANCELED")]
        /\ posted' = posted \ {w}
        /\ UNCHANGED <<running, state, cancelled, queued, cancelling, status, worker, executed, reply>>
    BY <1>11 DEF PostedReport
  <2>2. crashed' \in BOOLEAN
    BY <1>11 DEF PostedReport
  <2> QED
    BY <2>1, <2>2
<1>12. CASE Stopped
  BY <1>12 DEF Stopped
<1>13. CASE UNCHANGED vars
  BY <1>13
<1> QED
  BY <1>1, <1>2, <1>3, <1>4, <1>5, <1>6, <1>7, <1>8, <1>9, <1>10, <1>12, <1>13, <1>11 DEF Next, LoopStep, PoolStep

\* No step takes a work away from the pool thread that runs it.
LEMMA OutlivesInductive == IInv /\ [Next]_vars => WorkOutlivesOnWork'
<1> SUFFICES ASSUME IInv, [Next]_vars PROVE WorkOutlivesOnWork'
  OBVIOUS
<1> USE NoWorkAssumption DEF IInv, TypeOK, WorkOutlivesOnWork, vars, LoopFree, UvCancelled
<1>1. CASE run
  BY <1>1 DEF run
<1>2. CASE RunReturns
  BY <1>2 DEF RunReturns
<1>3. ASSUME NEW w \in Works, add_work(w)
      PROVE  WorkOutlivesOnWork'
  BY <1>3 DEF add_work
<1>4. ASSUME NEW w \in Works, cancel_work(w)
      PROVE  WorkOutlivesOnWork'
  BY <1>4 DEF cancel_work
<1>5. ASSUME NEW w \in Works, QueueWork(w)
      PROVE  WorkOutlivesOnWork'
  <2>1. state[w] = "scheduled" /\ worker' = worker
    BY <1>5 DEF QueueWork
  <2>2. \A v \in Works \ {w} : state'[v] = state[v]
    BY <1>5 DEF QueueWork
  <2>3. \A k \in Workers : worker[k] # NoWork => worker[k] \in Works \ {w}
    BY <2>1
  <2> QED
    BY <2>1, <2>2, <2>3
<1>6. ASSUME NEW w \in Works, CancelReply(w)
      PROVE  WorkOutlivesOnWork'
  BY <1>6 DEF CancelReply
<1>7. ASSUME NEW w \in Works, on_after_work(w)
      PROVE  WorkOutlivesOnWork'
  BY <1>7 DEF on_after_work
<1>8. ASSUME NEW k \in Workers, on_work(k)
      PROVE  WorkOutlivesOnWork'
  <2>1. worker[k] \in Works /\ state[worker[k]] = "taken"
    BY <1>8 DEF on_work
  <2>2. CASE worker[k] \in cancelled
    <3>1. /\ state' = [state EXCEPT ![worker[k]] = "after"]
          /\ worker' = [worker EXCEPT ![k] = NoWork]
          /\ crashed' \in BOOLEAN
          /\ posted' \in {posted, posted \cup {worker[k]}}
          /\ UNCHANGED <<running, cancelled, queued, cancelling, status, executed, reply, done>>
      BY <1>8, <2>2 DEF on_work
    <3> QED
      BY <2>1, <3>1
  <2>3. CASE worker[k] \notin cancelled
    <3>1. /\ state' = [state EXCEPT ![worker[k]] = "working"]
          /\ executed' = executed \cup {worker[k]}
          /\ UNCHANGED <<running, cancelled, queued, cancelling, status, worker, posted, crashed, reply, done>>
      BY <1>8, <2>3 DEF on_work
    <3> QED
      BY <2>1, <3>1
  <2> QED
    BY <2>2, <2>3
<1>9. ASSUME NEW k \in Workers, WorkCallbackReturns(k)
      PROVE  WorkOutlivesOnWork'
  BY <1>9 DEF WorkCallbackReturns
<1>10. ASSUME NEW k \in Workers, NEW w \in Works, TakeWork(k, w)
      PROVE  WorkOutlivesOnWork'
  <2>1. /\ state[w] = "pooled" /\ state' = [state EXCEPT ![w] = "taken"]
        /\ worker' = [worker EXCEPT ![k] = w]
    BY <1>10 DEF TakeWork
  <2>2. \A j \in Workers : worker[j] # w
    BY <2>1
  <2>3. ASSUME NEW j \in Workers, worker'[j] # NoWork
        PROVE  /\ state'[worker'[j]] \in {"taken", "working"}
               /\ \A i \in Workers : worker'[i] = worker'[j] => i = j
    <3>1. CASE j = k
      BY <2>1, <2>2, <3>1
    <3>2. CASE j # k
      BY <2>1, <2>2, <2>3, <3>2
    <3> QED
      BY <3>1, <3>2
  <2> QED
    BY <2>3
<1>11. ASSUME NEW w \in Works, PostedReport(w)
      PROVE  WorkOutlivesOnWork'
  BY <1>11 DEF PostedReport
<1>12. CASE Stopped
  BY <1>12 DEF Stopped
<1>13. CASE UNCHANGED vars
  BY <1>13
<1> QED
  BY <1>1, <1>2, <1>3, <1>4, <1>5, <1>6, <1>7, <1>8, <1>9, <1>10, <1>12, <1>13, <1>11 DEF Next, LoopStep, PoolStep

\* Every step keeps every work consistent.
LEMMA WorkInductive == IInv /\ [Next]_vars => (\A v \in Works : WorkInv(v))'
<1> SUFFICES ASSUME IInv, [Next]_vars, NEW v \in Works PROVE WorkInv(v)'
  OBVIOUS
<1>1. /\ Append(<<>>, "OK") = <<"OK">> /\ Append(<<>>, "CANCELED") = <<"CANCELED">>
  OBVIOUS
<1>2. /\ Append(<<"CANCELED">>, "OK") = <<"CANCELED", "OK">>
       /\ Append(<<"OK">>, "CANCELED") = <<"OK", "CANCELED">>
  BY AppendPair
<1> USE NoWorkAssumption DEF IInv, TypeOK, States, WorkOutlivesOnWork, WorkInv, GivenUp, GivenUpReports, vars, LoopFree, UvCancelled
<1>3. CASE run
  BY <1>3 DEF run
<1>4. CASE RunReturns
  BY <1>4 DEF RunReturns
<1>5. ASSUME NEW w \in Works, add_work(w)
      PROVE  WorkInv(v)'
  BY <1>5 DEF add_work
<1>6. ASSUME NEW w \in Works, cancel_work(w)
      PROVE  WorkInv(v)'
  BY <1>6 DEF cancel_work
<1>7. ASSUME NEW w \in Works, QueueWork(w)
      PROVE  WorkInv(v)'
  <2>1. CASE w \in cancelled
    <3>1. /\ done' = [done EXCEPT ![w] = Append(@, "CANCELED")]
          /\ state' = [state EXCEPT ![w] = "freed"]
          /\ UNCHANGED <<running, cancelled, queued, cancelling, status, worker, executed, reply, posted, crashed>>
      BY <1>7, <2>1 DEF QueueWork
    <3>2. state[w] = "scheduled" /\ done[w] = <<>> /\ cancelling = NoWork
      BY <1>7 DEF QueueWork
    <3>3. CASE v = w
      <4>1. done'[v] = <<"CANCELED">> /\ state'[v] = "freed" /\ w \notin executed /\ status[w] = "OK"
        BY <1>1, <3>1, <3>2, <3>3
      <4> QED
        BY <2>1, <3>1, <3>2, <3>3, <4>1
    <3>4. CASE v # w
      BY <3>1, <3>4
    <3> QED
      BY <3>3, <3>4
  <2>2. CASE w \notin cancelled
    <3>1. /\ queued' = queued \cup {w}
          /\ state' = [state EXCEPT ![w] = "pooled"]
          /\ UNCHANGED <<running, cancelled, done, cancelling, status, worker, executed, reply, posted, crashed>>
      BY <1>7, <2>2 DEF QueueWork
    <3>2. state[w] = "scheduled" /\ cancelling = NoWork
      BY <1>7 DEF QueueWork
    <3> QED
      BY <2>2, <3>1, <3>2
  <2> QED
    BY <2>1, <2>2
<1>8. ASSUME NEW w \in Works, CancelReply(w)
      PROVE  WorkInv(v)'
  BY <1>8 DEF CancelReply
<1>9. ASSUME NEW w \in Works, on_after_work(w)
      PROVE  WorkInv(v)'
  <2>1. /\ done' = [done EXCEPT ![w] = Append(@, status[w])]
        /\ state' = [state EXCEPT ![w] = "freed"]
        /\ cancelling = NoWork
        /\ UNCHANGED <<running, cancelled, queued, cancelling, status, worker, executed, reply, posted, crashed>>
    BY <1>9 DEF on_after_work
  <2>2. state[w] = "after" /\ status[w] \in {"OK", "CANCELED"}
    BY <1>9 DEF on_after_work
  <2>3. CASE v = w
    <3>1. CASE GivenUp(w)
      <4>1. done[w] \in IF w \in posted THEN {<<>>} ELSE {<<>>, <<"CANCELED">>}
        BY <2>2, <3>1
      <4>2. done'[w] \in IF w \in posted THEN {<<"OK">>} ELSE {<<"OK">>, <<"CANCELED", "OK">>}
        BY <1>1, <1>2, <2>1, <3>1, <4>1
      <4>3. GivenUp(w)'
        BY <2>1, <3>1
      <4> QED
        BY <2>1, <2>2, <2>3, <3>1, <4>2, <4>3
    <3>2. CASE ~GivenUp(w)
      <4>1. done'[w] = <<status[w]>>
        BY <1>1, <2>1, <2>2, <3>2
      <4>2. ~GivenUp(w)'
        BY <2>1, <2>2, <3>2
      <4> QED
        BY <2>1, <2>2, <2>3, <3>2, <4>1, <4>2
    <3> QED
      BY <3>1, <3>2
  <2>4. CASE v # w
    BY <2>1, <2>2, <2>4
  <2> QED
    BY <2>3, <2>4
<1>10. ASSUME NEW k \in Workers, on_work(k)
      PROVE  WorkInv(v)'
  <2>1. worker[k] \in Works /\ state[worker[k]] = "taken"
    BY <1>10 DEF on_work
  <2> DEFINE w == worker[k]
  <2>2. CASE w \in cancelled
    <3>1. /\ state' = [state EXCEPT ![w] = "after"]
          /\ posted' \in {posted, posted \cup {w}}
          /\ UNCHANGED <<running, cancelled, queued, cancelling, status, executed, reply, done>>
      BY <1>10, <2>2 DEF on_work
    <3> QED
      BY <2>1, <2>2, <3>1
  <2>3. CASE w \notin cancelled
    <3>1. /\ state' = [state EXCEPT ![w] = "working"]
          /\ executed' = executed \cup {w}
          /\ UNCHANGED <<running, cancelled, queued, cancelling, status, worker, posted, crashed, reply, done>>
      BY <1>10, <2>3 DEF on_work
    <3> QED
      BY <2>1, <2>3, <3>1
  <2> QED
    BY <2>2, <2>3
<1>11. ASSUME NEW k \in Workers, WorkCallbackReturns(k)
      PROVE  WorkInv(v)'
  BY <1>11 DEF WorkCallbackReturns
<1>12. ASSUME NEW k \in Workers, NEW w \in Works, TakeWork(k, w)
      PROVE  WorkInv(v)'
  <2>1. /\ state[w] = "pooled" /\ state' = [state EXCEPT ![w] = "taken"]
        /\ UNCHANGED <<running, cancelled, queued, cancelling, status, executed, reply, posted, done, crashed>>
    BY <1>12 DEF TakeWork
  <2>2. CASE v = w
    BY <2>1, <2>2
  <2>3. CASE v # w
    BY <2>1, <2>3
  <2> QED
    BY <2>2, <2>3
<1>13. ASSUME NEW w \in Works, PostedReport(w)
      PROVE  WorkInv(v)'
  <2>1. /\ done' = [done EXCEPT ![w] = Append(@, "CANCELED")]
        /\ posted' = posted \ {w} /\ w \in posted
        /\ UNCHANGED <<running, state, cancelled, queued, cancelling, status, worker, executed, reply>>
    BY <1>13 DEF PostedReport
  <2>2. GivenUp(v)' <=> GivenUp(v)
    BY <2>1
  <2>3. CASE v = w
    <3>1. GivenUp(w) /\ done[w] = IF state[w] = "freed" THEN <<"OK">> ELSE <<>>
      BY <2>1
    <3>2. done'[w] = IF state[w] = "freed" THEN <<"OK", "CANCELED">> ELSE <<"CANCELED">>
      BY <1>1, <1>2, <2>1, <3>1
    <3>3. /\ GivenUp(v)' /\ state' = state /\ v \notin posted'
          /\ done'[v] \in IF state[v] = "freed" THEN {<<"OK", "CANCELED">>} ELSE {<<"CANCELED">>}
      BY <2>1, <2>2, <2>3, <3>1, <3>2
    <3>4. (done[v] \in GivenUpReports(v))'
      BY <3>3
    <3>5. reply'[v] # "OK"
      BY <2>1, <2>3, <3>1
    <3> QED
      BY <2>1, <2>3, <3>3, <3>4, <3>5
  <2>4. CASE v # w
    BY <2>1, <2>2, <2>4
  <2> QED
    BY <2>3, <2>4
<1>14. CASE Stopped
  BY <1>14 DEF Stopped
<1>15. CASE UNCHANGED vars
  BY <1>15
<1> QED
  BY <1>3, <1>4, <1>5, <1>6, <1>7, <1>8, <1>9, <1>10, <1>11, <1>12, <1>14, <1>15, <1>13 DEF Next, LoopStep, PoolStep

\* The inductive invariant holds in every reachable state.
THEOREM Invariance == Spec => []IInv
<1>1. Init => IInv
  <2> SUFFICES ASSUME Init PROVE IInv
    OBVIOUS
  <2>1. done \in [Works -> Seq({"OK", "CANCELED"})]
    BY DEF Init
  <2>2. TypeOK
    BY <2>1, NoWorkAssumption DEF Init, TypeOK, States
  <2>3. WorkOutlivesOnWork
    BY DEF Init, WorkOutlivesOnWork
  <2>4. ASSUME NEW w \in Works PROVE WorkInv(w)
    BY NoWorkAssumption DEF Init, WorkInv, GivenUp
  <2> QED
    BY <2>2, <2>3, <2>4 DEF IInv
<1>2. IInv /\ [Next]_vars => IInv'
  BY TypeInductive, OutlivesInductive, WorkInductive DEF IInv
<1> QED
  BY <1>1, <1>2, PTL DEF Spec

\* Every variable keeps its type.
THEOREM TypeCorrect == Spec => []TypeOK
BY Invariance, PTL DEF IInv

\* on_work never works on a deleted work, for any number of pool threads.
THEOREM WorkOutlives == Spec => []WorkOutlivesOnWork
BY Invariance, PTL DEF IInv

\* The done callback of every work is called exactly once, when the work is
\* deleted, unless on_work gave the work up: then it is told OK at its deletion
\* and CANCELED at most once, on either side of it.
THEOREM DoneOnceHolds == Spec => []DoneOnce
<1>1. Len(<<>>) = 0 /\ Len(<<"OK">>) = 1 /\ Len(<<"CANCELED">>) = 1
  OBVIOUS
<1>2. IInv => DoneOnce
  BY <1>1 DEF IInv, WorkInv, DoneOnce
<1> QED
  BY <1>2, Invariance, PTL

\* A cancellation that cancel_work confirmed is never undone by a pool thread.
THEOREM CancelHonoured == Spec => []CancelOkIsHonoured
<1>1. IInv => CancelOkIsHonoured
  BY DEF IInv, WorkInv, GivenUp, CancelOkIsHonoured
<1> QED
  BY <1>1, Invariance, PTL
=============================================================================
