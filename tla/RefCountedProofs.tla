-------------------------- MODULE RefCountedProofs --------------------------
(***************************************************************************)
(* Proofs about RefCounted for any bounds and any set of callbacks: types, *)
(* and that an object is deleted at most once and never while it is        *)
(* referenced.                                                             *)
(***************************************************************************)
EXTENDS RefCounted, TLAPS

USE RemovableAssumption

\* The constructor establishes the invariant: one reference, nothing scheduled.
LEMMA InitIInv == RefInit(1) => IInv
<1> SUFFICES ASSUME RefInit(1) PROVE IInv OBVIOUS
<1>1. <<>> \in Seq(RemoveCallbacks) OBVIOUS
<1>2. RefTypeOK BY <1>1 DEF RefInit, RemovableInit, RefTypeOK, RemovableTypeOK
<1>3. RemovalInv BY DEF RefInit, RemovableInit, RemovalInv
<1> QED BY <1>2, <1>3 DEF IInv

\* ref changes the two counts of references only.
LEMMA RefStep == IInv /\ ref => IInv'
<1> SUFFICES ASSUME IInv, ref PROVE IInv' OBVIOUS
<1>1. UNCHANGED <<phase, m_removal_scheduled, m_about_to_remove, m_on_remove_callback,
                  idles, toRun, closing, deleted, notified>>
  BY DEF ref, removableVars
<1>2. RefTypeOK' BY <1>1 DEF IInv, RefTypeOK, RemovableTypeOK, ref
<1>3. RemovalInv' BY <1>1 DEF IInv, RefTypeOK, RemovalInv, ref
<1> QED BY <1>2, <1>3 DEF IInv

\* unref schedules the removal when, and only when, the last reference goes.
LEMMA UnrefStep == IInv /\ unref => IInv'
<1> SUFFICES ASSUME IInv, unref PROVE IInv' OBVIOUS
<1>1. CASE m_ref_counter = 0
  <2>1. UNCHANGED <<phase, m_removal_scheduled, m_about_to_remove, m_on_remove_callback,
                    idles, toRun, closing, deleted, notified, m_ref_counter, held>>
    BY <1>1 DEF unref, refVars, removableVars
  <2> QED BY <2>1 DEF IInv, RefTypeOK, RemovableTypeOK, RemovalInv
<1>2. CASE m_ref_counter > 1
  <2>1. UNCHANGED <<phase, m_removal_scheduled, m_about_to_remove, m_on_remove_callback,
                    idles, toRun, closing, deleted, notified>>
    BY <1>2 DEF unref, removableVars
  <2>2. m_ref_counter' = m_ref_counter - 1 /\ held' = held - 1
    BY <1>2 DEF unref
  <2>3. RefTypeOK' BY <1>2, <2>1, <2>2 DEF IInv, RefTypeOK, RemovableTypeOK, RemovalInv
  <2>4. RemovalInv' BY <1>2, <2>1, <2>2 DEF IInv, RefTypeOK, RemovalInv
  <2> QED BY <2>3, <2>4 DEF IInv
<1>3. CASE m_ref_counter = 1
  <2>1. schedule_removal /\ m_ref_counter' = 0 /\ held' = 0
    BY <1>3 DEF unref, IInv, RemovalInv
  <2>2. UNCHANGED <<phase, m_about_to_remove, m_on_remove_callback, toRun, closing, deleted, notified>>
    BY <2>1 DEF schedule_removal
  <2>3. m_removal_scheduled' = TRUE /\ idles' = idles + 1
    BY <2>1 DEF schedule_removal
  <2>5. RefTypeOK' BY <2>1, <2>2, <2>3 DEF IInv, RefTypeOK, RemovableTypeOK
  <2>6. RemovalInv' BY <1>3, <2>1, <2>2, <2>3 DEF IInv, RefTypeOK, RemovableTypeOK, RemovalInv
  <2> QED BY <2>5, <2>6 DEF IInv
<1> QED BY <1>1, <1>2, <1>3 DEF IInv, RefTypeOK

\* set_on_schedule_removal changes the callback only.
LEMMA SetCallbackStep == IInv /\ SetCallback => IInv'
<1> SUFFICES ASSUME IInv, SetCallback PROVE IInv' OBVIOUS
<1>1. UNCHANGED <<phase, m_removal_scheduled, m_about_to_remove, idles, toRun, closing,
                  deleted, notified, m_ref_counter, held>>
  BY DEF SetCallback, set_on_schedule_removal
<1>2. m_on_remove_callback' \in RemoveCallbacks \cup {NoCallback}
  BY Zenon DEF SetCallback, set_on_schedule_removal, IInv, RefTypeOK, RemovableTypeOK
<1>3. RefTypeOK' BY <1>1, <1>2 DEF IInv, RefTypeOK, RemovableTypeOK
<1>4. RemovalInv' BY <1>1 DEF IInv, RemovalInv
<1> QED BY <1>3, <1>4 DEF IInv

\* The loop moves a removal from one stage to the next and starts none.
LEMMA LoopStepKeeps == IInv /\ RefLoopStep => IInv'
<1> SUFFICES ASSUME IInv, RefLoopStep PROVE IInv' OBVIOUS
<1>0. UNCHANGED <<m_ref_counter, held>> BY DEF RefLoopStep
<1>1. CASE BeginIdle
  <2>1. UNCHANGED <<m_removal_scheduled, m_about_to_remove, m_on_remove_callback, idles,
                    closing, deleted, notified>>
    BY <1>1 DEF BeginIdle
  <2>2. phase' = "idle" /\ toRun' = idles BY <1>1 DEF BeginIdle
  <2> QED BY <1>0, <2>1, <2>2 DEF IInv, RefTypeOK, RemovableTypeOK, RemovalInv
<1>2. CASE on_removal
  <2>1. UNCHANGED <<phase, m_removal_scheduled, m_on_remove_callback, deleted>>
    BY <1>2 DEF on_removal
  <2>2. toRun > 0 /\ idles' = idles - 1 /\ toRun' = toRun - 1 /\ closing' = closing + 1
    BY <1>2 DEF on_removal
  <2>3. m_about_to_remove' = TRUE BY <1>2 DEF on_removal
  <2>4. notified' \in Seq(RemoveCallbacks)
    <3>1. CASE m_on_remove_callback = NoCallback
      BY <1>2, <3>1 DEF on_removal, IInv, RefTypeOK, RemovableTypeOK
    <3>2. CASE m_on_remove_callback \in RemoveCallbacks
      <4>1. m_on_remove_callback # NoCallback BY <3>2
      <4>2. notified' = Append(notified, m_on_remove_callback) BY <1>2, <4>1 DEF on_removal
      <4> QED BY <3>2, <4>2 DEF IInv, RefTypeOK, RemovableTypeOK
    <3> QED BY <3>1, <3>2 DEF IInv, RefTypeOK, RemovableTypeOK
  <2>5. RefTypeOK' BY <1>0, <2>1, <2>2, <2>3, <2>4 DEF IInv, RefTypeOK, RemovableTypeOK, RemovalInv
  <2>6. RemovalInv' BY <1>0, <2>1, <2>2 DEF IInv, RefTypeOK, RemovableTypeOK, RemovalInv
  <2> QED BY <2>5, <2>6 DEF IInv
<1>3. CASE NextPhase
  <2>1. UNCHANGED <<m_removal_scheduled, m_about_to_remove, m_on_remove_callback, idles,
                    toRun, closing, deleted, notified>>
    BY <1>3 DEF NextPhase
  <2>2. phase' \in {"timers", "idle", "poll", "closing"} BY <1>3 DEF NextPhase
  <2> QED BY <1>0, <2>1, <2>2 DEF IInv, RefTypeOK, RemovableTypeOK, RemovalInv
<1>4. CASE on_delete_idle_handle_close
  <2>1. UNCHANGED <<phase, m_removal_scheduled, m_about_to_remove, m_on_remove_callback,
                    idles, toRun, notified>>
    BY <1>4 DEF on_delete_idle_handle_close
  <2>2. closing > 0 /\ deleted' = deleted + 1 /\ closing' = closing - 1
    BY <1>4 DEF on_delete_idle_handle_close
  <2>3. RefTypeOK' BY <1>0, <2>1, <2>2 DEF IInv, RefTypeOK, RemovableTypeOK
  <2>4. RemovalInv' BY <1>0, <2>1, <2>2 DEF IInv, RefTypeOK, RemovableTypeOK, RemovalInv
  <2> QED BY <2>3, <2>4 DEF IInv
<1> QED BY <1>1, <1>2, <1>3, <1>4 DEF RefLoopStep

\* The invariant holds in every state of every behaviour.
THEOREM Inductive == RefSpec => []IInv
<1>1. IInv /\ [RefNext]_refVars => IInv'
  <2> SUFFICES ASSUME IInv, [RefNext]_refVars PROVE IInv' OBVIOUS
  <2>1. CASE RefNext BY <2>1, RefStep, UnrefStep, SetCallbackStep, LoopStepKeeps DEF RefNext
  <2>2. CASE UNCHANGED refVars
    BY <2>2 DEF refVars, removableVars, IInv, RefTypeOK, RemovableTypeOK, RemovalInv
  <2> QED BY <2>1, <2>2
<1> QED BY InitIInv, <1>1, PTL DEF RefSpec

\* Type correctness of RefCounted and Removable.
THEOREM TypeCorrect == RefSpec => []RefTypeOK
<1>1. IInv => RefTypeOK BY DEF IInv
<1> QED BY Inductive, <1>1, PTL

\* An object is deleted at most once, and only after its last unref, for any
\* number of references and any order of calls and phases.
THEOREM DeletedAtMostOnce == RefSpec => []DeletedOnce
<1>1. IInv => DeletedOnce
  BY DEF IInv, RefTypeOK, RemovableTypeOK, RemovalInv, DeletedOnce
<1> QED BY Inductive, <1>1, PTL
=============================================================================
