----------------------------- MODULE RefCounted -----------------------------
(***************************************************************************)
(* RefCounted: a Removable whose removal is scheduled by the last unref.   *)
(* Code that holds a reference may take another; code that holds none may  *)
(* still call unref on an object waiting for its removal.                  *)
(***************************************************************************)
EXTENDS Removable

CONSTANT MaxRefs   \* bound on m_ref_counter

VARIABLES m_ref_counter,
          held            \* references the user's code has not given back

refVars == <<removableVars, m_ref_counter, held>>

\* The constructor takes the first reference.  (references is 0 in a program that
\* has no such object.)
RefInit(references) == RemovableInit /\ m_ref_counter = references /\ held = references

ref == /\ Alive /\ held > 0 /\ m_ref_counter < MaxRefs
       /\ m_ref_counter' = m_ref_counter + 1
       /\ held' = held + 1
       /\ UNCHANGED removableVars

\* Faulty variants of unref, with the property that rejects each.
\* DeletedOnce: the counter is compared before it is decremented.
UnrefEarly ==
  /\ Alive /\ m_ref_counter > 0
  /\ m_ref_counter' = m_ref_counter - 1
  /\ held' = held - 1
  /\ IF m_ref_counter <= 2 THEN schedule_removal ELSE UNCHANGED removableVars

\* ReleasedIsDeleted: the removal is not scheduled.
UnrefKeeps ==
  /\ Alive /\ m_ref_counter > 0
  /\ m_ref_counter' = m_ref_counter - 1
  /\ held' = held - 1
  /\ UNCHANGED removableVars

unref == /\ Alive
         /\ IF m_ref_counter = 0
            THEN UNCHANGED refVars
            ELSE /\ m_ref_counter' = m_ref_counter - 1
                 /\ held' = held - 1
                 /\ IF m_ref_counter = 1 THEN schedule_removal ELSE UNCHANGED removableVars

SetCallback == /\ Alive
               /\ \E callback \in RemoveCallbacks : set_on_schedule_removal(callback)
               /\ UNCHANGED <<m_ref_counter, held>>

RefLoopStep == /\ BeginIdle \/ on_removal \/ NextPhase \/ on_delete_idle_handle_close
               /\ UNCHANGED <<m_ref_counter, held>>

RefNext == ref \/ unref \/ SetCallback \/ RefLoopStep

RefSpec == RefInit(1) /\ [][RefNext]_refVars

-----------------------------------------------------------------------------
(* Properties *)

\* Every variable of RefCounted and of Removable has its type.
RefTypeOK == /\ RemovableTypeOK
          /\ m_ref_counter \in Nat /\ held \in Nat

\* What unref, schedule_removal and the two idle callbacks keep: the counter
\* counts the references held, and a removal is on its way, as one idle handle
\* in one stage, or done, exactly when the last reference was given back.
RemovalInv ==
  /\ m_ref_counter = held
  /\ idles + closing + deleted = IF held = 0 THEN 1 ELSE 0
  /\ toRun <= idles

\* The inductive invariant of the proofs.
IInv == RefTypeOK /\ RemovalInv

\* An object is deleted at most once, and never while a reference is held,
\* whatever calls of unref follow the last one.
DeletedOnce == deleted <= 1 /\ (deleted = 1 => held = 0)
=============================================================================
