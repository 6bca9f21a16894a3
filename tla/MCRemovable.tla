---------------------------- MODULE MCRemovable -----------------------------
(***************************************************************************)
(* The objects that extend Removable, for model checking: a program that   *)
(* has a Timer, or one that has a RefCounted object.                       *)
(***************************************************************************)
EXTENDS Timer, RefCounted

VARIABLE program   \* "timer" or "refcounted"

allVars == <<vars, m_ref_counter, held, program>>

MCInit == /\ Init /\ program \in {"timer", "refcounted"}
          /\ RefInit(IF program = "timer" THEN 0 ELSE 1)

OfTimer(A) == program = "timer" /\ A /\ UNCHANGED <<m_ref_counter, held, program>>
OfRefCounted(A) == program = "refcounted" /\ A /\ UNCHANGED <<timerVars, program>>

MCNext == OfTimer(Next) \/ OfRefCounted(RefNext)

\* The loop keeps iterating, and a timer that is due fires.
MCFairSpec == /\ MCInit /\ [][MCNext]_allVars
              /\ WF_allVars(OfTimer(LoopStep)) /\ SF_allVars(OfTimer(on_timer))
              /\ WF_allVars(OfRefCounted(RefLoopStep))

\* Once the last reference is given back the object is deleted, after its removal
\* callback was called once: the one set last, which set_on_schedule_removal
\* cannot replace once it is called.
ReleasedIsDeleted ==
  (program = "refcounted" /\ held = 0) ~>
     /\ deleted = 1
     /\ notified = IF m_on_remove_callback = NoCallback THEN <<>> ELSE <<m_on_remove_callback>>
=============================================================================
