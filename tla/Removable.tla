----------------------------- MODULE Removable ------------------------------
(***************************************************************************)
(* Removable: the deferred deletion every object of the library inherits.  *)
(* schedule_removal starts an idle handle, whose callback in the next idle *)
(* phase notifies the user and closes it, and whose close callback deletes *)
(* the object.  The phases of an iteration of libuv's loop are the clock;  *)
(* user code may run in any of them.  RefCounted and Timer extend this     *)
(* module with the operations that call schedule_removal.                  *)
(***************************************************************************)
EXTENDS Naturals, Sequences

CONSTANTS RemoveCallbacks,   \* callbacks for set_on_schedule_removal
          NoCallback,
          MaxRemovals        \* bound on the calls of schedule_removal

ASSUME RemovableAssumption == NoCallback \notin RemoveCallbacks /\ MaxRemovals \in Nat

VARIABLES
  phase,                  \* of the loop's iteration
  m_removal_scheduled,
  m_about_to_remove,
  m_on_remove_callback,
  idles,                  \* started idle handles of schedule_removal
  toRun,                  \* those the current idle phase has still to call
  closing,                \* those waiting for their close callback
  deleted,                \* how often the object was deleted
  notified                \* history: the removal callbacks called

removableVars == <<phase, m_removal_scheduled, m_about_to_remove, m_on_remove_callback,
                   idles, toRun, closing, deleted, notified>>

RemovableInit ==
  /\ phase = "timers"
  /\ m_removal_scheduled = FALSE /\ m_about_to_remove = FALSE
  /\ m_on_remove_callback = NoCallback
  /\ idles = 0 /\ toRun = 0 /\ closing = 0 /\ deleted = 0 /\ notified = <<>>

Alive == deleted = 0

schedule_removal ==
  /\ idles + closing + deleted < MaxRemovals
  /\ m_removal_scheduled' = TRUE
  /\ idles' = idles + 1
  /\ UNCHANGED <<phase, m_about_to_remove, m_on_remove_callback, toRun, closing, deleted, notified>>

set_on_schedule_removal(callback) ==
  /\ m_on_remove_callback' = IF m_about_to_remove THEN m_on_remove_callback ELSE callback
  /\ UNCHANGED <<phase, m_removal_scheduled, m_about_to_remove, idles, toRun, closing,
                 deleted, notified>>

\* The idle phase calls the handles started before it and no others.
BeginIdle ==
  /\ phase = "timers"
  /\ phase' = "idle"
  /\ toRun' = idles
  /\ UNCHANGED <<m_removal_scheduled, m_about_to_remove, m_on_remove_callback, idles,
                 closing, deleted, notified>>

on_removal ==
  /\ phase = "idle" /\ toRun > 0
  /\ m_about_to_remove' = TRUE
  /\ notified' = IF m_on_remove_callback = NoCallback THEN notified
                 ELSE Append(notified, m_on_remove_callback)
  /\ idles' = idles - 1
  /\ toRun' = toRun - 1
  /\ closing' = closing + 1
  /\ UNCHANGED <<phase, m_removal_scheduled, m_on_remove_callback, deleted>>

NextPhase ==
  /\ \/ phase = "idle" /\ toRun = 0 /\ phase' = "poll"
     \/ phase = "poll" /\ phase' = "closing"
     \/ phase = "closing" /\ closing = 0 /\ phase' = "timers"
  /\ UNCHANGED <<m_removal_scheduled, m_about_to_remove, m_on_remove_callback, idles,
                 toRun, closing, deleted, notified>>

on_delete_idle_handle_close ==
  /\ phase = "closing" /\ closing > 0
  /\ deleted' = deleted + 1
  /\ closing' = closing - 1
  /\ UNCHANGED <<phase, m_removal_scheduled, m_about_to_remove, m_on_remove_callback,
                 idles, toRun, notified>>

RemovableTypeOK ==
  /\ phase \in {"timers", "idle", "poll", "closing"}
  /\ m_removal_scheduled \in BOOLEAN /\ m_about_to_remove \in BOOLEAN
  /\ m_on_remove_callback \in RemoveCallbacks \cup {NoCallback}
  /\ idles \in Nat /\ toRun \in Nat /\ closing \in Nat /\ deleted \in Nat
  /\ notified \in Seq(RemoveCallbacks)
=============================================================================
