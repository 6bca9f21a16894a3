------------------------------ MODULE FsCommon ------------------------------
(***************************************************************************)
(* What File and Dir share: opening an object that may be open or busy.    *)
(* An object is a record of its members; in it, requests are the requests  *)
(* the pool has not answered yet, and posts the callbacks a handler has    *)
(* scheduled so far.  An open() is known by its number.                    *)
(***************************************************************************)
EXTENDS LoopPhases

\* The callbacks given to a close(): by the user, by schedule_removal, and by the
\* k-th open() of an object that is open.
ByUser == Item("user", 0)
ByRemoval == Item("removal", 0)
Reopen(k) == Item("reopen", k)

Posting(object, job) == [object EXCEPT !.posts = @ \cup {job}]

\* What detail::open makes of an open(): an open object is closed first, a busy
\* one is tried again in the next idle phase.
detail_open(object) == CASE object.m_state = "OPENED" -> "close first"
                         [] object.m_state \in {"INITIAL", "CLOSED"} -> "now"
                         [] OTHER -> "later"

\* The callback of that close tries again, or gives its error to the open.
reopen(object, k, again, ok) ==
  IF ok THEN Posting(object, again) ELSE [object EXCEPT !.reported = @ \cup {k}]

\* Removable::schedule_removal, on an object that has nothing left to wait for.
Removing(object, job) == Posting([object EXCEPT !.removal = "scheduled"], job)

\* Whether one of the requests is of one of the kinds.
InFlight(object, kinds) == \E r \in object.requests : r.kind \in kinds
=============================================================================
