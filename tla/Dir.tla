-------------------------------- MODULE Dir ---------------------------------
(***************************************************************************)
(* Dir.  A directory is listed entry by entry, one request at a time; a    *)
(* close() during a listing ends the listing and tries again in every idle *)
(* phase until it has ended.                                               *)
(***************************************************************************)
EXTENDS FsCommon

CONSTANTS Dir,             \* stands for the directory in the jobs of the loop
          DirSize,         \* entries of every directory
          MaxDirOpens,     \* bound on the calls of open
          DirOverlaps      \* may user code open, list or remove a directory where
                           \* an earlier call has not been answered?

ASSUME DirAssumption == DirSize \in Nat /\ MaxDirOpens \in Nat /\ DirOverlaps \in BOOLEAN

VARIABLES
  dir,        \* the members; left is the entries readdir has still to return
  dirOpens    \* history: calls of open

dirVars == <<dir, dirOpens>>

\* made: the program has a directory.
DirInit(made) ==
  /\ dir = [m_state |-> "INITIAL", m_uv_dir |-> 0, m_read_request |-> "none", left |-> 0,
            requests |-> {}, posts |-> {}, reported |-> {},
            removal |-> IF made THEN "none" ELSE "deleted"]
  /\ dirOpens = 0

DirBecomes(d) == dir' = [d EXCEPT !.posts = {}] /\ scheduled' = scheduled \cup d.posts

OpenDir(k) == Item("open dir", k)
CloseDir(callback) == Item("close dir", callback)
DirCallbacks == {ByUser, ByRemoval} \cup {Reopen(k) : k \in 1..MaxDirOpens}
DirJobs == {OpenDir(k) : k \in 1..MaxDirOpens} \cup {CloseDir(c) : c \in DirCallbacks}
             \cup {Item("dir refuses", Dir), Item("on_removal", Dir)}
DirPending(kinds) == \E j \in (scheduled \cup jobs) \cap DirJobs : j.kind \in kinds

dir_is_open(d) == d.m_uv_dir # 0

-----------------------------------------------------------------------------
(* Methods, as functions on the members *)

\* The callback of a directory that is being closed is told so at once; of
\* those, only the one of a reopening passes it on, to the user.
dir_close(d, callback) ==
  IF ~dir_is_open(d) THEN d
  ELSE IF d.m_read_request # "none"
       THEN Posting([d EXCEPT !.m_state = "WANTCLOSE"], CloseDir(callback))
  ELSE IF d.m_state = "CLOSING"
       THEN IF callback.kind = "reopen" THEN reopen(d, callback.id, OpenDir(callback.id), FALSE) ELSE d
  ELSE [d EXCEPT !.m_state = "CLOSING", !.requests = @ \cup {Item("closedir", callback)}]

StartOpenDir(d, k) == [d EXCEPT !.m_state = "OPENING", !.requests = @ \cup {Item("opendir", k)}]

dir_open(d, k) == CASE detail_open(d) = "close first" -> dir_close(d, Reopen(k))
                    [] detail_open(d) = "now" -> StartOpenDir(d, k)
                    [] detail_open(d) = "later" -> Posting(d, OpenDir(k))

\* A list() during another one is refused at once.
list(d, how) ==
  IF ~dir_is_open(d) THEN Posting(d, Item("dir refuses", Dir))
  ELSE IF d.m_read_request # "none" THEN d
  ELSE [d EXCEPT !.m_read_request = how, !.requests = @ \cup {Item("readdir", d.m_uv_dir)}]

dir_schedule_removal(d) ==
  IF dir_is_open(d) THEN dir_close([d EXCEPT !.removal = "requested"], ByRemoval)
  ELSE Removing(d, Item("on_removal", Dir))

-----------------------------------------------------------------------------
(* What user code calls, in any phase and any callback *)

DirCalls(d) ==
  /\ dir.removal = "none" /\ DirBecomes(d)
  /\ UNCHANGED <<phase, jobs, closeRequests, closing, inCallback>>

\* A Dir that could not be opened is OPENED without a directory; the next open()
\* would be given to a close() that never calls its callback.
CallDirOpen ==
  /\ dirOpens < MaxDirOpens
  /\ \/ DirOverlaps
     \/ dir.reported = 1..dirOpens /\ (dir.m_state = "OPENED" => dir_is_open(dir))
  /\ dirOpens' = dirOpens + 1
  /\ DirCalls(dir_open(dir, dirOpens + 1))

\* A directory is not listed after it was closed: list() would read it while the
\* pool closes it, and put off the close() that waits.
CallList(how) == /\ DirOverlaps \/ (dir_is_open(dir) => dir.m_state = "OPENED")
                 /\ DirCalls(list(dir, how)) /\ UNCHANGED dirOpens

\* A close() that overtakes one waiting for the listing leaves that unanswered.
CallDirClose == /\ DirOverlaps \/ dir.reported = 1..dirOpens
                /\ DirCalls(dir_close(dir, ByUser)) /\ UNCHANGED dirOpens

\* While the directory is being closed, schedule_removal and close call each
\* other for ever; so they do if another close() waits for the listing, too.
CallDirRemoval ==
  /\ \/ DirOverlaps
     \/ /\ ~InFlight(dir, {"opendir"}) /\ ~DirPending({"open dir", "dir refuses"})
        /\ dir.m_read_request # "none" => ~DirPending({"close dir"})
  /\ dir.m_state # "CLOSING"
  /\ DirCalls(dir_schedule_removal(dir)) /\ UNCHANGED dirOpens

DirCall == \/ CallDirOpen \/ CallDirClose \/ CallDirRemoval
           \/ \E how \in {"plain", "continued"} : CallList(how)

-----------------------------------------------------------------------------
(* The loop thread *)

\* The pool has answered a request; d is the directory after its handler, up to
\* the callback cb.
DirAnswered(request, d, cb) ==
  /\ Idling("poll") /\ request \in dir.requests
  /\ DirBecomes([d EXCEPT !.requests = @ \ {request}])
  /\ inCallback' = cb
  /\ UNCHANGED <<phase, jobs, closeRequests, closing, dirOpens>>

\* The state is OPENED in either case.
on_open_dir(r, ok) ==
  LET told == [dir EXCEPT !.m_state = "OPENED", !.reported = @ \cup {r.id}]
  IN  /\ r.kind = "opendir"
      /\ DirAnswered(r, IF ok THEN [told EXCEPT !.m_uv_dir = r.id, !.left = DirSize] ELSE told,
                     NotInCallback)

\* The listing ends, or the user is told of an entry ...
on_read_dir(r, result) ==
  /\ r.kind = "readdir"
  /\ result = "entry" => dir.left > 0
  /\ result = "end" => dir.left = 0
  /\ IF result = "entry"
     THEN DirAnswered(r, [dir EXCEPT !.left = @ - 1], Item("entry", Dir))
     ELSE DirAnswered(r, [dir EXCEPT !.m_read_request = "none"], NotInCallback)

\* ... and the next one is asked for, unless the directory is to be closed or, if
\* the callback has a say in it, unless that has stopped the listing.
EntryReturns(proceed) ==
  LET more == IF dir.m_read_request = "plain" THEN dir.m_state # "WANTCLOSE" ELSE proceed
  IN  /\ inCallback.kind = "entry"
      /\ inCallback' = NotInCallback
      /\ dir' = IF more THEN [dir EXCEPT !.requests = @ \cup {Item("readdir", dir.m_uv_dir)}]
                ELSE [dir EXCEPT !.m_read_request = "none"]
      /\ UNCHANGED <<phase, scheduled, jobs, closeRequests, closing, dirOpens>>

on_close_dir(r, ok) ==
  LET d == [dir EXCEPT !.m_uv_dir = 0, !.m_state = "CLOSED"]
      callback == r.id
  IN  /\ r.kind = "closedir"
      /\ DirAnswered(r, CASE callback = ByUser -> d
                          [] callback = ByRemoval -> dir_schedule_removal(d)
                          [] OTHER -> reopen(d, callback.id, OpenDir(callback.id), ok),
                     NotInCallback)

DirJob(j) ==
  /\ Idling("idle") /\ j \in jobs \cap DirJobs
  /\ jobs' = jobs \ {j}
  /\ DirBecomes(CASE j.kind = "open dir" -> dir_open(dir, j.id)
                  [] j.kind = "close dir" -> dir_close(dir, j.id)
                  [] OTHER -> dir)
  /\ closeRequests' = IF j.kind = "on_removal" THEN closeRequests \cup {j} ELSE closeRequests
  /\ UNCHANGED <<phase, closing, inCallback, dirOpens>>

DirDeleted ==
  /\ Idling("closing") /\ Item("on_removal", Dir) \in closing
  /\ closing' = closing \ {Item("on_removal", Dir)}
  /\ dir' = [dir EXCEPT !.removal = "deleted"]
  /\ UNCHANGED <<phase, scheduled, jobs, closeRequests, inCallback, dirOpens>>

DirAnswer == \E r \in dir.requests :
  \/ \E ok \in BOOLEAN : on_open_dir(r, ok) \/ on_close_dir(r, ok)
  \/ \E result \in {"entry", "end", "error"} : on_read_dir(r, result)

DirStep == \/ DirDeleted
           \/ \E proceed \in BOOLEAN : EntryReturns(proceed)
           \/ \E j \in jobs : DirJob(j)
=============================================================================
