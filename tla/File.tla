-------------------------------- MODULE File --------------------------------
(***************************************************************************)
(* File.  A file is read through a few buffers, one read at a time: the    *)
(* next read starts when a chunk was handed to the user, if a buffer is    *)
(* free, or else when the user gives one back.  The requests are answered  *)
(* in the poll phase in any order.  A chunk is known by the file it comes  *)
(* from and its position; all chunks have one size.                        *)
(***************************************************************************)
EXTENDS FsCommon, FiniteSetsExt

CONSTANTS File,            \* stands for the file in the jobs of the loop
          READ_BUFS_NUM,
          FileSize,        \* chunks of every file
          MaxFileOpens,    \* bound on the calls of open
          MaxBlocks,       \* bound on the blocks being read
          Overlaps         \* may user code read, keep chunks, reopen or remove
                           \* across a request that is in flight?

ASSUME FileAssumption ==
  /\ READ_BUFS_NUM \in Nat \ {0} /\ FileSize \in Nat
  /\ MaxFileOpens \in Nat /\ MaxBlocks \in Nat /\ Overlaps \in BOOLEAN

Buffers == 1..READ_BUFS_NUM

VARIABLES
  file,        \* the members; buffer tells where each read buffer is, silent which
               \* open()s were given no callback; m_read_callback is k for the one
               \* of the block k, 0 for the one of read(); mixed is history: since
               \* the open(), a block was asked for during a reading or another
               \* block, or a reading during a block
  fileOpens,   \* history: calls of open
  position     \* of the descriptors the k-th open() made, in chunks

fileVars == <<file, fileOpens, position>>

\* made: the program has a file.
FileInit(made) ==
  /\ file = [m_state |-> "INITIAL", m_file_handle |-> 0, m_open_request |-> 0,
             m_read_in_progress |-> FALSE, m_done_read |-> FALSE,
             m_need_reschedule_remove |-> FALSE, m_current_offset |-> 0,
             m_stat_req |-> FALSE, buffer |-> [b \in Buffers |-> "free"], exit_blocks |-> 0,
             m_read_callback |-> 0, mixed |-> FALSE, silent |-> {},
             requests |-> {}, posts |-> {}, asked |-> FALSE, reported |-> {},
             removal |-> IF made THEN "none" ELSE "deleted"]
  /\ fileOpens = 0 /\ position = [k \in 1..MaxFileOpens |-> 0]

\* The file becomes f, and what the handler has scheduled is scheduled.
FileBecomes(f) == file' = [f EXCEPT !.posts = {}] /\ scheduled' = scheduled \cup f.posts

OpenFile(k) == Item("open file", k)
FileJobs == {OpenFile(k) : k \in 1..MaxFileOpens} \cup {Item("file refuses", File), Item("on_removal", File)}

is_open(f) == f.m_file_handle # 0
has_read_buffers_in_use(f) == \E b \in Buffers : f.buffer[b] # "free"

\* An open() has been called whose result the user has not been told.
OpenPending(f) == f.reported # 1..fileOpens

-----------------------------------------------------------------------------
(* Methods, as functions on the members *)

Refused(f) == Posting(f, Item("file refuses", File))

close(f, callback) ==
  IF ~is_open(f) THEN Refused(f)
  ELSE IF f.m_state = "CLOSING" THEN f
  ELSE [f EXCEPT !.m_state = "CLOSING", !.requests = @ \cup {Item("close", callback)}]

finish_close(f) == IF f.m_state = "CLOSED" THEN [f EXCEPT !.m_open_request = 0] ELSE f

StartOpen(f, k) ==
  [f EXCEPT !.m_state = "OPENING", !.m_current_offset = 0, !.m_open_request = k,
            !.requests = @ \cup {Item("open", k)}]

open(f, k) == CASE detail_open(f) = "close first" -> close(f, Reopen(k))
                [] detail_open(f) = "now" -> StartOpen(f, k)
                [] detail_open(f) = "later" -> Posting(f, OpenFile(k))

\* Faulty: buffers the user keeps do not put off the removal (rejected by
\* OutlivesRequests).
ForgetsBuffers(f) ==
  IF is_open(f) THEN close([f EXCEPT !.removal = "requested"], ByRemoval)
  ELSE Removing(f, Item("on_removal", File))

schedule_removal(f) ==
  LET asked == [f EXCEPT !.removal = "requested"]
  IN  IF is_open(f) THEN close(asked, ByRemoval)
      ELSE IF has_read_buffers_in_use(f) THEN [asked EXCEPT !.m_need_reschedule_remove = TRUE]
      ELSE Removing(f, Item("on_removal", File))

\* Faulty: the next read does not wait for the last one (rejected by
\* ChunksInOrder).
ReadsAhead(f) ==
  LET free == {b \in Buffers : f.buffer[b] = "free"}
  IN  IF is_open(f) /\ f.removal = "none" /\ f.m_state # "CLOSING" /\ free # {}
      THEN [f EXCEPT !.m_read_in_progress = TRUE, !.buffer[Min(free)] = "reading", !.exit_blocks = @ + 1,
                     !.requests = @ \cup {Item("read", [buffer |-> Min(free), handle |-> f.m_file_handle])}]
      ELSE f

schedule_read(f) ==
  LET free == {b \in Buffers : f.buffer[b] = "free"}
      b == Min(free)
  IN  IF /\ is_open(f) /\ f.removal = "none" /\ f.m_state # "CLOSING"
         /\ ~f.m_read_in_progress /\ free # {}
      THEN [f EXCEPT !.m_read_in_progress = TRUE, !.buffer[b] = "reading", !.exit_blocks = @ + 1,
                     !.requests = @ \cup {Item("read", [buffer |-> b, handle |-> f.m_file_handle])}]
      ELSE f

read(f) ==
  IF is_open(f)
  THEN schedule_read([f EXCEPT !.m_read_callback = 0, !.m_done_read = FALSE, !.asked = TRUE,
                               !.mixed = @ \/ InFlight(f, {"read block"})])
  ELSE f

\* Faulty: a buffer that is given back does not start the next read (rejected by
\* Completes).
NeverResumes(f, b) ==
  LET freed == [f EXCEPT !.buffer[b] = "free", !.exit_blocks = @ - 1]
  IN  IF f.m_need_reschedule_remove /\ ~has_read_buffers_in_use(freed)
      THEN schedule_removal(freed) ELSE freed

\* The deleter of a buffer, called when the last reference to it is dropped.
BufferFreed(f, b) ==
  LET freed == [f EXCEPT !.buffer[b] = "free", !.exit_blocks = @ - 1]
  IN  IF f.m_need_reschedule_remove
      THEN IF has_read_buffers_in_use(freed) THEN freed ELSE schedule_removal(freed)
      ELSE IF f.m_done_read THEN freed ELSE schedule_read(freed)

BlocksLeft(f) == {k \in 1..MaxBlocks : Item("read block", k) \notin f.requests}

\* The callback takes the place of the one the member held, a reading's too.
read_block(f) ==
  LET k == Min(BlocksLeft(f))
  IN  IF is_open(f)
      THEN [f EXCEPT !.m_read_callback = k, !.requests = @ \cup {Item("read block", k)},
                     !.mixed = @ \/ (f.asked /\ ~f.m_done_read) \/ InFlight(f, {"read block"})]
      ELSE f

stat(f) ==
  IF is_open(f) /\ ~f.m_stat_req
  THEN [f EXCEPT !.m_stat_req = TRUE, !.requests = @ \cup {Item("stat", f.m_file_handle)}]
  ELSE Refused(f)

-----------------------------------------------------------------------------
(* What user code calls, in any phase and any callback *)

UserCalls(f) ==
  /\ file.removal = "none" /\ FileBecomes(f)
  /\ UNCHANGED <<phase, jobs, closeRequests, closing, inCallback, position>>

\* Without overlaps, a file is opened again when it is not being read and all
\* its chunks were given back, and is not read before the open() is reported.
CallOpen(silent) ==
  /\ fileOpens < MaxFileOpens
  /\ \/ Overlaps
     \/ \A b \in Buffers :
          file.buffer[b] \in IF file.m_state = "OPENING" THEN {"free"} ELSE {"free", "called"}
  /\ fileOpens' = fileOpens + 1
  /\ LET k == fileOpens + 1
     IN  UserCalls(open([file EXCEPT !.silent = IF silent THEN @ \cup {k} ELSE @], k))

CallRead == (Overlaps \/ ~OpenPending(file)) /\ UserCalls(read(file)) /\ UNCHANGED fileOpens

CallOther(f) == UserCalls(f) /\ UNCHANGED fileOpens

CallReadBlock == BlocksLeft(file) # {} /\ CallOther(read_block(file))

CallClose == CallOther(close(file, ByUser))

\* A file is removed after what was asked of it has been reported, reads apart.
\* While it is being closed, schedule_removal and close call each other for ever.
CallRemoval ==
  /\ \/ Overlaps
     \/ ~InFlight(file, {"open", "read block", "stat"}) /\ (scheduled \cup jobs) \cap FileJobs = {}
  /\ file.m_state # "CLOSING"
  /\ CallOther(schedule_removal(file))

\* The user gives back a chunk.
Release(b) ==
  /\ file.buffer[b] = "kept"
  /\ FileBecomes(BufferFreed(file, b))
  /\ UNCHANGED <<phase, jobs, closeRequests, closing, inCallback, fileOpens, position>>

FileCall == \/ \E silent \in BOOLEAN : CallOpen(silent)
            \/ CallRead \/ CallReadBlock \/ CallClose \/ CallRemoval \/ CallOther(stat(file))
            \/ \E b \in Buffers : Release(b)

-----------------------------------------------------------------------------
(* The loop thread *)

\* The pool has answered a request; f is the file after its handler, up to the
\* callback cb.
Answered(request, f, cb) ==
  /\ Idling("poll") /\ request \in file.requests
  /\ FileBecomes([f EXCEPT !.requests = @ \ {request}])
  /\ inCallback' = cb
  /\ UNCHANGED <<phase, jobs, closeRequests, closing, fileOpens>>

CallbackReturns(kinds, f) ==
  /\ inCallback.kind \in kinds
  /\ FileBecomes(f) /\ inCallback' = NotInCallback
  /\ UNCHANGED <<phase, jobs, closeRequests, closing, fileOpens, position>>

\* The state is set before the callback if the file was opened, else after it.
\* A request that finish_close has detached from the file is dropped.  Without a
\* callback, a file that was opened stays in the state OPENING.
on_open(r, ok) ==
  LET told == [file EXCEPT !.reported = @ \cup {r.id}, !.silent = @ \ {r.id}]
      opened == [told EXCEPT !.m_file_handle = r.id, !.asked = FALSE,
                             !.mixed = @ /\ InFlight(file, {"read block"})]
      silent == r.id \in file.silent
  IN  /\ r.kind = "open" /\ UNCHANGED position
      /\ CASE file.m_open_request # r.id -> Answered(r, file, NotInCallback)
           [] OTHER ->
                CASE ok /\ ~silent -> Answered(r, [opened EXCEPT !.m_state = "OPENED"], Item("file opened", File))
                  [] ok /\ silent -> Answered(r, [opened EXCEPT !.m_open_request = 0], NotInCallback)
                  [] ~ok /\ ~silent -> Answered(r, told, Item("file open failed", File))
                  [] ~ok /\ silent ->
                       Answered(r, [told EXCEPT !.m_open_request = 0, !.m_state = "CLOSED"], NotInCallback)

OpenReturns == CallbackReturns({"file opened"}, [file EXCEPT !.m_open_request = 0])

OpenFailedReturns ==
  CallbackReturns({"file open failed"}, [file EXCEPT !.m_open_request = 0, !.m_state = "CLOSED"])

\* A read is answered with a chunk, with nothing at the end of the file, or
\* with an error; if the file is closed by then, only the buffer is given back.
on_read(r, result) ==
  LET b == r.id.buffer
      h == r.id.handle
      done == [file EXCEPT !.m_read_in_progress = FALSE, !.m_done_read = @ \/ result # "data"]
      chunk == [buffer |-> b, handle |-> h, at |-> position[h]]
  IN  /\ r.kind = "read"
      /\ result # "error" => (result = "data" <=> position[h] < FileSize)
      /\ position' = IF result = "data" THEN [position EXCEPT ![h] = @ + 1] ELSE position
      /\ IF ~is_open(file) THEN Answered(r, BufferFreed(file, b), NotInCallback)
         ELSE IF result = "error" THEN Answered(r, BufferFreed(done, b), NotInCallback)
         ELSE Answered(r, [done EXCEPT !.buffer[b] = "called"], Item(result, chunk))

\* After the callback the next read is started, and then the buffer is given up,
\* unless the user keeps the chunk.
DataReturns(keep) ==
  LET b == inCallback.id.buffer
      next == schedule_read([file EXCEPT !.m_current_offset = @ + 1])
  IN  /\ keep => Overlaps \/ ~OpenPending(file)
      /\ CallbackReturns({"data"},
           IF keep THEN [next EXCEPT !.buffer[b] = "kept"] ELSE BufferFreed(next, b))

EndReturns == CallbackReturns({"end"}, BufferFreed(file, inCallback.id.buffer))

\* The block is given to the callback the member holds now.
on_read_block(r) == /\ r.kind = "read block" /\ Answered(r, file, NotInCallback)
                    /\ UNCHANGED position
on_stat(r) == /\ r.kind = "stat" /\ Answered(r, [file EXCEPT !.m_stat_req = FALSE], NotInCallback)
              /\ UNCHANGED position

on_close(r, ok) ==
  LET f == [file EXCEPT !.m_file_handle = 0, !.m_state = "CLOSED"]
      callback == r.id
  IN  /\ r.kind = "close" /\ UNCHANGED position
      /\ CASE callback = ByUser -> Answered(r, f, Item("file closed", File))
           [] callback = ByRemoval -> Answered(r, finish_close(schedule_removal(f)), NotInCallback)
           [] OTHER -> Answered(r, finish_close(reopen(f, callback.id, OpenFile(callback.id), ok)), NotInCallback)

CloseReturns == CallbackReturns({"file closed"}, finish_close(file))

FileJob(j) ==
  /\ Idling("idle") /\ j \in jobs \cap FileJobs
  /\ jobs' = jobs \ {j}
  /\ IF j.kind = "open file" THEN FileBecomes(open(file, j.id)) ELSE UNCHANGED <<file, scheduled>>
  /\ closeRequests' = IF j.kind = "on_removal" THEN closeRequests \cup {j}
                      ELSE closeRequests
  /\ UNCHANGED <<phase, closing, inCallback, fileOpens, position>>

FileDeleted ==
  /\ Idling("closing") /\ Item("on_removal", File) \in closing
  /\ closing' = closing \ {Item("on_removal", File)}
  /\ file' = [file EXCEPT !.removal = "deleted"]
  /\ UNCHANGED <<phase, scheduled, jobs, closeRequests, inCallback, fileOpens, position>>

Answer(r) ==
  \/ \E ok \in BOOLEAN : on_open(r, ok) \/ on_close(r, ok)
  \/ \E result \in {"data", "end", "error"} : on_read(r, result)
  \/ on_read_block(r) \/ on_stat(r)

\* An answer to a request of one of the kinds.
FileAnswer(kinds) == \E r \in file.requests : r.kind \in kinds /\ Answer(r)

FileStep == \/ OpenReturns \/ OpenFailedReturns \/ EndReturns \/ CloseReturns \/ FileDeleted
            \/ \E keep \in BOOLEAN : DataReturns(keep)
            \/ \E j \in jobs : FileJob(j)
=============================================================================
