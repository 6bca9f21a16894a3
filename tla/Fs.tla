--------------------------------- MODULE Fs ---------------------------------
(***************************************************************************)
(* The file system part of the library on an event loop: a program that    *)
(* has a File, one that has a Dir, one that calls make_all_dirs and        *)
(* remove_dir, or one that makes single requests (resolve_host is another  *)
(* of their kind).  (Together, the steps of one do not touch the state of  *)
(* the others.)                                                            *)
(***************************************************************************)
EXTENDS File, Dir, DirTree, PoolRequests

vars == <<loopVars, fileVars, dirVars, treeVars, requestVars>>

Init == /\ LoopInit
        /\ \E program \in {"file", "dir", "tree", "requests"} :
             /\ FileInit(program = "file") /\ DirInit(program = "dir") /\ TreeInit(program = "tree")
             /\ RequestInit(program = "requests")

\* The steps of make_all_dirs and remove_dir are the same in all phases.
LoopStep == /\ remover.pc = "absent" /\ is_running
            /\ BeginClosing \/ BeginIdle \/ BeginPoll
            /\ UNCHANGED <<fileVars, dirVars, treeVars, requestVars>>

OfFile(A) == A /\ UNCHANGED <<dirVars, treeVars, requestVars>>
OfDir(A) == A /\ UNCHANGED <<fileVars, treeVars, requestVars>>
OfTree(A) == A /\ UNCHANGED <<loopVars, fileVars, dirVars, requestVars>>
OfRequests(A) == A /\ UNCHANGED <<fileVars, dirVars, treeVars>>

Next == \/ LoopStep
        \/ OfFile(FileCall \/ FileAnswer({"open", "read", "read block", "stat", "close"}) \/ FileStep)
        \/ OfDir(DirCall \/ DirAnswer \/ DirStep)
        \/ OfTree(TreeCall \/ TreeStep)
        \/ OfRequests(run \/ RequestCall \/ RequestAnswer \/ RequestStep)

Spec == Init /\ [][Next]_vars

\* The loop keeps turning and callbacks return; the pool answers every request,
\* and the loop calls its handler in one of the poll phases; the calls of a
\* thread proceed; and user code gives every chunk back.
FairSpec == /\ Spec
            /\ WF_vars(LoopStep)
            /\ WF_vars(OfFile(FileStep) \/ OfDir(DirStep) \/ OfTree(TreeStep) \/ OfRequests(RequestStep))
            /\ WF_vars(OfRequests(run))
            /\ WF_vars(OfFile(\E b \in Buffers : Release(b)))
            /\ SF_vars(OfFile(FileAnswer({"open"})) \/ OfDir(DirAnswer) \/ OfRequests(RequestAnswer))
            /\ SF_vars(OfFile(FileAnswer({"read"}))) /\ SF_vars(OfFile(FileAnswer({"close"})))

-----------------------------------------------------------------------------
\* The types of the members.
TypeOK ==
  /\ LoopTypeOK
  /\ file \in [m_state : {"INITIAL", "OPENING", "OPENED", "CLOSING", "CLOSED"},
               m_file_handle : 0..MaxFileOpens, m_open_request : 0..MaxFileOpens,
               m_read_in_progress : BOOLEAN, m_done_read : BOOLEAN,
               m_need_reschedule_remove : BOOLEAN, m_current_offset : 0..FileSize,
               m_stat_req : BOOLEAN, buffer : [Buffers -> {"free", "reading", "called", "kept"}],
               m_read_callback : 0..MaxBlocks, mixed : BOOLEAN,
               silent : SUBSET (1..MaxFileOpens), exit_blocks : 0..READ_BUFS_NUM, requests : SUBSET file.requests, posts : {{}},
               asked : BOOLEAN, reported : SUBSET (1..MaxFileOpens),
               removal : {"none", "requested", "scheduled", "deleted"}]
  /\ dir \in [m_state : {"INITIAL", "OPENING", "OPENED", "WANTCLOSE", "CLOSING", "CLOSED"},
              m_uv_dir : 0..MaxDirOpens, m_read_request : {"none", "plain", "continued"},
              left : 0..DirSize, requests : SUBSET dir.requests, posts : {{}},
              reported : SUBSET (1..MaxDirOpens),
              removal : {"none", "requested", "scheduled", "deleted"}]

\* A chunk handed to the user comes from the file that is open now, which the
\* user has asked to read, at the offset it is said to have: no chunk is lost,
\* repeated or reordered, however many buffers the user keeps.  The answer to a read
\* will be given to the callback of the reading, and a block to its own, unless
\* readings and blocks were mixed: read() and read_block() keep their callbacks in
\* one member, so that a block asked for during a reading takes over the chunks
\* that are left.  And the loop is blocked from exit once for every buffer that is not free.
ChunksInOrder ==
  /\ TypeOK
  /\ file.exit_blocks = Cardinality({b \in Buffers : file.buffer[b] # "free"})
  /\ Cardinality({b \in Buffers : file.buffer[b] = "reading"}) <= 1
  /\ inCallback.kind = "data" =>
       /\ inCallback.id.handle = file.m_file_handle /\ file.asked
       /\ inCallback.id.at = file.m_current_offset
  /\ ~file.mixed => \A r \in file.requests :
       /\ r.kind = "read" => file.m_read_callback = 0
       /\ r.kind = "read block" => file.m_read_callback = r.id

\* A File or Dir is deleted only when no request, scheduled callback or chunk
\* refers to it any more; no directory is read while it is being closed; and a
\* single request is deleted when its callback, called once, has returned.
OutlivesRequests ==
  /\ file.removal = "deleted" =>
       /\ file.requests = {} /\ (scheduled \cup jobs) \cap FileJobs = {}
       /\ ~has_read_buffers_in_use(file) /\ inCallback.kind \notin {"data", "end", "file closed"}
  /\ dir.removal = "deleted" =>
       /\ dir.requests = {} /\ (scheduled \cup jobs) \cap DirJobs = {}
       /\ dir.m_read_request = "none" /\ inCallback.kind # "entry"
  /\ Cardinality(dir.requests) <= 1
  /\ InFlight(dir, {"readdir"}) \/ inCallback.kind = "entry" => dir_is_open(dir)
  /\ \A r \in Requests : AnsweredOnce(r)

\* make_all_dirs that reports OK has made its path (unless remove_dir is called
\* too), reports that path, and has made no directory but those on the way to it.
OkMeansMade ==
  /\ \A m \in Makers : maker[m].result = "OK" =>
       /\ maker[m].p = normal_names(maker[m].path, "..")
       /\ remover.pc = "idle" => tree[maker[m].p] = "dir"
  /\ \A p \in created : \E m \in Makers :
       LET path == normal_names(maker[m].path, "..") IN p = path \/ Inside(p, path)

\* remove_dir, alone on its tree, removes all of it whatever the tree is, fails
\* only if it is not allowed to unlink a file, and reports every directory once
\* and after those inside it.
RemovesAll ==
  {m \in Makers : maker[m].pc # "idle"} = {} /\ remover.pc \notin {"idle", "absent"} =>
    /\ remover.result = "error" => remover.failed
    /\ remover.result = "OK" => \A p \in Paths : tree[p] = "none"
    /\ \A i, j \in DOMAIN remover.progress : i < j =>
         /\ remover.progress[i] # remover.progress[j]
         /\ ~Inside(remover.progress[i], remover.progress[j])

\* make_all_dirs and remove_dir do what they report, whatever the tree was and
\* however two calls of them interleave.
TreeAsReported == OkMeansMade /\ RemovesAll

\* What was asked for happens.  A removal is completed once the chunks are given
\* back; an open() is answered (but one after an open() without a callback, which
\* leaves the file OPENING, waits for a close()), and so are single requests, also
\* those made before the loop runs; a file is read to its end (if no close() has overtaken a read
\* before: then m_read_in_progress stays set); a Dir closed during a listing is
\* closed; make_all_dirs and remove_dir end.
Removal == {file.removal, dir.removal} \cap {"requested", "scheduled"} # {}
Unanswered == \/ file.removal = "none" /\ OpenPending(file)
              \/ dir.removal = "none" /\ dir.reported # 1..dirOpens
              \/ \E r \in Requests : request[r].state \notin {"none", "absent", "deleted"}
Reading == /\ file.asked /\ file.m_state = "OPENED" /\ ~file.m_done_read
           /\ file.m_read_in_progress => InFlight(file, {"read"})
TreeBusy == \E call \in {remover} \cup Range(maker) : call.pc \notin {"idle", "done", "absent"}
Completes == /\ Removal ~> ~Removal /\ file.removal = dir.removal
             /\ Unanswered ~> (~Unanswered \/ (file.m_state = "OPENING" /\ is_open(file)))
             /\ Reading ~> ~Reading
             /\ dir.m_state = "WANTCLOSE" ~> ~dir_is_open(dir)
             /\ TreeBusy ~> ~TreeBusy
=============================================================================
