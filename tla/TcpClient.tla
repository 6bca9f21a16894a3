----------------------------- MODULE TcpClient ------------------------------
(***************************************************************************)
(* TcpClient: connections made one after the other by the same object.     *)
(* User code may call any method at any time, also from inside a callback; *)
(* the callbacks modelled as inCallback are those after which the library  *)
(* does something.  By src/tests/TcpClientServerTest.cpp:3026              *)
(* schedule_removal is the last call.  The k-th connect() makes the stream *)
(* k, and k stands for its connect and its close callback; 0 is nullptr    *)
(* and a null callback.  Data is left out: the writes of a stream that are *)
(* in progress are one request, as are its connect and its shutdown.       *)
(***************************************************************************)
EXTENDS LoopPhases

CONSTANTS MaxConnects,      \* bound on the calls of connect()
          Anytime           \* may connect() be called before the last connection is over, and the
                            \* removal follow a connect() or close() not yet acted on?

ASSUME TcpClientAssumption ==
  MaxConnects \in Nat /\ Anytime \in BOOLEAN

Connects == 1..MaxConnects

VARIABLES
  m_tcp_stream,
  m_is_open,
  m_connect_callback,
  m_close_callback,
  m_want_delete_object,
  stream,                \* the uv_tcp_t of each connect()
  connects,              \* history: calls of connect()
  connectCalls,          \* history: calls of each connect callback
  result,                \* history: what the connect callback was told
  closeCalls,            \* history: calls of each close callback
  removals,              \* calls of Removable::schedule_removal
  deleted,               \* deletions of the client
  nullUsed,              \* a null m_tcp_stream was dereferenced: the process is dead
  closedTwice            \* history: uv_close was called on a closing handle

members == <<m_tcp_stream, m_is_open, m_connect_callback, m_close_callback, m_want_delete_object>>
reports == <<connectCalls, result, closeCalls>>
flags == <<nullUsed, closedTwice>>
vars == <<loopVars, members, stream, connects, reports, removals, deleted, flags>>

\* A uv_tcp_t: is its data the client, is it being read, which requests with
\* the client as their data are in progress, was shutdown() called for it.
NoStream == [state |-> "none", data |-> FALSE, reading |-> FALSE, requests |-> {}, shut |-> FALSE]

Init == /\ LoopInit
        /\ m_tcp_stream = 0 /\ m_is_open = FALSE
        /\ m_connect_callback = 0 /\ m_close_callback = 0 /\ m_want_delete_object = FALSE
        /\ stream = [k \in Connects |-> NoStream]
        /\ connects = 0 /\ connectCalls = [k \in Connects |-> 0]
        /\ result = [k \in Connects |-> "none"] /\ closeCalls = [k \in Connects |-> 0]
        /\ removals = 0 /\ deleted = 0
        /\ nullUsed = FALSE /\ closedTwice = FALSE

-----------------------------------------------------------------------------
(* Helpers *)

\* The counts after callback k, if it is not null, was called.
Called(calls, k) == [i \in Connects |-> IF i = k THEN calls[i] + 1 ELSE calls[i]]

ConnectReported(k, r) == /\ connectCalls' = Called(connectCalls, k)
                         /\ result' = [i \in Connects |-> IF i = k THEN r ELSE result[i]]

IsOpenStream(s) == s # 0 /\ stream[s].state = "open"
Closing(st) == [st EXCEPT !.state = "closing", !.reading = FALSE]
Handles(s) == IF s = 0 THEN {} ELSE {Item("stream", s)}

\* No connect() waits to be acted on and no close() to be reported.
Quiet == /\ \A j \in scheduled \cup jobs : j.kind # "connect"
         /\ \A s \in Connects : stream[s].state = "closing" => ~stream[s].data

\* Nothing of an earlier connection is left that can still call a callback.
Settled == ~m_is_open /\ Quiet /\ \A s \in Connects : "connect" \notin stream[s].requests

Usable == ~m_want_delete_object

-----------------------------------------------------------------------------
(* Methods *)

\* Faulty variants stand before the definitions they are variants of, with the
\* property that rejects each.  StreamKept: the old stream is not closed.
ForgetsStream(withClose) ==
  /\ Usable /\ connects < MaxConnects /\ (Anytime \/ Settled)
  /\ connects' = connects + 1
  /\ m_tcp_stream' = 0
  /\ scheduled' = scheduled \cup {Item("connect", <<connects + 1, withClose>>)}
  /\ UNCHANGED <<phase, jobs, closeRequests, closing, inCallback, stream, m_is_open,
                 m_connect_callback, m_close_callback, m_want_delete_object, reports, removals,
                 deleted, flags>>

connect(withClose) ==
  /\ Usable /\ connects < MaxConnects /\ (Anytime \/ Settled)
  /\ connects' = connects + 1
  /\ m_tcp_stream' = 0
  /\ stream' = [s \in Connects |->
       IF s = m_tcp_stream THEN [Closing(stream[s]) EXCEPT !.data = FALSE] ELSE stream[s]]
  /\ closeRequests' = closeRequests \cup Handles(m_tcp_stream)
  /\ closedTwice' = (closedTwice \/ (m_tcp_stream # 0 /\ ~IsOpenStream(m_tcp_stream)))
  /\ scheduled' = scheduled \cup {Item("connect", <<connects + 1, withClose>>)}
  /\ UNCHANGED <<phase, jobs, closing, inCallback, m_is_open, m_connect_callback, m_close_callback,
                 m_want_delete_object, reports, removals, deleted, nullUsed>>

\* uv_close of the current stream unless it is closing, and m_tcp_stream reset.
CloseStream ==
  /\ m_is_open' = FALSE
  /\ IF IsOpenStream(m_tcp_stream)
     THEN /\ stream' = [stream EXCEPT ![m_tcp_stream] = Closing(@)]
          /\ closeRequests' = closeRequests \cup Handles(m_tcp_stream)
          /\ m_tcp_stream' = 0
     ELSE UNCHANGED <<stream, closeRequests, m_tcp_stream>>

close ==
  /\ Usable
  /\ CloseStream
  /\ UNCHANGED <<phase, scheduled, jobs, closing, inCallback, m_connect_callback, m_close_callback,
                 m_want_delete_object, connects, reports, removals, deleted, flags>>

\* uv_tcp_close_reset refuses a stream that is being shut down, and its result
\* is not looked at; on any other stream it does what uv_close does.
close_with_reset ==
  /\ Usable
  /\ IsOpenStream(m_tcp_stream) /\ "shutdown" \in stream[m_tcp_stream].requests
  /\ m_is_open' = FALSE /\ m_tcp_stream' = 0
  /\ UNCHANGED <<loopVars, stream, m_connect_callback, m_close_callback, m_want_delete_object,
                 connects, reports, removals, deleted, flags>>

\* A second uv_shutdown of a stream fails and changes nothing.
shutdown ==
  /\ Usable /\ m_is_open
  /\ nullUsed' = (nullUsed \/ m_tcp_stream = 0)
  /\ stream' = [s \in Connects |-> IF s = m_tcp_stream
       THEN [stream[s] EXCEPT !.requests = @ \cup {"shutdown"}, !.shut = TRUE] ELSE stream[s]]
  /\ UNCHANGED <<loopVars, members, connects, reports, removals, deleted, closedTwice>>

\* On a client that is not open send_data only calls back an error.
send_data ==
  /\ Usable /\ m_is_open
  /\ nullUsed' = (nullUsed \/ m_tcp_stream = 0)
  /\ stream' = [s \in Connects |-> IF s = m_tcp_stream
       THEN [stream[s] EXCEPT !.requests = @ \cup {"write"}] ELSE stream[s]]
  /\ UNCHANGED <<loopVars, members, connects, reports, removals, deleted, closedTwice>>

\* DeletedLast: the removal does not wait for on_close.
RemovesAtOnce ==
  /\ m_want_delete_object' = TRUE
  /\ CloseStream
  /\ removals' = removals + 1
  /\ scheduled' = scheduled \cup {Item("remove", removals + 1)}
  /\ UNCHANGED <<phase, jobs, closing, m_connect_callback, m_close_callback, connects, reports,
                 deleted, flags>>

\* schedule_removal of the client: Removable's is called at once if there is no
\* stream to close, else by on_close.
Remove ==
  /\ m_want_delete_object' = TRUE
  /\ CloseStream
  /\ IF IsOpenStream(m_tcp_stream)
     THEN UNCHANGED <<removals, scheduled>>
     ELSE /\ removals' = removals + 1
          /\ scheduled' = scheduled \cup {Item("remove", removals + 1)}
  /\ UNCHANGED <<phase, jobs, closing, m_connect_callback, m_close_callback, connects, reports,
                 deleted, flags>>

schedule_removal == Usable /\ (Anytime \/ Quiet) /\ Remove /\ UNCHANGED inCallback

-----------------------------------------------------------------------------
(* The loop thread: connecting and reading *)

\* The stream and the callbacks connect_impl sets.
StartConnect(k, withClose, requests) ==
  /\ m_tcp_stream' = k
  /\ m_connect_callback' = k
  /\ m_close_callback' = IF withClose THEN k ELSE 0
  /\ stream' = [stream EXCEPT ![k] = [state |-> "open", data |-> TRUE, reading |-> FALSE,
                                      requests |-> requests, shut |-> FALSE]]

connect_impl(k, withClose, outcome) ==
  /\ Idling("idle") /\ Item("connect", <<k, withClose>>) \in jobs
  /\ jobs' = jobs \ {Item("connect", <<k, withClose>>)}
  /\ \/ /\ outcome = "invalid endpoint"
        /\ ConnectReported(k, "error")
        /\ UNCHANGED <<m_tcp_stream, m_connect_callback, m_close_callback, stream>>
     \/ /\ outcome = "failed"
        /\ StartConnect(k, withClose, {})
        /\ ConnectReported(k, "failed")
     \/ /\ outcome = "started"
        /\ StartConnect(k, withClose, {"connect"})
        /\ UNCHANGED <<connectCalls, result>>
  /\ UNCHANGED <<phase, scheduled, closeRequests, closing, inCallback, m_is_open,
                 m_want_delete_object, connects, closeCalls, removals, deleted, nullUsed, closedTwice>>

\* on_connect with an error: no other callback is to be called.
ConnectFailed ==
  /\ m_is_open' = FALSE
  /\ m_close_callback' = 0
  /\ ConnectReported(m_connect_callback, "error")

\* A reset is reported as a connection that was made and closed.
ConnectReset ==
  /\ m_is_open' = FALSE
  /\ m_close_callback' = 0
  /\ ConnectReported(m_connect_callback, "ok")
  /\ closeCalls' = Called(closeCalls, m_close_callback)

on_connect(s, status) ==
  /\ Idling("poll") /\ stream[s].state = "open" /\ "connect" \in stream[s].requests
  /\ stream' = [stream EXCEPT ![s].requests = {}]
  /\ \/ /\ status = "ok"
        /\ m_is_open' = TRUE
        /\ ConnectReported(m_connect_callback, "ok")
        /\ inCallback' = Item("connected", s)
        /\ UNCHANGED <<m_close_callback, closeCalls>>
     \/ status = "error" /\ ConnectFailed /\ UNCHANGED <<inCallback, closeCalls>>
     \/ status = "reset" /\ ConnectReset /\ UNCHANGED inCallback
  /\ UNCHANGED <<phase, scheduled, jobs, closeRequests, closing, m_tcp_stream, m_connect_callback,
                 m_want_delete_object, connects, removals, deleted, flags>>

\* The connect callback has returned: uv_read_start, which fails if the
\* callback made libuv close the stream.
ConnectedReturns(s) ==
  /\ inCallback = Item("connected", s)
  /\ inCallback' = NotInCallback
  /\ IF m_is_open /\ ~IsOpenStream(s)
     THEN closeCalls' = Called(closeCalls, m_close_callback) /\ UNCHANGED stream
     ELSE stream' = [stream EXCEPT ![s].reading = m_is_open] /\ UNCHANGED closeCalls
  /\ UNCHANGED <<phase, scheduled, jobs, closeRequests, closing, members, connects, connectCalls,
                 result, removals, deleted, flags>>

\* ReportedOnce: the stream keeps its data, and on_close calls back again.
KeepsData(s) ==
  /\ Idling("poll") /\ stream[s].reading
  /\ stream' = [stream EXCEPT ![s].reading = FALSE]
  /\ IF m_close_callback = 0
     THEN UNCHANGED <<m_is_open, m_tcp_stream, closeCalls, inCallback>>
     ELSE /\ m_is_open' = FALSE /\ m_tcp_stream' = 0
          /\ closeCalls' = Called(closeCalls, m_close_callback)
          /\ inCallback' = Item("read error", m_tcp_stream)
  /\ UNCHANGED <<phase, scheduled, jobs, closeRequests, closing, m_connect_callback, m_close_callback,
                 m_want_delete_object, connects, connectCalls, result, removals, deleted, flags>>

\* on_read with an error or the end of the stream, after which libuv reads no
\* more.  Without a close callback nothing happens, else the stream is given up
\* and the callback called ...
on_read(s) ==
  /\ Idling("poll") /\ stream[s].reading
  /\ IF m_close_callback = 0
     THEN /\ stream' = [stream EXCEPT ![s].reading = FALSE]
          /\ UNCHANGED <<m_is_open, m_tcp_stream, closeCalls, inCallback, nullUsed>>
     ELSE /\ m_is_open' = FALSE /\ m_tcp_stream' = 0
          /\ nullUsed' = (nullUsed \/ m_tcp_stream = 0)
          /\ stream' = [i \in Connects |->
               [stream[i] EXCEPT !.reading = @ /\ i # s, !.data = @ /\ i # m_tcp_stream]]
          /\ closeCalls' = Called(closeCalls, m_close_callback)
          /\ inCallback' = Item("read error", m_tcp_stream)
  /\ UNCHANGED <<phase, scheduled, jobs, closeRequests, closing, m_connect_callback, m_close_callback,
                 m_want_delete_object, connects, connectCalls, result, removals, deleted, closedTwice>>

\* ... and it is closed when the callback has returned.
ReadErrorReturns(s) ==
  /\ inCallback = Item("read error", s)
  /\ inCallback' = NotInCallback
  /\ stream' = [i \in Connects |-> IF i = s THEN Closing(stream[i]) ELSE stream[i]]
  /\ closeRequests' = closeRequests \cup Handles(s)
  /\ closedTwice' = (closedTwice \/ (s # 0 /\ ~IsOpenStream(s)))
  /\ UNCHANGED <<phase, scheduled, jobs, closing, members, connects, reports, removals, deleted,
                 nullUsed>>

after_write(s) ==
  /\ Idling("poll") /\ stream[s].state = "open" /\ "write" \in stream[s].requests
  /\ stream' = [stream EXCEPT ![s].requests = @ \ {"write"}]
  /\ UNCHANGED <<loopVars, members, connects, reports, removals, deleted, flags>>

-----------------------------------------------------------------------------
(* The loop thread: shutdown, closing and removal *)

\* What on_shutdown of stream s, left as st, does after the close callback: it
\* asks whether the client's current stream, which close() and schedule_removal
\* have set to null, is closing, and closes its own.
FinishShutdown(s, st) ==
  /\ m_is_open' = FALSE
  /\ nullUsed' = (nullUsed \/ m_tcp_stream = 0)
  /\ IF IsOpenStream(m_tcp_stream)
     THEN /\ m_tcp_stream' = 0
          /\ stream' = [stream EXCEPT ![s] = Closing(st)]
          /\ closeRequests' = closeRequests \cup Handles(s)
          /\ closedTwice' = (closedTwice \/ ~IsOpenStream(s))
     ELSE /\ stream' = [stream EXCEPT ![s] = st]
          /\ UNCHANGED <<m_tcp_stream, closeRequests, closedTwice>>

\* The shutdown completes when the writes are done; an error is told to the
\* close callback first ...
on_shutdown(s, status) ==
  /\ Idling("poll") /\ stream[s].state = "open" /\ stream[s].requests = {"shutdown"}
  /\ IF status = "error" /\ m_close_callback # 0
     THEN /\ closeCalls' = Called(closeCalls, m_close_callback)
          /\ inCallback' = Item("shutdown", s)
          /\ stream' = [stream EXCEPT ![s].requests = {}]
          /\ UNCHANGED <<closeRequests, m_is_open, m_tcp_stream, nullUsed, closedTwice>>
     ELSE /\ FinishShutdown(s, [stream[s] EXCEPT !.requests = {}])
          /\ UNCHANGED <<closeCalls, inCallback>>
  /\ UNCHANGED <<phase, scheduled, jobs, closing, m_connect_callback, m_close_callback,
                 m_want_delete_object, connects, connectCalls, result, removals, deleted>>

\* ... after which on_shutdown goes on.
ShutdownReturns(s) ==
  /\ inCallback = Item("shutdown", s)
  /\ inCallback' = IF phase = "closing" THEN Item("cancelled", s) ELSE NotInCallback
  /\ FinishShutdown(s, stream[s])
  /\ UNCHANGED <<phase, scheduled, jobs, closing, m_connect_callback, m_close_callback,
                 m_want_delete_object, connects, reports, removals, deleted>>

\* Completes: a connect that was cancelled is not reported.
CancelsSilently(s) ==
  /\ Idling("closing") /\ Item("stream", s) \in closing /\ stream[s].requests # {}
  /\ stream' = [stream EXCEPT ![s].requests = {}]
  /\ inCallback' = Item("cancelled", s)
  /\ m_is_open' = FALSE /\ m_close_callback' = 0
  /\ UNCHANGED <<phase, scheduled, jobs, closeRequests, closing, m_tcp_stream, m_connect_callback,
                 m_want_delete_object, connects, reports, removals, deleted, flags>>

\* Before it calls on_close libuv cancels the requests of the stream, which
\* call their callbacks.
Cancel(s) ==
  /\ Idling("closing") /\ Item("stream", s) \in closing /\ stream[s].requests # {}
  /\ stream' = [stream EXCEPT ![s].requests = {}]
  /\ \/ /\ "connect" \in stream[s].requests
        /\ ConnectFailed
        /\ inCallback' = Item("cancelled", s)
        /\ UNCHANGED closeCalls
     \/ /\ "shutdown" \in stream[s].requests
        /\ closeCalls' = Called(closeCalls, m_close_callback)
        /\ inCallback' = Item("shutdown", s)
        /\ UNCHANGED <<m_is_open, m_close_callback, connectCalls, result>>
     \/ /\ stream[s].requests = {"write"}
        /\ inCallback' = Item("cancelled", s)
        /\ UNCHANGED <<m_is_open, m_close_callback, reports>>
  /\ UNCHANGED <<phase, scheduled, jobs, closeRequests, closing, m_tcp_stream, m_connect_callback,
                 m_want_delete_object, connects, removals, deleted, flags>>

\* on_close calls the close callback, and has read m_want_delete_object before ...
on_close(s) ==
  /\ phase = "closing" /\ Item("stream", s) \in closing
  /\ \/ inCallback = Item("cancelled", s)
     \/ inCallback = NotInCallback /\ stream[s].requests = {}
  /\ closing' = closing \ {Item("stream", s)}
  /\ stream' = [stream EXCEPT ![s].state = "closed"]
  /\ IF stream[s].data
     THEN /\ closeCalls' = Called(closeCalls, m_close_callback)
          /\ inCallback' = Item("closed", <<s, m_want_delete_object>>)
     ELSE /\ inCallback' = NotInCallback /\ UNCHANGED closeCalls
  /\ UNCHANGED <<phase, scheduled, jobs, closeRequests, members, connects, connectCalls, result,
                 removals, deleted, flags>>

\* ... and removes the client if the removal was asked for before the callback.
ClosedReturns(s, shouldDelete) ==
  /\ inCallback = Item("closed", <<s, shouldDelete>>)
  /\ inCallback' = NotInCallback
  /\ IF shouldDelete
     THEN Remove
     ELSE UNCHANGED <<phase, scheduled, jobs, closeRequests, closing, members, stream, connects,
                      reports, removals, deleted, flags>>

\* Removable::on_removal and the deletion that follows it.
on_removal(n) ==
  /\ Idling("idle") /\ Item("remove", n) \in jobs
  /\ jobs' = jobs \ {Item("remove", n)}
  /\ closeRequests' = closeRequests \cup {Item("removal", n)}
  /\ UNCHANGED <<phase, scheduled, closing, inCallback, members, stream, connects, reports,
                 removals, deleted, flags>>

Delete(n) ==
  /\ Idling("closing") /\ Item("removal", n) \in closing
  /\ closing' = closing \ {Item("removal", n)}
  /\ deleted' = deleted + 1
  /\ UNCHANGED <<phase, scheduled, jobs, closeRequests, inCallback, members, stream, connects,
                 reports, removals, flags>>

EnterPhase ==
  /\ BeginClosing \/ BeginIdle \/ BeginPoll
  /\ UNCHANGED <<members, stream, connects, reports, removals, deleted, flags>>

Call ==
  \/ \E withClose \in BOOLEAN : connect(withClose)
  \/ close \/ close_with_reset \/ shutdown \/ send_data \/ schedule_removal

Completion(s) ==
  /\ ~nullUsed
  /\ \/ \E status \in {"ok", "error", "reset"} : on_connect(s, status)
     \/ \E status \in {"ok", "error"} : on_shutdown(s, status)
     \/ after_write(s)

CallbackReturns(s) ==
  \/ ConnectedReturns(s) \/ ReadErrorReturns(s) \/ ShutdownReturns(s)
  \/ \E shouldDelete \in BOOLEAN : ClosedReturns(s, shouldDelete)

LoopStep ==
  /\ ~nullUsed
  /\ \/ \E s \in Connects : CallbackReturns(s) \/ Cancel(s) \/ on_close(s)
     \/ \E k \in Connects, withClose \in BOOLEAN, outcome \in {"invalid endpoint", "failed", "started"} :
          connect_impl(k, withClose, outcome)
     \/ \E n \in 1..removals : on_removal(n) \/ Delete(n)
     \/ EnterPhase

\* The process died of a null m_tcp_stream.
Stopped == nullUsed /\ UNCHANGED vars

Next == \/ ~nullUsed /\ Call
        \/ \E s \in Connects : (~nullUsed /\ on_read(s)) \/ Completion(s)
        \/ LoopStep
        \/ Stopped

Spec == Init /\ [][Next]_vars

\* The loop iterates, callbacks return, and the network lets every connect,
\* write and shutdown complete.
FairSpec == Spec /\ WF_vars(LoopStep) /\ \A s \in Connects : SF_vars(Completion(s))

-----------------------------------------------------------------------------
(* Properties *)

\* Every variable of the client and the loop has its type.
TypeOK ==
  /\ LoopTypeOK
  /\ m_tcp_stream \in 0..MaxConnects /\ m_is_open \in BOOLEAN /\ m_want_delete_object \in BOOLEAN
  /\ m_connect_callback \in 0..MaxConnects /\ m_close_callback \in 0..MaxConnects
  /\ stream \in [Connects -> [state : {"none", "open", "closing", "closed"}, data : BOOLEAN,
                              reading : BOOLEAN, requests : SUBSET {"connect", "write", "shutdown"},
                              shut : BOOLEAN]]
  /\ connects \in 0..MaxConnects
  /\ connectCalls \in [Connects -> Nat] /\ closeCalls \in [Connects -> Nat]
  /\ result \in [Connects -> {"none", "ok", "error", "failed"}]
  /\ removals \in Nat /\ deleted \in Nat
  /\ nullUsed \in BOOLEAN /\ closedTwice \in BOOLEAN

Shut == \E s \in Connects : stream[s].shut

\* Each connect() is reported at most once.  As long as shutdown() was not
\* called, its close callback is called at most once too, whether the peer, the
\* user, a removal or a new connect() ends the connection, and only if the
\* connect callback was told that the connection was made (TcpClient.cpp:229),
\* or that uv_tcp_connect failed, which leaves the close callback set.  uv_close
\* is never called on a closing handle, also after shutdown().
ReportedOnce ==
  /\ TypeOK /\ ~closedTwice
  /\ \A k \in Connects :
       /\ connectCalls[k] <= 1
       /\ ~Shut => /\ closeCalls[k] <= 1
                   /\ closeCalls[k] > 0 => result[k] \in {"ok", "failed"}

\* As long as shutdown() was not called, m_tcp_stream is not null where it is
\* dereferenced, which would end the process, and no stream is forgotten: one that is open is the current
\* one, or given up by on_read, which is about to close it.
StreamKept == ~Shut =>
  /\ ~nullUsed
  /\ \A s \in Connects : stream[s].state = "open" =>
       s = m_tcp_stream \/ inCallback = Item("read error", s)

\* The client is deleted once, and only when no stream refers to it, as long as
\* shutdown() was not called.
DeletedLast == ~Shut =>
  /\ removals <= 1
  /\ deleted > 0 => \A s \in Connects : /\ stream[s].requests = {}
                                        /\ stream[s].data => stream[s].state \in {"closed", "none"}

\* What was asked for is done in the end: a client whose removal was asked for
\* is deleted, and every connect() is reported, also when it is cancelled.  Only
\* shutdown() may keep it from being done: followed by close(), a removal or a
\* new connect(), it leaves on_shutdown a null m_tcp_stream (TcpClient.cpp:201).
Completes ==
  /\ m_want_delete_object ~> (deleted > 0 \/ (Shut /\ nullUsed))
  /\ \A k \in Connects : (connects = k) ~> (connectCalls[k] > 0 \/ (Shut /\ nullUsed))
=============================================================================
