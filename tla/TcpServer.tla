----------------------------- MODULE TcpServer ------------------------------
(***************************************************************************)
(* TcpServer and its TcpConnectedClients.  User code may call any method   *)
(* at any time, also from inside the library's callbacks, of which the     *)
(* ones modelled as inCallback are those the library does something after. *)
(* What is read is left out.  By src/tests/TcpClientServerTest.cpp:3026            *)
(* schedule_removal is the last call made on a server.  The callback given *)
(* to close() or shutdown() is the number of the call, 0 is a null one.    *)
(***************************************************************************)
EXTENDS LoopPhases

CONSTANTS Clients,            \* connections, each accepted at most once
          Server,             \* stands for the server in the jobs of the loop
          MaxListens,         \* bound on the successful calls of listen()
          MaxCloses,          \* bound on close() and shutdown() with a callback
          MaxWrites,          \* bound on the writes in progress of a client
          CallsWhileClosing   \* may listen() or close() follow before the last close() is reported?

ASSUME TcpServerAssumption ==
  /\ Server \notin Clients
  /\ MaxListens \in Nat /\ MaxCloses \in Nat /\ MaxWrites \in Nat
  /\ CallsWhileClosing \in BOOLEAN

VARIABLES
  m_server_handle,         \* a number, 0 is nullptr
  handle,                  \* the state of each handle
  listens,                 \* history: handles made
  m_is_open,
  m_end_server_callback,
  m_client_connections,
  removal,                 \* of the server
  client,                  \* the TcpConnectedClient of each connection
  closes,                  \* history: callbacks given to close() and shutdown()
  ended,                   \* history: calls of each of them
  emptyCalled,             \* history: an empty std::function was called
  closedTwice              \* history: uv_close was called on a closing handle

serverVars == <<m_server_handle, handle, listens, m_is_open, m_end_server_callback,
                m_client_connections, removal>>
vars == <<loopVars, serverVars, client, closes, ended, emptyCalled, closedTwice>>

NoClient == [object |-> "none", accepted |-> FALSE, m_is_open |-> FALSE,
             m_close_callback |-> TRUE, m_pending_write_requests |-> 0,
             stream |-> "none", shutting |-> FALSE, reading |-> FALSE, closes |-> 0]

Init == /\ LoopInit
        /\ m_server_handle = 0 /\ handle = [h \in 1..MaxListens |-> "none"] /\ listens = 0
        /\ m_is_open = FALSE /\ m_end_server_callback = 0 /\ m_client_connections = {}
        /\ removal = "none" /\ client = [c \in Clients |-> NoClient]
        /\ closes = 0 /\ ended = [k \in 1..MaxCloses |-> 0]
        /\ emptyCalled = FALSE /\ closedTwice = FALSE

-----------------------------------------------------------------------------
(* Methods of a client *)

\* The clients of cs that are open, as closed by TcpConnectedClient::close.
Open(cs) == {c \in cs : client[c].m_is_open}
Closed(cs) == [c \in Clients |-> IF c \in Open(cs)
                 THEN [client[c] EXCEPT !.m_is_open = FALSE, !.stream = "closing", !.reading = FALSE]
                 ELSE client[c]]
StreamsOf(cs) == {Item("client", c) : c \in Open(cs)}

\* close() and close_with_reset().
client_close(c) ==
  /\ client[c].m_is_open
  /\ client' = Closed({c})
  /\ closeRequests' = closeRequests \cup StreamsOf({c})
  /\ UNCHANGED <<phase, scheduled, jobs, closing, inCallback, serverVars, closes, ended,
                 emptyCalled, closedTwice>>

ShutDown(cs) == [c \in Clients |-> IF c \in Open(cs)
                   THEN [client[c] EXCEPT !.m_is_open = FALSE, !.shutting = TRUE]
                   ELSE client[c]]

client_shutdown(c) ==
  /\ client[c].m_is_open
  /\ client' = ShutDown({c})
  /\ UNCHANGED <<loopVars, serverVars, closes, ended, emptyCalled, closedTwice>>

\* send_data on an open client; on another one it only calls back an error.
send_data(c) ==
  /\ client[c].m_is_open /\ client[c].m_pending_write_requests < MaxWrites
  /\ client' = [client EXCEPT ![c].m_pending_write_requests = @ + 1]
  /\ UNCHANGED <<loopVars, serverVars, closes, ended, emptyCalled, closedTwice>>

-----------------------------------------------------------------------------
(* Methods of the server *)

\* uv_is_closing of the server's handle.
IsClosing == m_server_handle # 0 /\ handle[m_server_handle] = "closing"

Usable == removal = "none" /\ (CallsWhileClosing \/ (~IsClosing /\ \A k \in 1..closes : ended[k] > 0))

\* A second listen() returns CONNECTION_ALREADY_IN_PROGRESS.  A failed bind
\* leaves the handle, and a failed uv_listen the server open.
listen(outcome) ==
  /\ Usable /\ m_server_handle = 0 /\ listens < MaxListens
  /\ listens' = listens + 1
  /\ m_server_handle' = listens + 1
  /\ handle' = [handle EXCEPT ![listens + 1] = IF outcome = "listening" THEN "listening" ELSE "idle"]
  /\ m_is_open' = (outcome # "bind failed")
  /\ UNCHANGED <<loopVars, m_end_server_callback, m_client_connections, removal, client,
                 closes, ended, emptyCalled, closedTwice>>

\* close_impl after the streams of the clients were closed: the requests of
\* uv_close, and the callback reported as an error if there is nothing to close.
close_impl(callback, streams) ==
  /\ m_end_server_callback' = callback
  /\ m_is_open' = FALSE
  /\ IF m_server_handle # 0 /\ ~IsClosing
     THEN /\ handle' = [handle EXCEPT ![m_server_handle] = "closing"]
          /\ closeRequests' = closeRequests \cup streams \cup {Item("server", m_server_handle)}
          /\ UNCHANGED scheduled
     ELSE /\ closeRequests' = closeRequests \cup streams
          /\ scheduled' = IF callback = 0 THEN scheduled
                          ELSE scheduled \cup {Item("not connected", callback)}
          /\ UNCHANGED handle
  /\ UNCHANGED <<phase, jobs, closing, inCallback, m_server_handle, listens, m_client_connections,
                 emptyCalled, closedTwice>>

close(callback) ==
  /\ Usable
  /\ client' = Closed(m_client_connections)
  /\ close_impl(callback, StreamsOf(m_client_connections))
  /\ closes' = IF callback = 0 THEN closes ELSE callback
  /\ UNCHANGED <<removal, ended>>

shutdown(callback) ==
  /\ Usable
  /\ client' = ShutDown(m_client_connections)
  /\ close_impl(callback, {})
  /\ closes' = IF callback = 0 THEN closes ELSE callback
  /\ UNCHANGED <<removal, ended>>

schedule_removal ==
  /\ removal = "none"
  /\ UNCHANGED <<closes, ended>>
  /\ IF m_server_handle # 0
     THEN /\ removal' = "requested"
          /\ client' = Closed(m_client_connections)
          /\ close_impl(0, StreamsOf(m_client_connections))
     ELSE /\ removal' = "scheduled"
          /\ scheduled' = scheduled \cup {Item("remove", Server)}
          /\ UNCHANGED <<phase, jobs, closeRequests, closing, inCallback, m_server_handle, handle,
                         listens, m_is_open, m_end_server_callback, m_client_connections, client,
                         emptyCalled, closedTwice>>

-----------------------------------------------------------------------------
(* The loop thread: connections *)

\* The client is inserted and the new connection callback called ...
on_new_connection(c) ==
  /\ Idling("poll") /\ client[c].object = "none"
  /\ m_server_handle # 0 /\ handle[m_server_handle] = "listening"
  /\ client' = [client EXCEPT ![c].object = "alive", ![c].accepted = TRUE,
                              ![c].m_is_open = TRUE, ![c].stream = "open"]
  /\ m_client_connections' = m_client_connections \cup {c}
  /\ inCallback' = Item("new connection", c)
  /\ UNCHANGED <<phase, scheduled, jobs, closeRequests, closing, m_server_handle, handle, listens,
                 m_is_open, m_end_server_callback, removal, closes, ended, emptyCalled, closedTwice>>

\* ... and reading started unless the callback closed the client.
NewConnectionReturns(c) ==
  /\ inCallback = Item("new connection", c)
  /\ inCallback' = NotInCallback
  /\ client' = [client EXCEPT ![c].reading = @ \/ client[c].m_is_open]
  /\ UNCHANGED <<phase, scheduled, jobs, closeRequests, closing, serverVars, closes, ended,
                 emptyCalled, closedTwice>>

\* A connection that fails after its stream was initialised is reported and its
\* client removed; set_endpoint was not called, so the client is not open.  One
\* that uv_tcp_getpeername finds reset is reported as made and closed.
on_new_connection_failed(c, reset) ==
  /\ Idling("poll") /\ client[c].object = "none"
  /\ m_server_handle # 0 /\ handle[m_server_handle] = "listening"
  /\ client' = [client EXCEPT ![c].object = "alive", ![c].stream = "open",
                              ![c].closes = IF reset THEN 1 ELSE 0]
  /\ scheduled' = scheduled \cup {Item("remove", c)}
  /\ UNCHANGED <<phase, jobs, closeRequests, closing, inCallback, serverVars, closes, ended,
                 emptyCalled, closedTwice>>

\* on_read with data; the client is used after the callback.
on_read(c) ==
  /\ Idling("poll") /\ client[c].reading
  /\ inCallback' = Item("data", c)
  /\ UNCHANGED <<phase, scheduled, jobs, closeRequests, closing, serverVars, client, closes, ended,
                 emptyCalled, closedTwice>>

DataReturns(c) ==
  /\ inCallback = Item("data", c)
  /\ inCallback' = NotInCallback
  /\ UNCHANGED <<phase, scheduled, jobs, closeRequests, closing, serverVars, client, closes, ended,
                 emptyCalled, closedTwice>>

\* on_read with an error or the end of the stream, after which libuv reads no
\* more: the close callback is called ...
on_read_error(c) ==
  /\ Idling("poll") /\ client[c].reading
  /\ client' = [client EXCEPT ![c].reading = FALSE,
                              ![c].closes = @ + IF client[c].m_close_callback THEN 1 ELSE 0]
  /\ inCallback' = Item("read error", c)
  /\ UNCHANGED <<phase, scheduled, jobs, closeRequests, closing, serverVars, closes, ended,
                 emptyCalled, closedTwice>>

\* Faulty variants stand before the definitions they are variants of, with the
\* property that rejects each.  CloseReportedOnce: the close callback is not
\* reset before close().
KeepsCallback(c) ==
  /\ inCallback = Item("read error", c)
  /\ inCallback' = NotInCallback
  /\ client' = Closed({c})
  /\ closeRequests' = closeRequests \cup StreamsOf({c})
  /\ UNCHANGED <<phase, scheduled, jobs, closing, serverVars, closes, ended, emptyCalled, closedTwice>>

\* ... then reset, and the client closed.
ReadErrorReturns(c) ==
  /\ inCallback = Item("read error", c)
  /\ inCallback' = NotInCallback
  /\ client' = [Closed({c}) EXCEPT ![c].m_close_callback = FALSE]
  /\ closeRequests' = closeRequests \cup StreamsOf({c})
  /\ UNCHANGED <<phase, scheduled, jobs, closing, serverVars, closes, ended, emptyCalled, closedTwice>>

after_write(c) ==
  /\ Idling("poll") /\ client[c].stream = "open" /\ client[c].m_pending_write_requests > 0
  /\ client' = [client EXCEPT ![c].m_pending_write_requests = @ - 1]
  /\ UNCHANGED <<loopVars, serverVars, closes, ended, emptyCalled, closedTwice>>

\* The shutdown completes when the writes are done, and closes the stream.
on_shutdown(c) ==
  /\ Idling("poll") /\ client[c].stream = "open" /\ client[c].shutting
  /\ client[c].m_pending_write_requests = 0
  /\ client' = [client EXCEPT ![c].shutting = FALSE, ![c].stream = "closing", ![c].reading = FALSE]
  /\ closeRequests' = closeRequests \cup {Item("client", c)}
  /\ UNCHANGED <<phase, scheduled, jobs, closing, inCallback, serverVars, closes, ended,
                 emptyCalled, closedTwice>>

-----------------------------------------------------------------------------
(* The loop thread: closing and removal *)

\* libuv cancels the writes and the shutdown request of the stream, which call
\* their callbacks, and calls on_close: the client leaves the server and its
\* close callback is called ...
on_client_close(c) ==
  /\ Idling("closing") /\ Item("client", c) \in closing
  /\ closing' = closing \ {Item("client", c)}
  /\ client' = [client EXCEPT ![c].stream = "closed", ![c].shutting = FALSE,
                              ![c].m_pending_write_requests = 0,
                              ![c].closes = @ + IF client[c].m_close_callback THEN 1 ELSE 0]
  /\ closedTwice' = (closedTwice \/ client[c].shutting)
  /\ m_client_connections' = m_client_connections \ {c}
  /\ inCallback' = Item("client closed", c)
  /\ UNCHANGED <<phase, scheduled, jobs, closeRequests, m_server_handle, handle, listens, m_is_open,
                 m_end_server_callback, removal, closes, ended, emptyCalled>>

\* ... and its removal scheduled.
ClientClosedReturns(c) ==
  /\ inCallback = Item("client closed", c)
  /\ inCallback' = NotInCallback
  /\ scheduled' = scheduled \cup {Item("remove", c)}
  /\ UNCHANGED <<phase, jobs, closeRequests, closing, serverVars, client, closes, ended,
                 emptyCalled, closedTwice>>

\* Completes: the callback is taken and not scheduled.
ForgetsCallback(h) ==
  /\ m_server_handle' = 0
  /\ m_end_server_callback' = 0
  /\ handle' = [handle EXCEPT ![h] = "freed"]
  /\ IF removal = "requested"
     THEN removal' = "scheduled" /\ scheduled' = scheduled \cup {Item("remove", Server)}
     ELSE UNCHANGED <<removal, scheduled>>
  /\ UNCHANGED m_client_connections

\* What on_close of the server does once no client is left.
ServerClosed(h) ==
  /\ m_server_handle' = 0
  /\ m_end_server_callback' = 0
  /\ IF m_end_server_callback # 0
     THEN /\ scheduled' = scheduled \cup {Item("end", <<h, m_end_server_callback>>)}
          /\ UNCHANGED <<handle, removal>>
     ELSE /\ handle' = [handle EXCEPT ![h] = "freed"]
          /\ IF removal = "requested"
             THEN removal' = "scheduled" /\ scheduled' = scheduled \cup {Item("remove", Server)}
             ELSE UNCHANGED <<removal, scheduled>>
  /\ UNCHANGED m_client_connections

\* ServerOutlivesUse: on_close does not wait for the clients.
DoesNotWait(h) ==
  /\ \/ Idling("closing") /\ Item("server", h) \in closing
     \/ Idling("idle") /\ Item("server", h) \in jobs
  /\ closing' = closing \ {Item("server", h)} /\ jobs' = jobs \ {Item("server", h)}
  /\ ServerClosed(h)
  /\ UNCHANGED <<phase, closeRequests, inCallback, listens, m_is_open, client, closes, ended,
                 emptyCalled, closedTwice>>

\* on_close of the server, called by libuv or scheduled by itself.
on_close(h) ==
  /\ \/ Idling("closing") /\ Item("server", h) \in closing
     \/ Idling("idle") /\ Item("server", h) \in jobs
  /\ closing' = closing \ {Item("server", h)} /\ jobs' = jobs \ {Item("server", h)}
  /\ IF m_client_connections # {}
     THEN /\ scheduled' = scheduled \cup {Item("server", h)}
          /\ UNCHANGED <<m_server_handle, handle, m_end_server_callback, m_client_connections, removal>>
     ELSE ServerClosed(h)
  /\ UNCHANGED <<phase, closeRequests, inCallback, listens, m_is_open, client, closes, ended,
                 emptyCalled, closedTwice>>

\* The callback given to close() is called, and the handle deleted after it.
EndCallback(h, callback) ==
  /\ Idling("idle") /\ Item("end", <<h, callback>>) \in jobs
  /\ jobs' = jobs \ {Item("end", <<h, callback>>)}
  /\ ended' = [ended EXCEPT ![callback] = @ + 1]
  /\ inCallback' = Item("end", h)
  /\ UNCHANGED <<phase, scheduled, closeRequests, closing, serverVars, client, closes,
                 emptyCalled, closedTwice>>

EndCallbackReturns(h) ==
  /\ inCallback = Item("end", h)
  /\ inCallback' = NotInCallback
  /\ handle' = [handle EXCEPT ![h] = "freed"]
  /\ UNCHANGED <<phase, scheduled, jobs, closeRequests, closing, m_server_handle, listens, m_is_open,
                 m_end_server_callback, m_client_connections, removal, client, closes, ended,
                 emptyCalled, closedTwice>>

\* close_impl's callback calls whatever m_end_server_callback is by then.
NotConnected(callback) ==
  /\ Idling("idle") /\ Item("not connected", callback) \in jobs
  /\ jobs' = jobs \ {Item("not connected", callback)}
  /\ IF m_end_server_callback = 0
     THEN emptyCalled' = TRUE /\ UNCHANGED ended
     ELSE /\ ended' = [ended EXCEPT ![m_end_server_callback] = @ + 1]
          /\ UNCHANGED emptyCalled
  /\ UNCHANGED <<phase, scheduled, closeRequests, closing, inCallback, serverVars, client, closes,
                 closedTwice>>

\* Removable::on_removal and the deletion that follows it.
on_removal(x) ==
  /\ Idling("idle") /\ Item("remove", x) \in jobs
  /\ jobs' = jobs \ {Item("remove", x)}
  /\ closeRequests' = closeRequests \cup {Item("removal", x)}
  /\ UNCHANGED <<phase, scheduled, closing, inCallback, serverVars, client, closes, ended,
                 emptyCalled, closedTwice>>

Delete(x) ==
  /\ Idling("closing") /\ Item("removal", x) \in closing
  /\ closing' = closing \ {Item("removal", x)}
  /\ removal' = IF x = Server THEN "deleted" ELSE removal
  /\ client' = [c \in Clients |-> IF c = x THEN [client[c] EXCEPT !.object = "deleted"] ELSE client[c]]
  /\ UNCHANGED <<phase, scheduled, jobs, closeRequests, inCallback, m_server_handle, handle, listens,
                 m_is_open, m_end_server_callback, m_client_connections, closes, ended,
                 emptyCalled, closedTwice>>

EnterPhase ==
  /\ BeginClosing \/ BeginIdle \/ BeginPoll
  /\ UNCHANGED <<serverVars, client, closes, ended, emptyCalled, closedTwice>>

ClientCall(c) == client_close(c) \/ client_shutdown(c) \/ send_data(c)

ServerCall ==
  \/ \E outcome \in {"listening", "bind failed", "listen failed"} : listen(outcome)
  \/ \E callback \in {0} \cup ({closes + 1} \cap 1..MaxCloses) :
       close(callback) \/ shutdown(callback)
  \/ schedule_removal

\* What the network does.
Connection(c) == on_new_connection(c) \/ \E reset \in BOOLEAN : on_new_connection_failed(c, reset)
Read(c) == on_read(c) \/ on_read_error(c)

Completion(c) == after_write(c) \/ on_shutdown(c)

ConnectionReturns(c) == \/ NewConnectionReturns(c) \/ DataReturns(c)
                        \/ ReadErrorReturns(c) \/ ClientClosedReturns(c)

\* What the loop does besides.
ServerStep ==
  \/ \E c \in Clients : on_client_close(c)
  \/ \E h \in 1..listens : \/ on_close(h) \/ EndCallbackReturns(h)
                          \/ \E callback \in 1..closes : EndCallback(h, callback)
  \/ \E callback \in 1..closes : NotConnected(callback)
  \/ \E x \in Clients \cup {Server} : on_removal(x) \/ Delete(x)
  \/ EnterPhase

Next == \/ \E c \in Clients : \/ ClientCall(c) \/ Connection(c) \/ Read(c) \/ Completion(c)
                            \/ ConnectionReturns(c)
        \/ ServerCall \/ ServerStep

Spec == Init /\ [][Next]_vars

-----------------------------------------------------------------------------
(* Properties *)

\* Every variable of the server, its clients and the loop has its type.
TypeOK ==
  /\ LoopTypeOK
  /\ m_server_handle \in 0..MaxListens /\ listens \in 0..MaxListens
  /\ handle \in [1..MaxListens -> {"none", "idle", "listening", "closing", "freed"}]
  /\ m_is_open \in BOOLEAN /\ m_end_server_callback \in 0..MaxCloses
  /\ m_client_connections \subseteq Clients
  /\ removal \in {"none", "requested", "scheduled", "deleted"}
  /\ client \in [Clients -> [object : {"none", "alive", "deleted"}, accepted : BOOLEAN,
                             m_is_open : BOOLEAN, m_close_callback : BOOLEAN,
                             m_pending_write_requests : 0..MaxWrites,
                             stream : {"none", "open", "closing", "closed"},
                             shutting : BOOLEAN, reading : BOOLEAN, closes : Nat]]
  /\ closes \in 0..MaxCloses /\ ended \in [1..MaxCloses -> Nat]
  /\ emptyCalled \in BOOLEAN /\ closedTwice \in BOOLEAN

\* The close callback of a connection is called exactly once before its client
\* is deleted, whoever closes it, the peer, the user or the server, and
\* whatever they all do at the same time.  Each callback given to close() or
\* shutdown() of the server is called at most once, and no empty one is called.
\* uv_close is never called on a handle that is closing, although close(), the
\* end of a shutdown and a read error all call it.
CloseReportedOnce ==
  /\ TypeOK /\ ~closedTwice
  /\ \A c \in Clients : /\ client[c].closes <= 1
                        /\ client[c].accepted /\ client[c].object = "deleted" => client[c].closes = 1
  /\ ~emptyCalled /\ \A k \in 1..closes : ended[k] <= 1

\* The server outlives its use.  Its end is reported without an error only when
\* none of its connections is left, as on_close waits for its clients; and it is
\* deleted only when nothing that refers to it is left: its clients are closed,
\* its handles deleted, and no callback of its own waits.  A client is deleted,
\* and with it its stream, only after the stream was closed, unless accepting its
\* connection failed.
ServerOutlivesUse ==
  /\ inCallback.kind = "end" => \A c \in Clients : client[c].accepted => client[c].stream = "closed"
  /\ \A c \in Clients : client[c].accepted /\ client[c].object = "deleted" => client[c].stream = "closed"
  /\ removal = "deleted" =>
       /\ m_client_connections = {} /\ m_server_handle = 0
       /\ \A h \in 1..listens : handle[h] = "freed"
       /\ \A j \in scheduled \cup jobs \cup closeRequests \cup closing : j.kind \in {"remove", "removal"}

\* What was asked for is done in the end: a server whose removal was asked for is
\* deleted, and the callback of close() or shutdown() is called, unless the
\* removal is asked for first.
Completes ==
  /\ (removal # "none") ~> (removal = "deleted")
  /\ \A k \in 1..MaxCloses : (closes = k) ~> (ended[k] > 0 \/ removal # "none")
=============================================================================
