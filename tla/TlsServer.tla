----------------------------- MODULE TlsServer ------------------------------
(***************************************************************************)
(* TlsServer and its TlsConnectedClients over a TcpServer.  A link is      *)
(* open, shutting (uv_shutdown was called), closing or closed;             *)
(* m_close_callback is whether the TcpConnectedClient will still report    *)
(* its end to the TlsConnectedClient.  The server's handle is listening,   *)
(* closing, or waiting for its connections to close.                       *)
(***************************************************************************)
EXTENDS OpenSslClientImplBase

AllClosed == \A c \in Conns : conn[c].link \in {"none", "closed"}

-----------------------------------------------------------------------------
(* Methods *)

\* listen() that returns an error before TcpServer::listen changes only the context.
listen ==
  LET context == set_tls_dtls_version(config.MAX, config.min, config.max)
  IN /\ IsTlsServer /\ Usable /\ server.handle = "none" /\ server.listens = 0
     /\ server' = [server EXCEPT !.handle = IF context.error \/ config.bad THEN @ ELSE "listening",
                                 !.listens = 1, !.disabled = context.disabled]
     /\ UNCHANGED <<loopVars, config, conn>>

\* TcpServer::close and TcpServer::shutdown on the connections and the handle.
EndServer(link) ==
  LET open == {c \in Conns : conn[c].link = "open"}
  IN /\ conn' = [c \in Conns |-> IF c \in open THEN [conn[c] EXCEPT !.link = link] ELSE conn[c]]
     /\ closeRequests' = closeRequests \cup {Item("stream", Server)} \cup
          (IF link = "closing" THEN {Item("stream", c) : c \in open} ELSE {})

\* close() without a callback, and with one, which is a shutdown() with it.
tls_server_close(callback) ==
  /\ IsTlsServer /\ Usable /\ server.handle = "listening"
  /\ server' = [server EXCEPT !.handle = "closing", !.callback = callback]
  /\ EndServer(IF callback = "none" THEN "closing" ELSE "shutting")
  /\ UNCHANGED <<phase, scheduled, jobs, closing, inCallback, config>>

\* shutdown() without a callback.
tls_server_shutdown ==
  /\ IsTlsServer /\ Usable /\ server.handle = "listening"
  /\ server' = [server EXCEPT !.handle = "closing", !.callback = "none"]
  /\ EndServer("shutting")
  /\ UNCHANGED <<phase, scheduled, jobs, closing, inCallback, config>>

\* The TcpServer is closed first if it is open, and removed in any case.
tls_server_schedule_removal ==
  /\ IsTlsServer /\ Usable
  /\ IF server.handle = "listening"
     THEN /\ server' = [server EXCEPT !.object = "removing", !.handle = "closing", !.callback = "remove"]
          /\ EndServer("closing")
          /\ UNCHANGED scheduled
     ELSE /\ server' = [server EXCEPT !.object = "removing"]
          /\ scheduled' = scheduled \cup {Item("remove", Server)}
          /\ UNCHANGED <<closeRequests, conn>>
  /\ UNCHANGED <<phase, jobs, closing, inCallback, config>>

\* TlsConnectedClient::close, shutdown and send_data.
connected_close(c) ==
  /\ IsTlsServer /\ conn[c].object = "alive" /\ conn[c].link = "open"
  /\ Update(c, Closing(conn[c]))
  /\ UNCHANGED <<phase, scheduled, jobs, closing>>

connected_shutdown(c) ==
  /\ IsTlsServer /\ conn[c].object = "alive" /\ conn[c].link = "open"
  /\ Update(c, [conn[c] EXCEPT !.link = "shutting"])
  /\ UNCHANGED <<phase, scheduled, jobs, closing>>

connected_send_data(c) ==
  /\ IsTlsServer /\ conn[c].object = "alive" /\ CanSend(conn[c])
  /\ Update(c, send_data_impl(conn[c]))
  /\ UNCHANGED <<phase, scheduled, jobs, closing>>

-----------------------------------------------------------------------------
(* The loop thread *)

\* A connection that TCP reports as failed, or whose SSL cannot be made, is
\* reported and its object deleted; in the second case TCP is closed.
on_new_connection(c, outcome) ==
  LET new == [conn[c] EXCEPT !.object = "alive", !.link = "open", !.m_close_callback = TRUE,
                              !.m_ssl_inited = outcome = "ok"]
  IN /\ IsTlsServer /\ Idling("poll") /\ server.handle = "listening" /\ conn[c].object = "none"
     /\ Update(c, CASE outcome = "ok" -> new
                    [] outcome = "tcp error" ->
                         [Reported(new, "error") EXCEPT !.object = "deleted", !.link = "closed",
                                                        !.m_close_callback = FALSE]
                    [] outcome = "init error" ->
                         [Closing(Reported(new, "error")) EXCEPT !.object = "deleted",
                                                                 !.m_close_callback = FALSE])
     /\ UNCHANGED <<phase, scheduled, jobs, closing>>

Reading(s) == s.link \in {"open", "shutting"} /\ s.m_close_callback

connected_on_receive(c, pieces, output) ==
  /\ IsTlsServer /\ Idling("poll") /\ Reading(conn[c])
  /\ Update(c, on_data_receive(Arrived(conn[c], pieces), pieces, output))
  /\ UNCHANGED <<phase, scheduled, jobs, closing>>

connected_on_sent(c, ok) ==
  /\ IsTlsServer /\ Completing(c)
  /\ Update(c, on_sent(conn[c], ok))
  /\ UNCHANGED <<phase, scheduled, jobs, closing>>

\* Faulty: the TcpConnectedClient goes on reporting to the deleted object
\* (rejected by OutlivesTransport).
StillReports(s) == IF s.m_close_callback THEN [CloseReported(s, "closed") EXCEPT !.object = "deleted"] ELSE s

\* The end of the TCP connection is reported and the object deleted.
on_connection_close(s) ==
  IF s.m_close_callback
  THEN [CloseReported(s, "closed") EXCEPT !.object = "deleted", !.m_close_callback = FALSE]
  ELSE s

\* The peer ends the connection, which then is closed.  The object is deleted at
\* once, so its sends must be completed.
on_read_error(c) ==
  /\ IsTlsServer /\ Idling("poll") /\ Reading(conn[c])
  /\ EndsWhileSending \/ conn[c].sends = <<>>
  /\ Update(c, Closing(on_connection_close(conn[c])))
  /\ UNCHANGED <<phase, scheduled, jobs, closing>>

on_shutdown(c) ==
  /\ IsTlsServer /\ Idling("poll") /\ conn[c].link = "shutting" /\ conn[c].sends = <<>>
  /\ Update(c, [conn[c] EXCEPT !.link = "closing"])
  /\ UNCHANGED <<phase, scheduled, jobs, closing>>

ConnectionClosed(c) ==
  /\ IsTlsServer /\ Idling("closing") /\ Item("stream", c) \in closing /\ conn[c].sends = <<>>
  /\ closing' = closing \ {Item("stream", c)}
  /\ conn' = [conn EXCEPT ![c] = [on_connection_close(@) EXCEPT !.link = "closed"]]
  /\ UNCHANGED <<phase, scheduled, jobs, closeRequests, inCallback, config, server>>

\* TcpServer::on_close waits for the connections and calls the callback; that of
\* the removal goes on with it.
ServerClosed ==
  /\ IsTlsServer
  /\ \/ Idling("closing") /\ Item("stream", Server) \in closing
     \/ Idling("idle") /\ Item("stream", Server) \in jobs
  /\ closing' = closing \ {Item("stream", Server)} /\ jobs' = jobs \ {Item("stream", Server)}
  /\ IF phase = "idle" /\ AllClosed
     THEN /\ server' = [server EXCEPT !.handle = "none", !.callback = "none"]
          /\ scheduled' = IF server.callback = "remove" THEN scheduled \cup {Item("remove", Server)}
                          ELSE scheduled
     ELSE /\ server' = [server EXCEPT !.handle = "waiting"]
          /\ scheduled' = scheduled \cup {Item("stream", Server)}
  /\ UNCHANGED <<phase, closeRequests, inCallback, config, conn>>

TlsServerDeleted ==
  /\ IsTlsServer /\ Idling("closing") /\ Item("delete", Server) \in closing
  /\ closing' = closing \ {Item("delete", Server)}
  /\ server' = [server EXCEPT !.object = "deleted"]
  /\ UNCHANGED <<phase, scheduled, jobs, closeRequests, inCallback, config, conn>>

TlsServerCall ==
  \/ listen \/ tls_server_shutdown \/ tls_server_schedule_removal
  \/ \E callback \in {"none", "user"} : tls_server_close(callback)
  \/ \E c \in Conns : connected_close(c) \/ connected_shutdown(c) \/ connected_send_data(c)
TlsServerEvent == \E c \in Conns :
  \/ \E outcome \in {"ok", "tcp error", "init error"} : on_new_connection(c, outcome)
  \/ \E output \in BOOLEAN : \E pieces \in Batches(conn[c]) : connected_on_receive(c, pieces, output)
  \/ on_read_error(c)
TlsServerCompletion == \E c \in Conns : on_shutdown(c) \/ \E ok \in BOOLEAN : connected_on_sent(c, ok)
TlsServerStep == ServerClosed \/ TlsServerDeleted \/ \E c \in Conns : ConnectionClosed(c)
=============================================================================
