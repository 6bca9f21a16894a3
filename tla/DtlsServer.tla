----------------------------- MODULE DtlsServer -----------------------------
(***************************************************************************)
(* DtlsServer and its DtlsConnectedClients over a UdpServer with a peer    *)
(* timeout.  The link of a connection is open as long as the handle of the *)
(* server is and its UdpPeer was not closed; tracked is whether the        *)
(* UdpServer still has the UdpPeer, and listed whether m_clients has the   *)
(* connection.  A UdpPeer that is not tracked lives as long as its sends   *)
(* (see UdpServer), and takes its DtlsConnectedClient with it.  Every      *)
(* connection has an address of its own.                                   *)
(***************************************************************************)
EXTENDS OpenSslClientImplBase

\* The peers that are released when the connections become now are removed.
Released(now) == {c \in Conns : now[c].object = "alive" /\ ~now[c].tracked /\ now[c].sends = <<>>}
Become(now) ==
  /\ conn' = [c \in Conns |-> IF c \in Released(now) THEN [now[c] EXCEPT !.object = "removing"] ELSE now[c]]
  /\ scheduled' = scheduled \cup {Item("remove", c) : c \in Released(now)}

-----------------------------------------------------------------------------
(* Methods *)

dtls_listen ==
  LET context == set_tls_dtls_version(config.MAX, config.min, config.max)
  IN /\ IsDtlsServer /\ Usable /\ server.handle = "none" /\ server.listens = 0
     /\ server' = [server EXCEPT !.handle = IF context.error \/ config.bad THEN @ ELSE "listening",
                                 !.listens = 1, !.disabled = context.disabled]
     /\ UNCHANGED <<loopVars, config, conn>>

\* DtlsConnectedClient::close.
client_close(s) ==
  IF is_open(s)
  THEN [(IF ShutdownFails(s) THEN CloseReported(s, "refused") ELSE ssl_shutdown(s)) EXCEPT !.listed = FALSE]
  ELSE s

dtls_connected_close(c) ==
  /\ IsDtlsServer /\ MayClose(conn[c])
  /\ Become([conn EXCEPT ![c] = client_close(@)])
  /\ UNCHANGED <<phase, jobs, closeRequests, closing, inCallback, config, server>>

dtls_connected_send_data(c) ==
  /\ IsDtlsServer /\ conn[c].object = "alive" /\ CanSend(conn[c])
  /\ Become([conn EXCEPT ![c] = send_data_impl(@)])
  /\ UNCHANGED <<phase, jobs, closeRequests, closing, inCallback, config, server>>

\* The links while the handle is being closed.
HandleCloses(now) ==
  [c \in Conns |-> IF now[c].link = "open" THEN [now[c] EXCEPT !.link = "closing"] ELSE now[c]]

\* close(): m_clients is emptied, each of them closed, then the UdpServer.
CloseServer ==
  /\ Become(HandleCloses([c \in Conns |-> IF conn[c].listed
                            THEN [client_close(conn[c]) EXCEPT !.listed = FALSE] ELSE conn[c]]))
  /\ closeRequests' = closeRequests \cup {Item("stream", Server)}

dtls_server_close ==
  /\ IsDtlsServer /\ Usable /\ server.handle = "listening"
  /\ CloseServer
  /\ server' = [server EXCEPT !.handle = "closing", !.callback = "user"]
  /\ UNCHANGED <<phase, jobs, closing, inCallback, config>>

\* The server waits for its clients to be closed; without clients it does not.
dtls_server_schedule_removal ==
  /\ IsDtlsServer /\ Usable
  /\ IF \E c \in Conns : conn[c].listed
     THEN /\ CloseServer
          /\ server' = [server EXCEPT !.object = "removing", !.handle = "closing", !.callback = "remove"]
     ELSE /\ scheduled' = scheduled \cup {Item("remove", Server)}
          /\ server' = [server EXCEPT !.object = "removing"]
          /\ UNCHANGED <<closeRequests, conn>>
  /\ UNCHANGED <<phase, jobs, closing, inCallback, config>>

-----------------------------------------------------------------------------
(* The loop thread *)

\* A packet of an unknown peer: on_new_peer makes the connection, whose SSL may
\* fail to be made, and on_data_receive takes the packet.
on_new_peer(c, pieces, inited) ==
  LET new == [conn[c] EXCEPT !.object = "alive", !.link = "open", !.tracked = TRUE, !.listed = TRUE]
      now == IF inited THEN [new EXCEPT !.m_ssl_inited = TRUE] ELSE Reported([new EXCEPT !.failed = TRUE], "error")
  IN /\ IsDtlsServer /\ Idling("poll") /\ server.handle = "listening" /\ conn[c].object = "none"
     /\ Become([conn EXCEPT ![c] = on_data_receive(Arrived(now, pieces), pieces, FALSE)])
     /\ Calling(c, conn'[c])
     /\ UNCHANGED <<phase, jobs, closeRequests, closing, config, server>>

dtls_connected_on_receive(c, pieces, output) ==
  /\ IsDtlsServer /\ Idling("poll") /\ server.handle = "listening"
  /\ conn[c].tracked
  /\ Become([conn EXCEPT ![c] = on_data_receive(Arrived(@, pieces), pieces, output)])
  /\ Calling(c, conn'[c])
  /\ UNCHANGED <<phase, jobs, closeRequests, closing, config, server>>

dtls_connected_on_sent(c, ok) ==
  /\ IsDtlsServer /\ Completing(c)
  /\ Become([conn EXCEPT ![c] = on_sent(@, ok)])
  /\ Calling(c, conn'[c])
  /\ UNCHANGED <<phase, jobs, closeRequests, closing, config, server>>

\* The peer expires: on_timeout closes the connection, and the UdpServer forgets
\* the peer.  One whose handshake is not finished would stay in m_clients.
on_timeout(c) ==
  /\ IsDtlsServer /\ Idling("closing") /\ closing = {} /\ conn[c].tracked
  /\ \/ AnyExpiry
     \/ (conn[c].listed => is_open(conn[c])) /\ server.object # "deleted"
  /\ Become([conn EXCEPT ![c] = [client_close(@) EXCEPT !.tracked = FALSE]])
  /\ UNCHANGED <<phase, jobs, closeRequests, closing, inCallback, config, server>>

\* The peer's removal deletes the connection.
PeerRemoved(c) ==
  /\ IsDtlsServer /\ Idling("idle") /\ Item("remove", c) \in jobs
  /\ jobs' = jobs \ {Item("remove", c)}
  /\ conn' = [conn EXCEPT ![c].object = "deleted"]
  /\ UNCHANGED <<phase, scheduled, closeRequests, closing, inCallback, config, server>>

Untracked(now) == [c \in Conns |-> [now[c] EXCEPT !.tracked = FALSE,
                                                  !.link = IF @ = "closing" THEN "closed" ELSE @]]

\* The handle is closed: the callback of close() is called and the peers are
\* forgotten.
UdpServerClosed ==
  /\ IsDtlsServer /\ Idling("closing") /\ Item("stream", Server) \in closing
  /\ \A c \in Conns : conn[c].sends = <<>>
  /\ closing' = closing \ {Item("stream", Server)}
  /\ server.handle = "closing"
  /\ LET now == Untracked(conn)
     IN /\ conn' = [c \in Conns |-> IF c \in Released(now) THEN [now[c] EXCEPT !.object = "removing"] ELSE now[c]]
        /\ scheduled' = scheduled \cup {Item("remove", c) : c \in Released(now)} \cup
             (IF server.callback = "remove" THEN {Item("remove", Server)} ELSE {})
  /\ server' = [server EXCEPT !.handle = "none", !.callback = "none"]
  /\ UNCHANGED <<phase, jobs, closeRequests, inCallback, config>>

\* The destructor schedules the removal of the UdpServer, which closes its handle
\* (until then it still makes connections) ...
DtlsServerDeleted ==
  LET open == server.handle = "listening"
  IN /\ IsDtlsServer /\ Idling("closing") /\ Item("delete", Server) \in closing
     /\ closing' = closing \ {Item("delete", Server)}
     /\ server' = [server EXCEPT !.object = "deleted", !.handle = IF open THEN "removing" ELSE @]
     /\ closeRequests' = IF open THEN closeRequests \cup {Item("stream", Server)} ELSE closeRequests
     /\ conn' = [c \in Conns |-> [HandleCloses(conn)[c] EXCEPT !.listed = FALSE]]
     /\ UNCHANGED <<phase, scheduled, jobs, inCallback, config>>

\* ... and forgets its peers when it is deleted.
UdpServerRemoved ==
  /\ IsDtlsServer /\ server.handle = "removing"
  /\ \/ /\ Idling("closing") /\ Item("stream", Server) \in closing
        /\ \A c \in Conns : conn[c].sends = <<>>
        /\ closing' = closing \ {Item("stream", Server)}
        /\ scheduled' = scheduled \cup {Item("remove link", Server)}
        /\ UNCHANGED <<jobs, conn, server>>
     \/ /\ Idling("idle") /\ Item("remove link", Server) \in jobs
        /\ jobs' = jobs \ {Item("remove link", Server)}
        /\ server' = [server EXCEPT !.handle = "none"]
        /\ Become(Untracked(conn))
        /\ UNCHANGED closing
  /\ UNCHANGED <<phase, closeRequests, inCallback, config>>

DtlsServerCall == \/ dtls_listen \/ dtls_server_close \/ dtls_server_schedule_removal
                  \/ \E c \in Conns : dtls_connected_close(c) \/ dtls_connected_send_data(c)
DtlsServerEvent == \E c \in Conns : \E pieces \in Batches(conn[c]) :
  \/ \E inited \in BOOLEAN : on_new_peer(c, pieces, inited)
  \/ \E output \in BOOLEAN : dtls_connected_on_receive(c, pieces, output)
DtlsServerCompletion == \E c \in Conns, ok \in BOOLEAN : dtls_connected_on_sent(c, ok)
DtlsServerStep == UdpServerClosed \/ DtlsServerDeleted \/ UdpServerRemoved \/ \E c \in Conns : PeerRemoved(c)
=============================================================================
