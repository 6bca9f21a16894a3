----------------------------- MODULE TlsClient ------------------------------
(***************************************************************************)
(* TlsClient over a TcpClient, of which only the state of the link is      *)
(* kept: scheduled (connect() was called, connect_impl not yet),           *)
(* connecting, open, failed, ended (the peer closed it), closing (or       *)
(* cancelling, while it connects) and closed.  connect() is called once,   *)
(* and schedule_removal() last and not before connect_impl ran (see        *)
(* TcpClient).                                                             *)
(***************************************************************************)
EXTENDS OpenSslClientImplBase

TlsC == CHOOSE c \in Conns : TRUE

-----------------------------------------------------------------------------
(* Methods *)

connect ==
  LET context == set_tls_dtls_version(config.MAX, config.min, config.max)
      error == context.error \/ config.bad
  IN /\ IsTlsClient /\ conn[TlsC].object = "alive" /\ conn[TlsC].link = "none"
     /\ conn' = [conn EXCEPT ![TlsC].link = IF error THEN "failed" ELSE "scheduled",
                             ![TlsC].disabled = context.disabled, ![TlsC].m_ssl_inited = ~error,
                             ![TlsC].m_close_callback = ~error]
     /\ scheduled' = scheduled \cup {Item(IF error THEN "report" ELSE "connect_impl", TlsC)}
     /\ UNCHANGED <<phase, jobs, closeRequests, closing, inCallback, config, server>>

close ==
  /\ IsTlsClient /\ MayClose(conn[TlsC])
  /\ Update(TlsC, IF ShutdownFails(conn[TlsC]) THEN CloseReportedIfSet(conn[TlsC], "refused")
                  ELSE ssl_shutdown(conn[TlsC]))
  /\ UNCHANGED <<phase, scheduled, jobs, closing>>

send_data ==
  /\ IsTlsClient /\ conn[TlsC].object = "alive" /\ CanSend(conn[TlsC])
  /\ Update(TlsC, send_data_impl(conn[TlsC]))
  /\ UNCHANGED <<phase, scheduled, jobs, closing>>

\* First the TcpClient is removed, which closes an open stream, then the client.
schedule_removal ==
  LET s == [conn[TlsC] EXCEPT !.object = "removing"]
  IN /\ IsTlsClient /\ conn[TlsC].object = "alive"
     /\ \/ /\ s.link \in {"connecting", "open"}
           /\ Update(TlsC, [s EXCEPT !.link = IF s.link = "open" THEN "closing" ELSE "cancelling"])
           /\ UNCHANGED scheduled
        \/ /\ s.link \in {"none", "failed", "ended", "closed"}
           /\ Update(TlsC, s)
           /\ scheduled' = scheduled \cup {Item(IF s.link = "none" THEN "remove" ELSE "remove link", TlsC)}
     /\ UNCHANGED <<phase, jobs, closing>>

-----------------------------------------------------------------------------
(* The loop thread *)

\* The jobs of connect().
ConnectJob(kind) ==
  /\ IsTlsClient /\ Idling("idle") /\ Item(kind, TlsC) \in jobs
  /\ jobs' = jobs \ {Item(kind, TlsC)}
  /\ Update(TlsC, IF kind = "report" THEN Reported(conn[TlsC], "error")
                  ELSE [conn[TlsC] EXCEPT !.link = "connecting"])
  /\ UNCHANGED <<phase, scheduled, closing>>

on_connect(ok) ==
  /\ IsTlsClient /\ Idling("poll") /\ conn[TlsC].link = "connecting"
  /\ Update(TlsC, IF ok THEN do_handshake([conn[TlsC] EXCEPT !.link = "open"], FALSE)
                  ELSE Reported([conn[TlsC] EXCEPT !.link = "failed"], "error"))
  /\ UNCHANGED <<phase, scheduled, jobs, closing>>

on_receive(pieces, output) ==
  /\ IsTlsClient /\ Idling("poll") /\ conn[TlsC].link = "open"
  /\ Update(TlsC, on_data_receive(Arrived(conn[TlsC], pieces), pieces, output))
  /\ UNCHANGED <<phase, scheduled, jobs, closing>>

tls_on_sent(ok) ==
  /\ IsTlsClient /\ Completing(TlsC)
  /\ Update(TlsC, on_sent(conn[TlsC], ok))
  /\ UNCHANGED <<phase, scheduled, jobs, closing>>

\* on_close of connect(): nothing is reported before the handshake is finished.
on_close(s) == IF s.m_ssl_handshake_state = "FINISHED" THEN CloseTaken(s) ELSE s

\* The peer ends the connection: the TcpClient gives its stream up.
on_read_end ==
  /\ IsTlsClient /\ Idling("poll") /\ conn[TlsC].link = "open"
  /\ conn' = [conn EXCEPT ![TlsC] = [on_close(@) EXCEPT !.link = "ended"]]
  /\ closeRequests' = closeRequests \cup {Item("stream", TlsC)}
  /\ UNCHANGED <<phase, scheduled, jobs, closing, inCallback, config, server>>

\* The close callback of the stream.  A connect in progress is cancelled first;
\* a stream closed by the removal goes on with it.
StreamClosed ==
  LET s == conn[TlsC]
      t == IF s.link = "cancelling" THEN Reported(s, "error") ELSE s
  IN /\ IsTlsClient /\ Idling("closing") /\ Item("stream", TlsC) \in closing /\ s.sends = <<>>
     /\ closing' = closing \ {Item("stream", TlsC)}
     /\ IF s.link = "ended"
        THEN conn' = [conn EXCEPT ![TlsC].link = "closed"] /\ UNCHANGED scheduled
        ELSE /\ conn' = [conn EXCEPT ![TlsC] = [on_close(t) EXCEPT !.link = "closed"]]
             /\ scheduled' = scheduled \cup {Item("remove link", TlsC)}
     /\ UNCHANGED <<phase, jobs, closeRequests, inCallback, config, server>>

TlsClientCall == connect \/ close \/ send_data \/ schedule_removal
TlsClientEvent == \/ \E ok \in BOOLEAN : on_connect(ok)
                  \/ \E output \in BOOLEAN : \E pieces \in Batches(conn[TlsC]) : on_receive(pieces, output)
                  \/ on_read_end
TlsClientCompletion == \E ok \in BOOLEAN : tls_on_sent(ok)
TlsClientStep == StreamClosed \/ \E kind \in {"report", "connect_impl"} : ConnectJob(kind)
=============================================================================
