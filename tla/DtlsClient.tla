----------------------------- MODULE DtlsClient -----------------------------
(***************************************************************************)
(* DtlsClient over a UdpClient with a timeout.  The link is scheduled      *)
(* (set_destination was called), open, unbound (a handle whose bind        *)
(* failed), closing (close callback on_close_no_removal), removing         *)
(* (on_close_with_removal) or closed.                                      *)
(* connect() is called once, and schedule_removal() last.                  *)
(***************************************************************************)
EXTENDS OpenSslClientImplBase

DtlsC == CHOOSE c \in Conns : TRUE

-----------------------------------------------------------------------------
(* Methods *)

\* An undefined endpoint is only reported.  m_client is set by the other case.
dtls_connect ==
  /\ IsDtlsClient /\ conn[DtlsC].object = "alive" /\ conn[DtlsC].link = "none"
  /\ conn[DtlsC].results = <<>> /\ Item("report", DtlsC) \notin scheduled \cup jobs
  /\ IF config.bad
     THEN scheduled' = scheduled \cup {Item("report", DtlsC)} /\ UNCHANGED conn
     ELSE /\ scheduled' = scheduled \cup {Item("set destination", DtlsC)}
          /\ conn' = [conn EXCEPT ![DtlsC].link = "scheduled", ![DtlsC].m_close_callback = TRUE]
  /\ UNCHANGED <<phase, jobs, closeRequests, closing, inCallback, config, server>>

\* A send the UdpClient refuses schedules its callback, which finds nothing to
\* close: as if it was called at once.
dtls_close ==
  /\ IsDtlsClient /\ MayClose(conn[DtlsC])
  /\ Update(DtlsC, IF ShutdownFails(conn[DtlsC]) THEN CloseReportedIfSet(conn[DtlsC], "refused")
                   ELSE ssl_shutdown(conn[DtlsC]))
  /\ UNCHANGED <<phase, scheduled, jobs, closing>>

dtls_send_data ==
  /\ IsDtlsClient /\ conn[DtlsC].object = "alive" /\ CanSend(conn[DtlsC])
  /\ Update(DtlsC, send_data_impl(conn[DtlsC]))
  /\ UNCHANGED <<phase, scheduled, jobs, closing>>

\* The handle is waited for only if it is open (see ClientJustClosed of UdpClient).
dtls_schedule_removal ==
  LET s == [conn[DtlsC] EXCEPT !.object = "removing"]
  IN /\ IsDtlsClient /\ conn[DtlsC].object = "alive"
     /\ \/ /\ s.link \in {"open", "unbound"}
           /\ conn' = [conn EXCEPT ![DtlsC] = [s EXCEPT !.link = "removing"]]
           /\ closeRequests' = closeRequests \cup {Item("stream", DtlsC)}
           /\ UNCHANGED scheduled
        \/ /\ s.link \in {"none", "scheduled", "closing", "closed"}
           /\ ~(phase = "closing" /\ Item("stream", DtlsC) \in closeRequests)
           /\ conn' = [conn EXCEPT ![DtlsC] = s]
           /\ scheduled' = scheduled \cup {Item(IF s.link = "none" THEN "remove" ELSE "remove link", DtlsC)}
           /\ UNCHANGED closeRequests
     /\ UNCHANGED <<phase, jobs, closing, inCallback, config, server>>

-----------------------------------------------------------------------------
(* The loop thread *)

ReportJob ==
  /\ IsDtlsClient /\ Idling("idle") /\ Item("report", DtlsC) \in jobs
  /\ jobs' = jobs \ {Item("report", DtlsC)}
  /\ conn' = [conn EXCEPT ![DtlsC] = Reported(@, "error")]
  /\ UNCHANGED <<phase, scheduled, closeRequests, closing, inCallback, config, server>>

\* The scheduled part of set_destination and its callback, which begins the
\* handshake.  A bind that fails is reported at once, a context that cannot be
\* set up by a job; the handle stays open until the timeout.
DestinationSet(bound) ==
  LET context == set_tls_dtls_version(config.MAX, config.min, config.max)
      s == [conn[DtlsC] EXCEPT !.link = "open", !.disabled = context.disabled,
                                !.m_ssl_inited = bound /\ ~context.error]
  IN /\ IsDtlsClient /\ Idling("idle") /\ Item("set destination", DtlsC) \in jobs
     /\ jobs' = jobs \ {Item("set destination", DtlsC)}
     /\ IF conn[DtlsC].object # "alive" THEN UNCHANGED <<conn, scheduled>>
        ELSE /\ conn' = [conn EXCEPT ![DtlsC] =
                           IF ~bound THEN Reported([s EXCEPT !.link = "unbound"], "error")
                           ELSE IF context.error THEN [s EXCEPT !.failed = TRUE]
                           ELSE do_handshake(s, FALSE)]
             /\ scheduled' = IF bound /\ context.error THEN scheduled \cup {Item("report", DtlsC)}
                             ELSE scheduled
     /\ UNCHANGED <<phase, closeRequests, closing, inCallback, config, server>>

dtls_on_receive(pieces, output) ==
  /\ IsDtlsClient /\ Idling("poll") /\ conn[DtlsC].link = "open"
  /\ Update(DtlsC, on_data_receive(Arrived(conn[DtlsC], pieces), pieces, output))
  /\ UNCHANGED <<phase, scheduled, jobs, closing>>

\* The callback of close() closes the UdpClient.
dtls_on_sent(ok) ==
  /\ IsDtlsClient /\ Completing(DtlsC)
  /\ Update(DtlsC, on_sent(conn[DtlsC], ok))
  /\ UNCHANGED <<phase, scheduled, jobs, closing>>

\* The timeout of the UdpClient, in the timers phase that follows the closing one,
\* also after the peer's close_notify was reported.
on_expired ==
  /\ IsDtlsClient /\ Idling("closing") /\ closing = {} /\ conn[DtlsC].link \in {"open", "unbound"}
  /\ Update(DtlsC, [conn[DtlsC] EXCEPT !.link = "closing"])
  /\ UNCHANGED <<phase, scheduled, jobs, closing>>

\* Faulty: a handle closed before the handshake is finished is not reported
\* (rejected by Completes).
ReportsNothing(s) == IF s.m_ssl_handshake_state # "FINISHED" THEN s ELSE CloseReportedIfSet(s, "closed")

\* The close callback given to set_destination.
on_udp_close(s) == IF s.m_ssl_handshake_state # "FINISHED" THEN Reported(s, "error")
                   ELSE CloseReportedIfSet(s, "closed")

HandleClosed ==
  LET s == conn[DtlsC]
  IN /\ IsDtlsClient /\ Idling("closing") /\ Item("stream", DtlsC) \in closing /\ s.sends = <<>>
     /\ closing' = closing \ {Item("stream", DtlsC)}
     /\ IF s.link = "closing"
        THEN conn' = [conn EXCEPT ![DtlsC] = [on_udp_close(s) EXCEPT !.link = "closed"]] /\ UNCHANGED scheduled
        ELSE /\ conn' = [conn EXCEPT ![DtlsC].link = "closed"]
             /\ scheduled' = scheduled \cup {Item("remove link", DtlsC)}
     /\ UNCHANGED <<phase, jobs, closeRequests, inCallback, config, server>>

DtlsClientCall == dtls_connect \/ dtls_close \/ dtls_send_data \/ dtls_schedule_removal
DtlsClientEvent == \E output \in BOOLEAN : \E pieces \in Batches(conn[DtlsC]) : dtls_on_receive(pieces, output)
DtlsClientCompletion == \E ok \in BOOLEAN : dtls_on_sent(ok)
DtlsClientStep == ReportJob \/ HandleClosed \/ \E bound \in BOOLEAN : DestinationSet(bound)
=============================================================================
