------------------------------- MODULE Secure -------------------------------
(***************************************************************************)
(* The users of OpenSslClientImplBase on an event loop: a program that has *)
(* a TlsClient, a TlsServer, a DtlsClient or a DtlsServer.                 *)
(***************************************************************************)
EXTENDS TlsClient, TlsServer, DtlsClient, DtlsServer
LOCAL INSTANCE SequencesExt

vars == <<loopVars, secureVars>>

\* The program, the numbers of its highest version and of its version range,
\* and whether its endpoint, certificate or context will be refused.
Configs == [program : {"TlsClient", "TlsServer"}, MAX : {4}, min : {2}, max : {1, 3}, bad : BOOLEAN]
           \cup [program : {"DtlsClient", "DtlsServer"}, MAX : {2}, min : {2}, max : {1, 2}, bad : BOOLEAN]
IsServer == config.program \in {"TlsServer", "DtlsServer"}

Init ==
  /\ LoopInit /\ config \in Configs
  /\ conn = [c \in Conns |-> IF ~IsServer /\ c = TlsC THEN [NewConn EXCEPT !.object = "alive"] ELSE NewConn]
  /\ server = [object |-> IF IsServer THEN "alive" ELSE "none", handle |-> "none", callback |-> "none",
               listens |-> 0, disabled |-> {}]

LoopStep == (BeginClosing \/ BeginIdle \/ BeginPoll) /\ UNCHANGED secureVars

\* The steps of removal the classes share.
RemovalStep == \/ ~IsServer /\ \E c \in Conns : RemoveLink(c) \/ on_removal(c) \/ ClientDeleted(c)
               \/ IsServer /\ on_removal(Server)

Call == TlsClientCall \/ TlsServerCall \/ DtlsClientCall \/ DtlsServerCall
Event == TlsClientEvent \/ TlsServerEvent \/ DtlsClientEvent \/ DtlsServerEvent
         \/ \E c \in Conns : on_timeout(c)
Completion == TlsClientCompletion \/ TlsServerCompletion \/ DtlsClientCompletion \/ DtlsServerCompletion
Step == \/ TlsClientStep \/ TlsServerStep \/ DtlsClientStep \/ DtlsServerStep \/ RemovalStep
        \/ \E c \in Conns : CallbackReturns(c)

Next == LoopStep \/ Call \/ Event \/ Completion \/ Step \/ on_expired

Spec == Init /\ [][Next]_vars

\* The loop keeps turning and calls what it has to call; sends and shutdowns
\* complete and a silent UdpClient times out, each in its phase of the loop.
FairSpec == Spec /\ WF_vars(LoopStep) /\ WF_vars(Step) /\ SF_vars(Completion) /\ SF_vars(on_expired)

-----------------------------------------------------------------------------
TypeOK ==
  /\ LoopTypeOK /\ config \in Configs
  /\ server.object \in {"none", "alive", "removing", "deleted"}
  /\ server.handle \in {"none", "listening", "closing", "waiting", "removing"}
  /\ server.callback \in {"none", "user", "remove"}
  /\ \A c \in Conns :
       /\ conn[c].object \in {"none", "alive", "removing", "deleted"}
       /\ conn[c].link \in {"none", "scheduled", "connecting", "open", "unbound", "failed", "ended",
                            "shutting", "closing", "cancelling", "removing", "closed"}
       /\ conn[c].m_ssl_handshake_state \in {"NONE", "FINISHING", "FINISHED"}
       /\ \A i \in DOMAIN conn[c].sends :
            conn[c].sends[i] \in {"handshake", "finishing", "finishing, read pending", "alert", "data", "shutdown"}

Ok(r) == r = "ok"
IsData(piece) == piece > Rounds

\* A connection is reported as made at most once and nothing after that; before
\* it only failures of "invalid data" come, which do_handshake also reports for
\* bytes that are not the whole of a flight (OpenSslClientImplBase.h:306).  Data
\* comes after that, and exactly what has arrived in the order of its arrival, up
\* to the first that OpenSSL rejects over TCP.  Nothing of it stays unread, but for
\* what came before the handshake ended and which that end does not know of.  The
\* connection speaks the versions asked for and no others.
HandshakeThenData ==
  /\ TypeOK
  /\ \A c \in Conns :
       LET s == conn[c]
           finished == s.m_ssl_handshake_state = "FINISHED"
           unread == SelectSeq(s.early \o s.m_ssl_read_bio, IsData)
           data == SelectSeq(s.arrived, IsData)
       IN /\ finished <=> \E i \in DOMAIN s.results : Ok(s.results[i])
          /\ \A i \in DOMAIN s.results : Ok(s.results[i]) =>
               i = Len(s.results) /\ \A j \in 1..(i - 1) : s.results[j] = "incomplete"
          /\ s.received # <<>> => finished
          /\ IsPrefix(s.received, data)
          /\ finished /\ ~s.failed =>
               /\ s.received \o unread = data
               /\ unread # <<>> => s.reading \/ s.late \/ CloseNotify \in Range(s.received)
          /\ s.flights > 0 => (IF IsServer THEN server ELSE s).disabled = (1..config.MAX) \ (config.min..config.max)


\* No object is deleted before the last callback of the TCP or UDP object below
\* it; a server's m_clients has no deleted connection.  A server outlives the
\* connections that use it: over TCP all, over UDP those that are open.
OutlivesTransport ==
  /\ \A c \in Conns : conn[c].object = "deleted" =>
       /\ conn[c].sends = <<>> /\ ~conn[c].listed /\ ~conn[c].tracked
       /\ IF IsServer THEN ~conn[c].m_close_callback ELSE conn[c].link \in {"none", "scheduled", "failed", "closed"}
       /\ \A kind \in {"report", "connect_impl", "set destination"} : Item(kind, c) \notin scheduled \cup jobs
  /\ server.object = "deleted" =>
       /\ \A c \in Conns : ~is_open(conn[c]) /\ (IsTlsServer => conn[c].object # "alive")
       /\ server.handle \notin {"listening", "closing", "waiting"}

\* A removal is completed, that of a server with its connections, and the
\* connect() of a DtlsClient is answered even by a silent peer.
Completes ==
  /\ (\E c \in Conns : conn[c].object = "removing") ~> (\A c \in Conns : conn[c].object # "removing")
  /\ server.object = "removing" ~>
       server.object = "deleted" /\ \A c \in Conns : conn[c].object \in {"none", "deleted"}
  /\ IsDtlsClient /\ conn[DtlsC].link = "scheduled" ~> conn[DtlsC].results # <<>> \/ conn[DtlsC].object # "alive"
=============================================================================
