----------------------- MODULE OpenSslClientImplBase ------------------------
(***************************************************************************)
(* One end of a secure connection: what TlsClient, TlsConnectedClient,     *)
(* DtlsClient and DtlsConnectedClient inherit.  Encrypted bytes go through *)
(* OpenSSL's read and write BIOs, and the output is sent over m_client,    *)
(* the TCP or UDP object below (its link).  Methods are functions on the   *)
(* record of a connection; the virtual functions depend on the program.    *)
(*                                                                         *)
(* What a peer sends is a sequence of pieces: the flights 1..Rounds of its *)
(* handshake, MaxData messages and a close_notify.  OpenSSL answers every  *)
(* flight but the last with one of its own, and the last one with output   *)
(* or without.  A Part is the first bytes of a flight that TCP has cut.    *)
(* A Junk piece is one OpenSSL rejects: over TCP for good, over UDP it     *)
(* drops the datagram (also one that comes twice).                         *)
(*                                                                         *)
(* User code runs in on_handshake_complete and after each message: the     *)
(* loop of read_from_ssl is a step for each piece, in the callback of the  *)
(* connection.                                                             *)
(***************************************************************************)
EXTENDS LoopPhases, Sequences, OpenSslContext
LOCAL INSTANCE FiniteSetsExt
LOCAL INSTANCE SequencesExt

CONSTANTS Conns,            \* the connections
          Server,           \* stands for the server in the jobs of the loop
          Rounds,           \* flights of the peer's handshake
          MaxData,          \* messages of the peer
          MaxJunk,          \* bound on the rejected pieces of a connection
          MaxSends,         \* bound on the sends in progress of user code
          MaxRefused,       \* bound on the calls of close() that report an error
          EndsWhileSending, \* may the peer end a TLS connection of a server that is sending?
          CallsWhileClosing,  \* may a server be called before its close is reported?
          AnyExpiry         \* may a DTLS peer expire in its handshake or after its server's deletion?

ASSUME SecureAssumption ==
  /\ Server \notin Conns
  /\ Rounds \in Nat \ {0} /\ MaxData \in Nat /\ MaxJunk \in Nat /\ MaxSends \in Nat
  /\ MaxRefused \in Nat
  /\ {EndsWhileSending, CallsWhileClosing, AnyExpiry} \subseteq BOOLEAN

VARIABLES
  config,   \* the program, its version range, whether its endpoint or context is bad
  conn,     \* the record of each connection
  server    \* the server that makes the connections, if the program has one

secureVars == <<config, conn, server>>

Junk == 0
CloseNotify == Rounds + MaxData + 1
Part == CloseNotify + 1
IsTlsClient == config.program = "TlsClient"
IsTlsServer == config.program = "TlsServer"
IsDtlsClient == config.program = "DtlsClient"
IsDtlsServer == config.program = "DtlsServer"
Datagrams == IsDtlsClient \/ IsDtlsServer

\* early: the datagrams OpenSSL keeps until the handshake is finished; reading:
\* read_from_ssl is in progress; unsent: a send of the handshake failed.  arrived
\* to closes are history: what came and what the user was told.  late: bytes came
\* that the end of the handshake does not know of.
NewConn ==
  [object |-> "none", link |-> "none", tracked |-> FALSE, listed |-> FALSE, disabled |-> {},
   m_ssl_inited |-> FALSE, m_ssl_handshake_state |-> "NONE", flights |-> 0, failed |-> FALSE,
   sent_shutdown |-> FALSE, m_ssl_read_bio |-> <<>>, early |-> <<>>, reading |-> FALSE,
   sends |-> <<>>, unsent |-> FALSE, m_close_callback |-> FALSE, arrived |-> <<>>, cut |-> FALSE,
   late |-> FALSE, junk |-> 0, results |-> <<>>, received |-> <<>>, closes |-> <<>>]

Reported(s, result) == [s EXCEPT !.results = Append(@, result)]

\* The end is reported because close() was refused, the peer's close_notify came,
\* or the connection is closed.
CloseReported(s, why) == [s EXCEPT !.closes = Append(@, why)]

\* The callbacks are called when they are set.
CloseReportedIfSet(s, why) == IF s.m_close_callback THEN CloseReported(s, why) ELSE s

is_open(s) == s.link = "open" /\ s.m_ssl_handshake_state = "FINISHED"

Closing(s) == IF s.link = "open" THEN [s EXCEPT !.link = "closing"] ELSE s

-----------------------------------------------------------------------------
(* The virtual functions of the four classes *)

tls_client_failed(s, result) == Reported(s, result)
dtls_client_failed(s, result) == Reported(s, result)
dtls_server_failed(s, result) == Reported(s, result)

\* The failure is reported, perhaps announced to the peer, and the connection closed.
tls_server_failed(s, result) == Closing(Reported(s, result))

\* The result is "incomplete" when OpenSSL only waits for more bytes.
on_handshake_failed(s, result) == CASE IsTlsClient -> tls_client_failed(s, result)
                                    [] IsTlsServer -> tls_server_failed(s, result)
                                    [] IsDtlsClient -> dtls_client_failed(s, result)
                                    [] IsDtlsServer -> dtls_server_failed(s, result)

\* A close_notify of the peer; TLS waits for the end of the TCP connection.
dtls_client_alert(s) == CloseReportedIfSet(s, "notified")
dtls_server_alert(s) == [CloseReported(s, "notified") EXCEPT !.listed = FALSE]

on_alert(s) == CASE IsDtlsClient -> dtls_client_alert(s)
                 [] IsDtlsServer -> dtls_server_alert(s)
                 [] OTHER -> s

\* Faulty: the callback is kept for the end of the TCP connection (rejected by
\* CloseOnce).
KeepsCallback(s) == CloseReportedIfSet(s, "closed")

\* The callback of TlsClient::close, also called when the TCP connection ends:
\* whichever comes first.
CloseTaken(s) == [CloseReportedIfSet(s, "closed") EXCEPT !.m_close_callback = FALSE]

\* The callback of DtlsConnectedClient::close closes the UdpPeer.
connected_shut(s) == [CloseReported(s, "closed") EXCEPT !.tracked = FALSE, !.link = "closed"]

\* The callback of the close_notify that close() sends; that of DtlsClient closes
\* the UdpClient, and TlsConnectedClient sends none.
ShutdownSent(s) == CASE IsTlsClient -> CloseTaken(s)
                     [] IsDtlsClient -> Closing(s)
                     [] IsDtlsServer -> connected_shut(s)

-----------------------------------------------------------------------------
(* Methods *)

\* The loop of read_from_ssl begins: OpenSSL first reads what it kept.
read_from_ssl(s) == [s EXCEPT !.reading = TRUE, !.late = FALSE, !.early = <<>>,
                              !.m_ssl_read_bio = s.early \o @]

\* SSL_read of one piece, which ends the loop after an error, after a
\* close_notify, and when nothing is left.  on_alert is called for a
\* close_notify, unless the own one was sent before.
SslRead(s) ==
  LET piece == Head(s.m_ssl_read_bio)
      rest  == [s EXCEPT !.m_ssl_read_bio = Tail(@)]
      t     == [rest EXCEPT !.received = Append(@, piece)]
      last  == [t EXCEPT !.reading = FALSE]
  IN CASE s.failed \/ s.m_ssl_read_bio = <<>> \/ CloseNotify \in Range(s.received) ->
            [s EXCEPT !.reading = FALSE]
       [] OTHER ->
            CASE piece = Junk -> [rest EXCEPT !.failed = ~Datagrams]
              [] piece = CloseNotify -> IF s.sent_shutdown THEN last ELSE on_alert(last)
              [] OTHER -> t

\* finish_handshake, and the reading that follows it.
finish_handshake(s, read_pending) ==
  LET t == Reported([s EXCEPT !.m_ssl_handshake_state = "FINISHED"], "ok")
  IN IF read_pending THEN read_from_ssl(t) ELSE t

\* The callback of a send of the kind.
SendDone(s, kind, ok) ==
  CASE kind \in {"data", "alert"} -> s
    [] kind = "shutdown" -> ShutdownSent(s)
    [] kind = "handshake" ->
         IF ok THEN s ELSE on_handshake_failed([s EXCEPT !.unsent = TRUE], "error")
    [] kind \in {"finishing", "finishing, read pending"} ->
         IF ok THEN finish_handshake(s, kind = "finishing, read pending")
         ELSE on_handshake_failed(s, "error")

\* m_client->send_data of OpenSSL's output.  A link that is not open refuses it
\* with an error, which it gives to the callback at once.
internal_read_from_sll_and_send(s, kind) ==
  IF s.link = "open" THEN [s EXCEPT !.sends = Append(@, kind)] ELSE SendDone(s, kind, FALSE)

\* The callback of the oldest send in progress.
on_sent(s, ok) == SendDone([s EXCEPT !.sends = Tail(@)], Head(s.sends), ok)

\* Faulty: what came with the last flight is not read when the handshake
\* finishes (rejected by HandshakeThenData).
ForgetsPending(s) == "finishing"

\* The callback that finishes the handshake keeps whether there was more to read.
FinishingSend(s) == IF s.m_ssl_read_bio = <<>> THEN "finishing" ELSE "finishing, read pending"

\* SSL_do_handshake of one piece, with or without output for the last flight or
\* an error, and what becomes of its result.  Without output, more bytes to wait
\* for are a failure.  A client begins with an empty read BIO.
do_handshake(s, output) ==
  LET piece == Head(s.m_ssl_read_bio)
      rest  == [s EXCEPT !.m_ssl_read_bio = Tail(@)]
      t     == [rest EXCEPT !.flights = piece]
      alert == IF output THEN internal_read_from_sll_and_send(rest, "alert") ELSE rest
  IN CASE s.m_ssl_handshake_state = "FINISHING" -> [s EXCEPT !.late = TRUE]
       [] s.m_ssl_handshake_state # "FINISHING" /\ s.failed -> on_handshake_failed(s, "error")
       [] OTHER ->
            CASE s.m_ssl_read_bio = <<>> -> internal_read_from_sll_and_send(s, "handshake")
              [] piece = Part \/ (piece = Junk /\ Datagrams) -> on_handshake_failed(rest, "incomplete")
              [] piece = Junk /\ ~Datagrams -> on_handshake_failed([alert EXCEPT !.failed = TRUE], "error")
              [] piece \in (Rounds + 1)..CloseNotify ->
                   on_handshake_failed([rest EXCEPT !.early = Append(@, piece), !.late = TRUE], "incomplete")
              [] piece \in 1..(Rounds - 1) -> internal_read_from_sll_and_send(t, "handshake")
              [] piece = Rounds /\ output ->
                   internal_read_from_sll_and_send(
                     [t EXCEPT !.m_ssl_handshake_state = "FINISHING"], FinishingSend(t))
              [] piece = Rounds /\ ~output -> finish_handshake(t, t.m_ssl_read_bio # <<>>)

on_data_receive(s, pieces, output) ==
  LET t == [s EXCEPT !.m_ssl_read_bio = @ \o pieces]
  IN IF s.m_ssl_handshake_state = "FINISHED" THEN read_from_ssl(t) ELSE do_handshake(t, output)

\* SSL_shutdown fails before the handshake, after an error, and when it is
\* called again without an answer; the caller then gets an error.
ShutdownFails(s) ==
  s.failed \/ s.flights < Rounds \/ (s.sent_shutdown /\ CloseNotify \notin Range(s.received))

ssl_shutdown(s) ==
  IF s.sent_shutdown THEN s
  ELSE internal_read_from_sll_and_send([s EXCEPT !.sent_shutdown = TRUE], "shutdown")

\* SSL_write and the sending of its output; refused, it only calls back an error.
send_data_impl(s) == [s EXCEPT !.sends = Append(@, "data")]
CanSend(s) == is_open(s) /\ ~s.failed /\ ~s.sent_shutdown /\ Len(s.sends) < MaxSends

\* When user code calls close(): at any time once there is an SSL object.
Refused(why) == why = "refused"
MayClose(s) == /\ s.object = "alive" /\ s.m_ssl_inited
               /\ ShutdownFails(s) => Len(SelectSeq(s.closes, Refused)) < MaxRefused

\* When user code calls a server.
Usable == server.object = "alive" /\ (CallsWhileClosing \/ server.handle \in {"none", "listening"})

-----------------------------------------------------------------------------
(* The peer and the loop *)

\* What may arrive next.  The peer sends a flight once it has the answer to the
\* one before, whose send is completed first, and its data after its last flight.
\* TCP cuts a flight (at most once) or brings two pieces together; UDP loses and
\* reorders data, which may overtake the last flight.
Batches(s) ==
  LET left == (1..CloseNotify) \ Range(s.arrived)
      Flight(p) == p \in left /\ s.flights = p - 1 /\ "handshake" \notin Range(s.sends) /\ ~s.unsent
      Data(p) == p \in left /\ IF Datagrams THEN Rounds \notin left \/ Flight(Rounds) ELSE p = Min(left)
      ready == {p \in 1..Rounds : Flight(p)} \cup {p \in (Rounds + 1)..CloseNotify : Data(p)}
      parts == IF s.cut THEN {} ELSE {Part : p \in ready \cap (1..Rounds)}
      junk  == IF s.junk < MaxJunk THEN {Junk} ELSE {}
  IN IF Datagrams THEN {<<p>> : p \in ready \cup junk}
     ELSE {<<p>> : p \in ready \cup junk \cup parts}
          \cup {<<p, p + 1>> : p \in ready \cap (Rounds..(CloseNotify - 1))}

\* The record with the pieces accounted for.
Arrived(s, pieces) == CASE pieces = <<Junk>> -> [s EXCEPT !.junk = @ + 1]
                        [] pieces = <<Part>> -> [s EXCEPT !.cut = TRUE]
                        [] OTHER -> [s EXCEPT !.arrived = @ \o pieces, !.cut = FALSE]

\* A handle given to uv_close completes its sends before its close callback.
Completing(c) == /\ conn[c].sends # <<>>
                 /\ \/ Idling("poll")
                    \/ Idling("closing") /\ closing \cap {Item("stream", c), Item("stream", Server)} # {}

\* The callback that runs when the connection becomes s: a loop of read_from_ssl
\* goes on until it ends.
Calling(c, s) == inCallback' = CASE s.reading -> Item("read_from_ssl", c)
                                 [] ~s.reading /\ conn[c].reading -> NotInCallback
                                 [] OTHER -> inCallback

\* The connection becomes s, and its handle is closed if the link now is.
Update(c, s) ==
  /\ conn' = [conn EXCEPT ![c] = s]
  /\ Calling(c, s)
  /\ closeRequests' = IF conn[c].link # s.link /\ s.link \in {"closing", "cancelling"}
                      THEN closeRequests \cup {Item("stream", c)} ELSE closeRequests
  /\ UNCHANGED <<config, server>>

\* User code returns to the loop of read_from_ssl.
CallbackReturns(c) ==
  /\ inCallback = Item("read_from_ssl", c)
  /\ Update(c, SslRead(conn[c]))
  /\ UNCHANGED <<phase, scheduled, jobs, closing>>

\* The removal callback of m_client: the second step of the removal.
RemoveLink(c) ==
  /\ Idling("idle") /\ Item("remove link", c) \in jobs
  /\ jobs' = jobs \ {Item("remove link", c)}
  /\ scheduled' = scheduled \cup {Item("remove", c)}
  /\ UNCHANGED <<phase, closeRequests, closing, inCallback, secureVars>>

\* Removable::on_removal ...
on_removal(x) ==
  /\ Idling("idle") /\ Item("remove", x) \in jobs
  /\ jobs' = jobs \ {Item("remove", x)}
  /\ closeRequests' = closeRequests \cup {Item("delete", x)}
  /\ UNCHANGED <<phase, scheduled, closing, inCallback, secureVars>>

\* ... and the deletion of a client.
ClientDeleted(c) ==
  /\ Idling("closing") /\ Item("delete", c) \in closing
  /\ closing' = closing \ {Item("delete", c)}
  /\ conn' = [conn EXCEPT ![c].object = "deleted"]
  /\ UNCHANGED <<phase, scheduled, jobs, closeRequests, inCallback, config, server>>
=============================================================================
