-------------------------------- MODULE Udp ---------------------------------
(***************************************************************************)
(* The two users of UdpImplBase on an event loop: a program that has a     *)
(* UdpServer, or one that has a UdpClient.  (With both, the steps of one   *)
(* do not touch the state of the other.)                                   *)
(***************************************************************************)
EXTENDS UdpServer, UdpClient

ASSUME UdpAssumption == Client \notin (1..MaxPeers) \cup {Server}

vars == <<loopVars, serverVars, clientVars>>

Init == /\ LoopInit
        /\ \E made \in BOOLEAN : ServerInit(made) /\ ClientInit(~made)

LoopStep == (BeginClosing \/ BeginIdle \/ BeginPoll) /\ UNCHANGED <<serverVars, clientVars>>

ServerActs == UNCHANGED clientVars /\ (ServerCall \/ ServerEvent \/ ServerStep)
ClientActs == UNCHANGED serverVars /\ (ClientCall \/ ClientEvent \/ ClientStep)

Next == LoopStep \/ ServerActs \/ ClientActs

Spec == Init /\ [][Next]_vars

\* The loop keeps turning, calls what it has to call and fires due timers, and
\* callbacks return.
FairSpec == /\ Spec
            /\ WF_vars(LoopStep)
            /\ WF_vars(UNCHANGED clientVars /\ ServerStep)
            /\ WF_vars(UNCHANGED serverVars /\ ClientStep)
            /\ SF_vars(UNCHANGED serverVars /\ m_on_item_expired)

-----------------------------------------------------------------------------
\* The types of the members.
TypeOK == LoopTypeOK /\ ServerTypeOK /\ ClientTypeOK

\* The reference counter of a peer is exactly what refers to it: one for
\* m_peers and the backlog together (or for the packet it was made for), and
\* one for each send in progress; at zero, and only then, its removal has
\* begun.  So a peer outlives its sends, and is not leaked.
RefsExact ==
  /\ TypeOK
  /\ \A o \in Objects :
       LET holders == IF o \in Held(m_peers, m_peers_backlog) \/ inCallback = Item("data_untracked", o)
                      THEN 1 ELSE 0
       IN /\ peer[o].m_ref_counter = holders + peer[o].sends
          /\ peer[o].object = "alive" <=> peer[o].m_ref_counter > 0

\* Every tracked peer is in the backlog that will time it out, and every peer of
\* the backlog is tracked (the server's close callback apart, which may start it
\* again before the old peers are forgotten): no peer stays for ever, and no
\* timeout is reported with PEER_NOT_FOUND or for a peer that was closed.
TrackedMeansTimed ==
  /\ inCallback.kind # "server_closed" => Range(m_peers) \ {0} = m_peers_backlog
  /\ m_peers_backlog # {} => server.bookkeeping
  /\ \A o \in Objects : peer[o].ends <= 1

\* Nothing is used after it was deleted: peers in callbacks of the loop, the
\* server in its peers, timers and handle, the client in its jobs and handle,
\* which the timeout, the user and the removal together close only once.  So it
\* is also for a removal asked for while a close is pending, unless both were
\* asked for in one closing phase (JustClosed), where the deletion overtakes the
\* close callback.
NoUseAfterDelete ==
  /\ client.uv_closes <= 1
  /\ \A o \in Objects : peer[o].object = "deleted" =>
       /\ inCallback.id # o
       /\ Item("send_error", o) \notin scheduled \cup jobs
  /\ server.removal = "deleted" =>
       /\ NoSends /\ ~server.receiving /\ m_inactive_peers = {} /\ m_peers_backlog = {}
       /\ ~ClosePending /\ inCallback.kind \notin {"server_closed", "data", "data_untracked", "receive_error"}
  /\ client.removal = "deleted" =>
       /\ client.sends = 0 /\ ~client.receiving /\ ~ClientClosePending /\ ~DestinationPending
       /\ Item("send_error", Client) \notin scheduled \cup jobs /\ inCallback \notin Destinations

\* A removal is completed: the server with all the peers it made, the client.
\* And a client with a timeout that sends and receives nothing is closed.
Completes ==
  /\ server.removal \in {"requested", "scheduled"} ~>
       /\ server.removal = "deleted"
       /\ \A o \in Objects : peer[o].object \in {"none", "deleted"}
  /\ client.removal \in {"requested", "scheduled"} ~> client.removal = "deleted"
  /\ client_is_open /\ client.m_timeout_handler = "item" ~> ~client.expired \/ ~client_is_open
=============================================================================
