--------------------------- MODULE UdpHandleProofs --------------------------
(***************************************************************************)
(* The inductive invariant of UdpProofs, and the steps that keep it because  *)
(* they leave the peers alone: the loop's, the client's, and those that open *)
(* and close the server's handle or only call the user.                      *)
(***************************************************************************)
EXTENDS Udp, TLAPS

Tracked == Held(m_peers, m_peers_backlog)

\* n references are held besides those of the sends.
Exact(q, n) == /\ q.m_ref_counter = n + q.sends
               /\ q.object = "alive" <=> q.m_ref_counter > 0

Holders(o) == IF o \in Tracked \/ inCallback = Item("data_untracked", o) THEN 1 ELSE 0

\* The server was closed and is to be removed: it is not opened again.
Leaving == server.closing /\ server.removal # "none"

\* Of each peer: the counter is exact; a peer made for one packet is not tracked
\* too; one that is removed in its own callback was closed, or its server is
\* leaving, so that it cannot send; what the loop deletes has lost its last reference; and, if peers are
\* not closed in the callbacks they are reported by, a tracked one has not ended.
PeerInv(o) ==
  /\ Exact(peer[o], Holders(o))
  /\ peer[o].object # "none" => peer[o].id \in Peers
  /\ inCallback = Item("data_untracked", o) => o \notin Tracked
  /\ inCallback.id = o /\ peer[o].object = "removed" => ~peer[o].m_udp_handle \/ Leaving
  /\ Item("on_removal", o) \in scheduled \cup jobs => peer[o].object \in {"removed", "deleted"}
  /\ Item("delete", o) \in closeRequests \cup closing => peer[o].object \in {"removed", "deleted"}

EndsInv(o) ==
  /\ peer[o].ends <= 1
  /\ peer[o].object = "none" => peer[o].ends = 0
  /\ o \in Tracked => peer[o].ends = IF inCallback = Item("timeout", o) THEN 1 ELSE 0

\* A server that has peers cannot be started before it is closed, or from inside
\* its close callback.
Started == \/ server.m_connection_in_progress \/ server.removal # "none"
           \/ server.m_udp_handle_inited /\ server.closing
           \/ inCallback.kind = "server_closed"

\* m_peers and the backlog hold the same peers, each under its own address.
TrackInv ==
  /\ m_peers # NoPeers => Started
  /\ \A p \in Peers : m_peers[p] # 0 => peer[m_peers[p]].id = p
  /\ m_peers_backlog \subseteq Range(m_peers)
  /\ inCallback.kind # "server_closed" => Range(m_peers) \ {0} = m_peers_backlog
  /\ m_peers_backlog # {} => server.bookkeeping

PeerKinds == {"new_peer", "data", "data_untracked", "timeout"}

\* A server that receives has an open handle, and the handle is closed once; so
\* it is there in the callbacks of a packet, or its close callback still to come.
HandleInv ==
  /\ server.receiving => server_is_open /\ server.m_connection_in_progress
  /\ ClosePending => server.m_udp_handle_inited /\ server.closing
  /\ \A x, y \in ServerHandles : /\ ~(x \in closeRequests /\ y \in closing)
                                 /\ x \in closeRequests /\ y \in closeRequests => x = y
                                 /\ x \in closing /\ y \in closing => x = y
  /\ inCallback.kind \in PeerKinds \ {"timeout"} =>
       server.m_udp_handle_inited /\ (server.closing => ClosePending)
  /\ inCallback.id \in Objects => inCallback.kind \in PeerKinds

\* The inductive invariant of the proofs.
IInv == /\ TypeOK /\ TrackInv /\ HandleInv
        /\ \A o \in Objects : PeerInv(o) /\ (~ClosesInCallbacks => EndsInv(o))

USE UdpServerAssumption, UdpClientAssumption, UdpAssumption

-----------------------------------------------------------------------------
(* References *)

\* No callback is none of a peer's.
LEMMA NoCallback ==
  /\ NotInCallback.id \notin Objects
  /\ NotInCallback.kind \notin PeerKinds \cup {"server_closed"}
<1>1. NotInCallback.id = 0 /\ NotInCallback.kind = "none" BY DEF NotInCallback, Item
<1>2. 0 \notin Objects /\ "none" \notin PeerKinds \cup {"server_closed"} BY DEF Objects, PeerKinds
<1> QED BY <1>1, <1>2

\* unref gives back one reference, and the last one begins the removal.
LEMMA UnrefExact ==
  ASSUME NEW q \in PeerType, NEW n \in {0, 1}, q.m_ref_counter = n + 1 + q.sends, q.object = "alive"
  PROVE  /\ unref(q) \in PeerType /\ Exact(unref(q), n)
         /\ unref(q).object \in {"alive", "removed"}
         /\ unref(q).id = q.id /\ unref(q).m_udp_handle = q.m_udp_handle /\ unref(q).ends = q.ends
<1>1. q.m_ref_counter \in 1..MaxSends + 1 /\ q.object = "alive" /\ q.sends \in 0..MaxSends
  BY DEF PeerType
<1> DEFINE r == [q EXCEPT !.m_ref_counter = @ - 1,
                          !.object = IF q.m_ref_counter = 1 THEN "removed" ELSE @]
<1>2. unref(q) = r BY <1>1 DEF unref
<1>3. /\ r.m_ref_counter = q.m_ref_counter - 1 /\ r.sends = q.sends
      /\ r.object = IF q.m_ref_counter = 1 THEN "removed" ELSE "alive"
      /\ r.id = q.id /\ r.m_udp_handle = q.m_udp_handle /\ r.ends = q.ends
  BY <1>1 DEF PeerType
<1>4. r \in PeerType
  <2> DEFINE less == [q EXCEPT !.m_ref_counter = @ - 1]
             object == IF q.m_ref_counter = 1 THEN "removed" ELSE q.object
  <2>1. less \in PeerType BY <1>1 DEF PeerType
  <2>2. object \in {"none", "alive", "removed", "deleted"} BY <1>1
  <2>3. r = [less EXCEPT !.object = object] BY DEF PeerType
  <2> HIDE DEF less, object, r
  <2> QED BY <2>1, <2>2, <2>3 DEF PeerType
<1>5. Exact(r, n) BY <1>1, <1>3 DEF Exact
<1> QED BY <1>2, <1>3, <1>4, <1>5

\* A peer that m_peers or the backlog holds is alive.
LEMMA TrackedAlive == ASSUME IInv, NEW o \in Objects, o \in Tracked PROVE peer[o].object = "alive"
<1>1. peer[o].m_ref_counter = 1 + peer[o].sends
  BY DEF IInv, PeerInv, Exact, Holders
<1>2. peer[o].sends \in Nat BY DEF IInv, TypeOK, ServerTypeOK, PeerType
<1>3. peer[o].m_ref_counter > 0 BY <1>1, <1>2
<1> QED BY <1>3 DEF IInv, PeerInv, Exact

\* What the backlog holds, m_peers holds.
LEMMA BacklogTracked == ASSUME IInv PROVE m_peers_backlog \subseteq Range(m_peers) \ {0}
<1>1. m_peers_backlog \subseteq Objects BY DEF IInv, TypeOK, ServerTypeOK
<1>2. 0 \notin Objects BY DEF Objects
<1> QED BY <1>1, <1>2 DEF IInv, TrackInv

\* The peer of an address is tracked.
LEMMA ActiveTracked ==
  ASSUME IInv, NEW p \in Peers, m_peers[p] # 0
  PROVE  m_peers[p] \in Objects /\ m_peers[p] \in Tracked /\ m_peers[p] \in Range(m_peers)
<1>1. m_peers \in [Peers -> 0..MaxPeers] BY DEF IInv, TypeOK, ServerTypeOK
<1>2. m_peers[p] \in Objects BY <1>1 DEF Objects
<1>3. m_peers[p] \in Range(m_peers) BY <1>1 DEF Range
<1> QED BY <1>2, <1>3 DEF Tracked, Held

\* A step that keeps the server keeps it leaving.
LEMMA SameServer == ASSUME server' = server PROVE Leaving => Leaving'
BY DEF Leaving

\* A peer an action does not touch: it stays tracked or not, nothing new is to be
\* removed, and no callback that counts as its reference or reports its timeout
\* begins or ends.
LEMMA SamePeer ==
  ASSUME IInv, NEW o \in Objects, peer'[o] = peer[o], o \in Tracked' <=> o \in Tracked,
         Item("on_removal", o) \in scheduled' \cup jobs' => Item("on_removal", o) \in scheduled \cup jobs,
         Item("delete", o) \in closeRequests' \cup closing' =>
           Item("delete", o) \in closeRequests \cup closing \/ Item("on_removal", o) \in jobs,
         \/ inCallback' = inCallback
         \/ /\ Item("data_untracked", o) \notin {inCallback, inCallback'}
            /\ o \in Tracked => Item("timeout", o) \notin {inCallback, inCallback'}
            /\ inCallback'.id = o => inCallback.id = o \/ o \in Tracked,
         Leaving => Leaving'
  PROVE  PeerInv(o)' /\ (~ClosesInCallbacks => EndsInv(o)')
<1>1. PeerInv(o) /\ (~ClosesInCallbacks => EndsInv(o)) BY DEF IInv
<1>2. Holders(o)' = Holders(o) BY DEF Holders
<1>3. o \in Tracked => peer[o].object = "alive" BY TrackedAlive
<1>4. PeerInv(o)'
  <2>1. Exact(peer[o], Holders(o))' BY <1>1, <1>2 DEF PeerInv, Exact
  <2>2. inCallback'.id = o /\ peer'[o].object = "removed" => ~peer'[o].m_udp_handle \/ Leaving'
    BY <1>1, <1>3 DEF PeerInv
  <2> QED BY <1>1, <1>3, <2>1, <2>2 DEF PeerInv
<1>5. ASSUME EndsInv(o) PROVE EndsInv(o)' BY <1>5 DEF EndsInv
<1> QED BY <1>1, <1>4, <1>5

-----------------------------------------------------------------------------
(* The loop and the client leave the server and its peers alone *)

\* The loop moves its own queues only.
LEMMA LoopKeeps == ASSUME IInv, LoopStep PROVE IInv'
<1>1. /\ Tracked' = Tracked /\ UNCHANGED <<serverVars, clientVars, inCallback>>
      /\ inCallback = NotInCallback
  BY DEF LoopStep, BeginClosing, BeginIdle, BeginPoll, Tracked, serverVars, Idling
<1>2. TypeOK'
  BY <1>1 DEF IInv, TypeOK, LoopTypeOK, ServerTypeOK, ClientTypeOK, LoopStep, BeginClosing,
              BeginIdle, BeginPoll, Idling, serverVars, clientVars
<1>3. TrackInv' BY <1>1 DEF IInv, TrackInv, serverVars, Started
<1>4. HandleInv'
  <2>1. phase # "closing" => closing = {} BY DEF IInv, TypeOK, LoopTypeOK
  <2>2. closeRequests' \cup closing' = closeRequests \cup closing
    BY <2>1 DEF LoopStep, BeginClosing, BeginIdle, BeginPoll, Idling
  <2>3. \/ closeRequests' = closeRequests /\ closing' = closing
        \/ closeRequests' = {} /\ closing = {} /\ closing' = closeRequests
    BY <2>1 DEF LoopStep, BeginClosing, BeginIdle, BeginPoll, Idling
  <2> QED BY <1>1, <2>2, <2>3 DEF IInv, HandleInv, ClosePending, server_is_open, serverVars, ServerHandles
<1>5. ASSUME NEW o \in Objects PROVE PeerInv(o)' /\ (~ClosesInCallbacks => EndsInv(o)')
  <2>1. /\ scheduled' \cup jobs' \subseteq scheduled \cup jobs
        /\ closeRequests' \cup closing' \subseteq closeRequests \cup closing
    BY DEF LoopStep, BeginClosing, BeginIdle, BeginPoll, Idling
  <2> QED BY <1>1, <2>1, SamePeer, SameServer DEF serverVars
<1> QED BY <1>2, <1>3, <1>4, <1>5 DEF IInv

\* The client that close_impl closes.
LEMMA CloseImplType ==
  ASSUME NEW now \in ClientType, NEW handler, close_impl(handler, now)
  PROVE  client' \in ClientType
<1>1. now.uv_closes + 1 \in Nat BY DEF ClientType
<1>2. client' = [now EXCEPT !.closing = TRUE, !.receiving = FALSE, !.uv_closes = now.uv_closes + 1]
  BY DEF close_impl
<1> QED BY <1>1, <1>2, Zenon DEF ClientType

\* What the methods and handlers of the client do to the rest.
LEMMA ClientFrame ==
  ASSUME IInv, ClientActs
  PROVE  /\ UNCHANGED <<serverVars, phase>> /\ jobs' \subseteq jobs /\ closing' \subseteq closing
         /\ \/ inCallback' = inCallback
            \/ {inCallback, inCallback'} \subseteq Destinations \cup {NotInCallback}
         /\ \A kind, x : x # Client =>
              /\ Item(kind, x) \in scheduled' => Item(kind, x) \in scheduled
              /\ Item(kind, x) \in closeRequests' <=> Item(kind, x) \in closeRequests
              /\ Item(kind, x) \in closing' <=> Item(kind, x) \in closing
         /\ ClientTypeOK'
<1> USE DEF ClientActs, Item, clientVars, loopVars, Idling, ClientTypeOK
<1>1. client \in ClientType BY DEF IInv, TypeOK
<1>2. CASE client_ensure_handle_inited
  BY <1>1, <1>2, Zenon DEF client_ensure_handle_inited, ClientType
<1>3. CASE client_close
  <2>1. client' \in ClientType
    BY <1>1, <1>3, CloseImplType DEF client_close
  <2> QED BY <1>3, <2>1 DEF client_close, close_impl
<1>4. CASE client_schedule_removal
  <2>1. client' \in ClientType
    <3>1. [client EXCEPT !.removal = "requested"] \in ClientType BY <1>1 DEF ClientType
    <3>2. [client EXCEPT !.removal = "scheduled"] \in ClientType BY <1>1 DEF ClientType
    <3> QED BY <1>4, <3>1, <3>2, CloseImplType DEF client_schedule_removal
  <2> QED BY <1>4, <2>1 DEF client_schedule_removal, close_impl
<1>5. CASE client_send_data
  <2>1. \/ UNCHANGED client /\ scheduled' = scheduled \cup {Item("send_error", Client)}
        \/ /\ client' = [client EXCEPT !.sends = client.sends + 1, !.expired = FALSE]
           /\ client.sends < MaxRequests /\ UNCHANGED scheduled
    BY <1>5 DEF client_send_data
  <2>2. client' \in ClientType
    <3>1. client.sends < MaxRequests => client.sends + 1 \in 0..MaxRequests BY <1>1 DEF ClientType
    <3> QED BY <1>1, <2>1, <3>1, Zenon DEF ClientType
  <2> QED BY <1>5, <2>1, <2>2 DEF client_send_data
<1>6. CASE TimePasses
  BY <1>1, <1>6, Zenon DEF TimePasses, ClientType
<1>7. CASE client_on_data_received
  BY <1>1, <1>7, Zenon DEF client_on_data_received, ClientType
<1>8. CASE m_on_item_expired
  <2>1. client' \in ClientType
    <3>1. [client EXCEPT !.m_timeout_handler = "empty"] \in ClientType BY <1>1 DEF ClientType
    <3> QED BY <1>8, <3>1, CloseImplType DEF m_on_item_expired
  <2> QED BY <1>8, <2>1 DEF m_on_item_expired, close_impl
<1>9. CASE DestinationReturns
  <2>1. client' \in ClientType
    <3> DEFINE now == [client EXCEPT !.m_close_callback = TRUE,
                         !.m_timeout_handler = IF client.expired THEN "empty" ELSE "item"]
    <3>1. now \in ClientType BY <1>1, Zenon DEF ClientType
    <3>2. client' = client \/ client' = now \/ close_impl("on_close_no_removal", now)
      BY <1>9 DEF DestinationReturns
    <3> HIDE DEF now
    <3> QED BY <1>1, <3>1, <3>2, CloseImplType
  <2>2. \/ closeRequests' = closeRequests
        \/ closeRequests' = closeRequests \cup {Item("on_close_no_removal", Client)}
    BY <1>9 DEF DestinationReturns, close_impl
  <2> QED BY <1>9, <2>1, <2>2 DEF DestinationReturns
<1>10. CASE client_on_send
  BY <1>1, <1>10 DEF client_on_send, ClientType
<1>11. CASE client_send_error
  BY <1>1, <1>11 DEF client_send_error
<1>12. CASE on_close_no_removal
  BY <1>1, <1>12, Zenon DEF on_close_no_removal, ClientType
<1>13. CASE client_on_close_with_removal
  BY <1>1, <1>13, Zenon DEF client_on_close_with_removal, ClientType
<1>14. CASE client_on_removal
  BY <1>1, <1>14 DEF client_on_removal
<1>15. CASE DeleteClient
  BY <1>1, <1>15 DEF DeleteClient, ClientType
<1>16. CASE \E timed \in BOOLEAN : set_destination(timed)
  BY <1>1, <1>16 DEF set_destination
<1>17. CASE \E d \in Destinations, bound \in BOOLEAN : SetDestination(d, bound)
  <2>1. client' \in ClientType
    <3>1. SUFFICES ASSUME NEW bound \in BOOLEAN, NEW d \in Destinations, SetDestination(d, bound)
                   PROVE  client' \in ClientType
      BY <1>17
    <3> DEFINE known == client.m_destination_endpoint \/ bound
    <3>2. known \in BOOLEAN OBVIOUS
    <3>3. \/ client' = client
          \/ client' = [client EXCEPT !.m_udp_handle_inited = TRUE, !.closing = FALSE,
                         !.uv_closes = 0, !.receiving = bound, !.m_destination_endpoint = known]
      BY <3>1 DEF SetDestination
    <3> HIDE DEF known
    <3> DEFINE opened == [client EXCEPT !.m_udp_handle_inited = TRUE, !.closing = FALSE,
                                        !.uv_closes = 0]
               receives == [opened EXCEPT !.receiving = bound]
    <3>4. opened \in ClientType BY <1>1, Zenon DEF ClientType
    <3>5. receives \in ClientType
      <4> HIDE DEF opened
      <4> QED BY <3>4 DEF ClientType
    <3>6. [receives EXCEPT !.m_destination_endpoint = known] \in ClientType
      <4> HIDE DEF receives
      <4> QED BY <3>2, <3>5 DEF ClientType
    <3> QED BY <1>1, <3>3, <3>6, Zenon DEF ClientType
  <2> QED BY <1>17, <2>1 DEF SetDestination
<1> QED BY <1>2, <1>3, <1>4, <1>5, <1>6, <1>7, <1>8, <1>9, <1>10,
           <1>11, <1>12, <1>13, <1>14, <1>15, <1>16, <1>17
        DEF ClientCall, ClientEvent, ClientStep

\* The client keeps the invariant of the server.
LEMMA ClientKeeps == ASSUME IInv, ClientActs PROVE IInv'
<1>1. /\ UNCHANGED <<serverVars, phase>> /\ jobs' \subseteq jobs /\ closing' \subseteq closing
      /\ \/ inCallback' = inCallback
         \/ {inCallback, inCallback'} \subseteq Destinations \cup {NotInCallback}
      /\ ClientTypeOK'
  BY ClientFrame
<1>2. \A kind, x : x # Client =>
        /\ Item(kind, x) \in scheduled' => Item(kind, x) \in scheduled
        /\ Item(kind, x) \in closeRequests' <=> Item(kind, x) \in closeRequests
        /\ Item(kind, x) \in closing' <=> Item(kind, x) \in closing
  BY ClientFrame
<1>3. inCallback' # inCallback =>
        /\ inCallback'.id \notin Objects /\ inCallback'.kind \notin PeerKinds \cup {"server_closed"}
        /\ inCallback.id \notin Objects /\ inCallback.kind \notin PeerKinds \cup {"server_closed"}
  <2>1. \A c \in Destinations \cup {NotInCallback} :
          c.id \notin Objects /\ c.kind \notin PeerKinds \cup {"server_closed"}
    <3>1. ASSUME NEW c \in Destinations PROVE c.id = Client /\ c.kind \notin PeerKinds \cup {"server_closed"}
      BY DEF Destinations, PeerKinds
    <3>2. Client \notin Objects BY DEF Objects
    <3> QED BY <3>1, <3>2, NoCallback
  <2> QED BY <1>1, <2>1
<1>4. TypeOK' BY <1>1 DEF IInv, TypeOK, LoopTypeOK, ServerTypeOK, serverVars
<1>5. TrackInv' BY <1>1, <1>3 DEF IInv, TrackInv, serverVars, Started
<1>6. HandleInv'
  <2>1. \A x \in ServerHandles : /\ x \in closeRequests' <=> x \in closeRequests
                                 /\ x \in closing' <=> x \in closing
    BY <1>2 DEF ServerHandles
  <2>2. ClosePending' = ClosePending BY <2>1 DEF ClosePending
  <2>3. server' = server BY <1>1 DEF serverVars
  <2> QED BY <1>3, <2>1, <2>2, <2>3 DEF IInv, HandleInv, server_is_open, ServerHandles
<1>7. ASSUME NEW o \in Objects PROVE PeerInv(o)' /\ (~ClosesInCallbacks => EndsInv(o)')
  <2>1. o # Client BY DEF Objects
  <2>2. Tracked' = Tracked /\ peer' = peer /\ (Leaving => Leaving')
    BY <1>1, SameServer DEF Tracked, serverVars
  <2>3. inCallback' # inCallback =>
          /\ inCallback.id # o /\ inCallback'.id # o
          /\ inCallback \notin {Item("data_untracked", o), Item("timeout", o)}
          /\ inCallback' \notin {Item("data_untracked", o), Item("timeout", o)}
    <3>1. Item("data_untracked", o).id = o /\ Item("timeout", o).id = o BY DEF Item
    <3> QED BY <1>3, <3>1
  <2> QED BY <1>1, <1>2, <2>1, <2>2, <2>3, SamePeer
<1> QED BY <1>4, <1>5, <1>6, <1>7 DEF IInv

-----------------------------------------------------------------------------
(* Steps of the server that keep its peers *)

\* What has to be shown of a step that keeps the peers.
LEMMA QuietStep ==
  ASSUME IInv, UNCHANGED <<m_peers, peer, clientVars, phase>>,
         \/ UNCHANGED m_peers_backlog /\ (server.bookkeeping => server'.bookkeeping)
         \/ m_peers_backlog' = {} /\ (m_peers = NoPeers \/ inCallback'.kind = "server_closed"),
         Started => Started', Leaving => Leaving',
         server' \in ServerType, m_inactive_peers' \subseteq Peers,
         jobs' \subseteq jobs, closing' \subseteq closing,
         \A o \in Objects :
           /\ Item("on_removal", o) \in scheduled' => Item("on_removal", o) \in scheduled
           /\ Item("delete", o) \in closeRequests' =>
                Item("delete", o) \in closeRequests \/ Item("on_removal", o) \in jobs,
         \/ inCallback' = inCallback
         \/ /\ inCallback.kind # "server_closed"
            /\ \A o \in Objects :
                 /\ inCallback \notin {Item("data_untracked", o), Item("timeout", o)}
                 /\ inCallback' \notin {Item("data_untracked", o), Item("timeout", o)}
                 /\ inCallback'.id = o => inCallback.id = o \/ o \in Tracked,
         HandleInv'
  PROVE  IInv'
<1>1. TypeOK' BY DEF IInv, TypeOK, LoopTypeOK, ServerTypeOK, ClientTypeOK, clientVars
<1>2. TrackInv'
  <2>1. m_peers = NoPeers => Range(m_peers) \subseteq {0} BY DEF NoPeers, Range
  <2> QED BY <2>1 DEF IInv, TrackInv
<1>3. ASSUME NEW o \in Objects PROVE PeerInv(o)' /\ (~ClosesInCallbacks => EndsInv(o)')
  <2>1. Tracked' = Tracked /\ peer'[o] = peer[o] BY BacklogTracked DEF Tracked, Held
  <2> QED BY <2>1, SamePeer
<1> QED BY <1>1, <1>2, <1>3 DEF IInv

\* set_receive_buffer_size and set_send_buffer_size.
LEMMA InitStep == ASSUME IInv, UNCHANGED clientVars, ensure_handle_inited PROVE IInv'
<1>1. server \in ServerType BY DEF IInv, TypeOK, ServerTypeOK
<1>2. server' \in ServerType /\ server'.bookkeeping = server.bookkeeping
  BY <1>1, Zenon DEF ensure_handle_inited, ServerType
<1>3. HandleInv'
  <2>1. ~ClosePending BY <1>1 DEF IInv, HandleInv, ensure_handle_inited, Usable, ServerType
  <2> QED BY <1>1, <2>1 DEF IInv, HandleInv, ensure_handle_inited, loopVars, ClosePending, server_is_open,
                            ServerType, ServerHandles
<1>4. (Started => Started') /\ ~Leaving
  BY <1>1 DEF Started, Leaving, ensure_handle_inited, Usable, ServerType, loopVars
<1> QED BY <1>1, <1>2, <1>3, <1>4, QuietStep DEF ensure_handle_inited, loopVars, IInv, TypeOK, ServerTypeOK

\* The new backlog of start_receive drops nothing: the server has no peers, or
\* m_peers holds them until its close callback returns.
LEMMA StartStep ==
  ASSUME IInv, UNCHANGED clientVars, NEW bookkeeping \in BOOLEAN, NEW bound \in BOOLEAN,
         start_receive(bookkeeping, bound)
  PROVE  IInv'
<1>1. server \in ServerType BY DEF IInv, TypeOK, ServerTypeOK
<1> DEFINE booked == server.bookkeeping \/ bookkeeping
<1>2. booked \in BOOLEAN OBVIOUS
<1>3. server' = [server EXCEPT !.m_udp_handle_inited = TRUE, !.closing = FALSE, !.receiving = bound,
                               !.m_connection_in_progress = bound, !.bookkeeping = booked]
  BY DEF start_receive
<1>4. server' \in ServerType
  <2> HIDE DEF booked
  <2>1. CASE bound = TRUE BY <1>1, <1>2, <1>3, <2>1, Zenon DEF ServerType
  <2>2. CASE bound = FALSE BY <1>1, <1>2, <1>3, <2>2, Zenon DEF ServerType
  <2> QED BY <2>1, <2>2, Zenon
<1>5. m_peers = NoPeers \/ inCallback.kind = "server_closed"
  BY <1>1 DEF IInv, TrackInv, Started, start_receive, Usable, ServerType
<1>6. HandleInv'
  <2>1. ~ClosePending BY <1>1 DEF IInv, HandleInv, start_receive, Usable, ServerType
  <2>2. UNCHANGED <<closeRequests, closing, inCallback>> BY DEF start_receive
  <2>3. ClosePending' = ClosePending BY <2>2 DEF ClosePending
  <2>4. server'.receiving => server_is_open' /\ server'.m_connection_in_progress
    BY <1>1, <1>3 DEF server_is_open, ServerType
  <2>5. server'.m_udp_handle_inited /\ ~server'.closing BY <1>1, <1>3 DEF ServerType
  <2> QED BY <2>1, <2>2, <2>3, <2>4, <2>5 DEF IInv, HandleInv, ServerHandles
<1>7. /\ scheduled' = scheduled /\ peer' = peer /\ m_peers' = m_peers
      /\ bookkeeping => m_peers_backlog' = {}
      /\ ~bookkeeping => m_peers_backlog' = m_peers_backlog /\ server'.bookkeeping = server.bookkeeping
  <2>1. CASE bookkeeping
    <3>1. Hold(m_peers, {}, peer, {}) BY <2>1 DEF start_receive
    <3>2. Held(m_peers, m_peers_backlog) \ Held(m_peers, {}) = {} BY BacklogTracked DEF Held
    <3>3. peer = [o \in Objects |-> peer[o]] BY DEF IInv, TypeOK, ServerTypeOK
    <3>4. peer' = peer BY <3>1, <3>2, <3>3 DEF Hold
    <3>5. scheduled' = scheduled BY <3>1, <3>2, <3>3 DEF Hold, Removals
    <3> QED BY <2>1, <3>1, <3>4, <3>5 DEF Hold
  <2>2. CASE ~bookkeeping BY <1>1, <1>3, <2>2 DEF start_receive, ServerType
  <2> QED BY <2>1, <2>2
<1>8. (Started => Started') /\ ~Leaving
  BY <1>1, <1>5 DEF Started, Leaving, start_receive, Usable, ServerType
<1> QED BY <1>4, <1>5, <1>6, <1>7, <1>8, QuietStep DEF start_receive, IInv, TypeOK, ServerTypeOK

\* The handle of an open server is given to uv_close: it has no close callback yet.
LEMMA CloseHandle ==
  ASSUME IInv, UNCHANGED clientVars, server_is_open, NEW x \in ServerHandles,
         closeRequests' = closeRequests \cup {x},
         UNCHANGED <<phase, scheduled, jobs, closing, inCallback, m_peers, m_peers_backlog, peer>>,
         m_inactive_peers' \subseteq Peers, server' \in ServerType,
         server'.m_udp_handle_inited, server'.closing, ~server'.receiving,
         server'.bookkeeping = server.bookkeeping
  PROVE  IInv'
<1>1. server \in ServerType BY DEF IInv, TypeOK, ServerTypeOK
<1>2. ~ClosePending BY <1>1 DEF IInv, HandleInv, server_is_open, ServerType
<1>3. HandleInv' BY <1>2 DEF IInv, HandleInv, ClosePending, ServerHandles, server_is_open
<1>4. (Started => Started') /\ ~Leaving BY DEF Started, Leaving, server_is_open
<1>5. ASSUME NEW o \in Objects PROVE x # Item("delete", o)
  BY DEF ServerHandles, Item
<1> QED BY <1>3, <1>4, <1>5, QuietStep

\* close, with or without a callback, keeps the peers until its callback.
LEMMA CloseStep ==
  ASSUME IInv, UNCHANGED clientVars, NEW callback \in BOOLEAN, close(callback)
  PROVE  IInv'
<1>1. server \in ServerType /\ m_inactive_peers \subseteq Peers BY DEF IInv, TypeOK, ServerTypeOK
<1>2. server' = [server EXCEPT !.m_server_close_callback = callback, !.receiving = FALSE,
                               !.closing = TRUE]
  BY DEF close
<1>3. /\ server' \in ServerType
      /\ server'.m_udp_handle_inited = server.m_udp_handle_inited /\ server'.closing
      /\ ~server'.receiving /\ server'.bookkeeping = server.bookkeeping
  BY <1>1, <1>2, Zenon DEF ServerType
<1> QED BY <1>1, <1>3, CloseHandle DEF close, ServerHandles, server_is_open

\* The close that precedes the deletion of the server keeps its peers.
LEMMA CloseWithRemovalStep ==
  ASSUME IInv, UNCHANGED <<clientVars, phase, jobs, closing, inCallback>>, CloseWithRemoval
  PROVE  IInv'
<1>1. server \in ServerType /\ m_inactive_peers \subseteq Peers BY DEF IInv, TypeOK, ServerTypeOK
<1>2. /\ server' \in ServerType
      /\ server'.m_udp_handle_inited = server.m_udp_handle_inited /\ server'.closing
      /\ ~server'.receiving /\ server'.bookkeeping = server.bookkeeping
  BY <1>1, Zenon DEF ServerType, CloseWithRemoval
<1> QED BY <1>1, <1>2, CloseHandle DEF CloseWithRemoval, ServerHandles, server_is_open

\* A callback is entered or left, with nothing else.
LEMMA CallbackStep ==
  ASSUME IInv, UNCHANGED <<clientVars, phase, scheduled, jobs, closeRequests, closing, serverVars>>,
         inCallback.kind \notin {"server_closed", "data_untracked", "timeout"},
         \/ /\ inCallback'.kind \in {"none", "receive_error"} /\ inCallback'.id \notin Objects
         \/ /\ inCallback'.kind = "data" /\ inCallback'.id \in Objects
            /\ inCallback'.id = inCallback.id \/ inCallback'.id \in Tracked
            /\ server_is_open \/ inCallback.kind = "new_peer"
  PROVE  IInv'
<1>1. UNCHANGED <<server, m_peers, m_peers_backlog, m_inactive_peers, peer>> BY DEF serverVars
<1>2. ClosePending' = ClosePending /\ server_is_open' = server_is_open
  BY <1>1 DEF ClosePending, server_is_open
<1>3. server \in ServerType /\ m_inactive_peers \subseteq Peers BY DEF IInv, TypeOK, ServerTypeOK
<1>4. HandleInv'
  <2>1. inCallback'.kind \in PeerKinds \ {"timeout"} =>
          server.m_udp_handle_inited /\ (server.closing => ClosePending)
    BY <1>3 DEF IInv, HandleInv, PeerKinds, server_is_open, ServerType
  <2>2. inCallback'.id \in Objects => inCallback'.kind \in PeerKinds BY DEF PeerKinds
  <2> QED BY <1>1, <1>2, <2>1, <2>2 DEF IInv, HandleInv, ServerHandles
<1>5. (Started => Started') /\ (Leaving => Leaving') BY <1>1, SameServer DEF Started
<1>6. ASSUME NEW x \in Objects
      PROVE  /\ inCallback \notin {Item("data_untracked", x), Item("timeout", x)}
             /\ inCallback' \notin {Item("data_untracked", x), Item("timeout", x)}
             /\ inCallback'.id = x => inCallback.id = x \/ x \in Tracked
  <2>1. Item("data_untracked", x).kind = "data_untracked" /\ Item("timeout", x).kind = "timeout"
    BY DEF Item
  <2> QED BY <2>1
<1> QED BY <1>1, <1>3, <1>4, <1>5, <1>6, QuietStep

\* The data callback follows the new peer callback.
LEMMA NewPeerReturnsStep ==
  ASSUME IInv, UNCHANGED clientVars, NEW o \in Objects, NewPeerReturns(o) PROVE IInv'
<1>1. /\ inCallback.id = o /\ inCallback'.id = o /\ inCallback.kind = "new_peer"
      /\ inCallback'.kind = "data"
  BY DEF NewPeerReturns, Item
<1> QED BY <1>1, CallbackStep DEF NewPeerReturns

\* A packet of a tracked peer.
LEMMA DataStep ==
  ASSUME IInv, UNCHANGED clientVars, NEW p \in Peers, on_data_received(p) PROVE IInv'
<1>1. inCallback = NotInCallback /\ server_is_open /\ m_peers[p] # 0
  BY DEF on_data_received, Idling, IInv, HandleInv
<1>2. /\ inCallback.kind = "none" /\ inCallback'.kind = "data" /\ inCallback'.id = m_peers[p]
  BY <1>1 DEF on_data_received, NotInCallback, Item
<1>3. m_peers[p] \in Objects /\ m_peers[p] \in Tracked BY <1>1, ActiveTracked
<1> QED BY <1>1, <1>2, <1>3, CallbackStep DEF on_data_received

\* A failed receive, and the return of its callback.
LEMMA ReceiveErrorStep ==
  ASSUME IInv, UNCHANGED clientVars, on_receive_error \/ ReceiveErrorReturns PROVE IInv'
<1>1. Server \notin Objects /\ 0 \notin Objects BY DEF Objects
<1>2. /\ inCallback.kind \in {"none", "receive_error"} /\ inCallback'.kind \in {"none", "receive_error"}
      /\ inCallback'.id \notin Objects
  <2>1. CASE on_receive_error BY <1>1, <2>1 DEF on_receive_error, Idling, NotInCallback, Item
  <2>2. CASE ReceiveErrorReturns BY <1>1, <2>2 DEF ReceiveErrorReturns, NotInCallback, Item
  <2> QED BY <2>1, <2>2
<1> QED BY <1>2, CallbackStep DEF on_receive_error, ReceiveErrorReturns

\* Steps that only shrink the jobs or the inactive peers.
LEMMA SmallStep ==
  ASSUME IInv, UNCHANGED clientVars,
         \/ \E o \in Objects : SendErrorCallback(o)
         \/ \E p \in Peers : InactivityEnds(p)
  PROVE  IInv'
<1>1. /\ UNCHANGED <<server, m_peers, m_peers_backlog, peer, phase, scheduled, closeRequests, closing,
                     inCallback>>
      /\ jobs' \subseteq jobs /\ m_inactive_peers' \subseteq m_inactive_peers
  BY DEF SendErrorCallback, InactivityEnds, serverVars, loopVars
<1>2. HandleInv' BY <1>1 DEF IInv, HandleInv, ClosePending, server_is_open, ServerHandles
<1>3. (Started => Started') /\ (Leaving => Leaving') BY <1>1, SameServer DEF Started
<1> QED BY <1>1, <1>2, <1>3, QuietStep DEF IInv, TypeOK, ServerTypeOK

\* The close callback of the handle is the last.
LEMMA OnCloseStep == ASSUME IInv, UNCHANGED clientVars, on_close PROVE IInv'
<1>1. server \in ServerType BY DEF IInv, TypeOK, ServerTypeOK
<1> DEFINE inited == server.m_udp_handle_inited /\ ~server.m_server_close_callback
<1>2. /\ inited \in BOOLEAN
      /\ server' = [server EXCEPT !.m_connection_in_progress = FALSE, !.m_udp_handle_inited = inited]
  BY DEF on_close
<1>3. /\ server' \in ServerType /\ server'.receiving = server.receiving
      /\ server'.bookkeeping = server.bookkeeping /\ server'.closing = server.closing
      /\ server'.m_udp_handle_inited = inited /\ server'.removal = server.removal
  <2> HIDE DEF inited
  <2> QED BY <1>1, <1>2, Zenon DEF ServerType
<1>4. ClosePending BY DEF on_close, ClosePending, ServerHandles
<1>5. server.m_udp_handle_inited /\ server.closing /\ ~server.receiving
  BY <1>1, <1>4 DEF IInv, HandleInv, server_is_open, ServerType
<1>6. ~ClosePending'
  BY DEF on_close, ClosePending, ServerHandles, IInv, HandleInv
<1>7. /\ inCallback.kind = "none" /\ inCallback'.kind \in {"none", "server_closed"}
      /\ server.m_server_close_callback => inCallback'.kind = "server_closed"
      /\ inCallback'.id \in {0, Server}
  BY DEF on_close, Idling, NotInCallback, Item
<1>8. 0 \notin Objects /\ Server \notin Objects BY DEF Objects
<1>9. HandleInv'
  <2>1. \A x \in ServerHandles : x \notin closeRequests' \cup closing' BY <1>6 DEF ClosePending
  <2> QED BY <1>3, <1>5, <1>6, <1>7, <1>8, <2>1 DEF HandleInv, PeerKinds, ServerHandles
<1>10. Started' /\ (Leaving => Leaving') BY <1>3, <1>5, <1>7, Zenon DEF Started, Leaving
<1>11. ASSUME NEW x \in Objects
       PROVE  /\ inCallback \notin {Item("data_untracked", x), Item("timeout", x)}
              /\ inCallback' \notin {Item("data_untracked", x), Item("timeout", x)}
              /\ inCallback'.id # x
  <2>1. Item("data_untracked", x).kind = "data_untracked" /\ Item("timeout", x).kind = "timeout"
    BY DEF Item
  <2> QED BY <1>7, <1>8, <2>1
<1> QED BY <1>3, <1>7, <1>9, <1>10, <1>11, QuietStep DEF on_close, IInv, TypeOK, ServerTypeOK

\* The removal of a peer or of the server closes the idle handle of Removable.
LEMMA OnRemovalStep ==
  ASSUME IInv, UNCHANGED clientVars, NEW x \in Objects \cup {Server}, on_removal(x) PROVE IInv'
<1>1. \A y \in ServerHandles : y \in closeRequests' <=> y \in closeRequests
  BY DEF on_removal, ServerHandles, Item
<1>2. UNCHANGED <<server, m_peers, m_peers_backlog, peer, m_inactive_peers, phase, scheduled, closing,
                  inCallback>>
  BY DEF on_removal, serverVars
<1>3. ClosePending' = ClosePending /\ server_is_open' = server_is_open
  BY <1>1, <1>2 DEF ClosePending, server_is_open
<1>4. HandleInv' BY <1>1, <1>2, <1>3 DEF IInv, HandleInv
<1>5. (Started => Started') /\ (Leaving => Leaving') BY <1>2, SameServer DEF Started
<1>6. \A o \in Objects : Item("delete", o) \in closeRequests' =>
        Item("delete", o) \in closeRequests \/ Item("on_removal", o) \in jobs
  BY DEF on_removal, Item
<1> QED BY <1>2, <1>4, <1>5, <1>6, QuietStep DEF on_removal, IInv, TypeOK, ServerTypeOK

\* The server is deleted.
LEMMA DeleteServerStep == ASSUME IInv, UNCHANGED clientVars, DeleteServer PROVE IInv'
<1>1. \A y \in ServerHandles : y \in closing' <=> y \in closing
  BY DEF DeleteServer, ServerHandles, Item
<1>2. server \in ServerType BY DEF IInv, TypeOK, ServerTypeOK
<1>3. /\ server' \in ServerType /\ server'.removal = "deleted"
      /\ server'.m_udp_handle_inited = server.m_udp_handle_inited /\ server'.closing = server.closing
      /\ server'.receiving = server.receiving /\ server'.bookkeeping = server.bookkeeping
      /\ server'.m_connection_in_progress = server.m_connection_in_progress
  BY <1>2 DEF DeleteServer, ServerType
<1>4. ClosePending' = ClosePending /\ server_is_open' = server_is_open
  BY <1>1, <1>3 DEF ClosePending, server_is_open, DeleteServer
<1>5. HandleInv' BY <1>1, <1>3, <1>4 DEF IInv, HandleInv, DeleteServer
<1>6. Started' /\ (Leaving => Leaving') BY <1>3 DEF Started, Leaving
<1> QED BY <1>3, <1>5, <1>6, QuietStep DEF DeleteServer, IInv, TypeOK, ServerTypeOK
=============================================================================
