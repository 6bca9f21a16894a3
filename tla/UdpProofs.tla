------------------------------ MODULE UdpProofs -----------------------------
(***************************************************************************)
(* Proofs about Udp for any addresses and bounds: the reference counter of *)
(* a peer is exact, and every tracked peer is timed.                       *)
(***************************************************************************)
EXTENDS UdpHandleProofs

USE UdpServerAssumption, UdpClientAssumption, UdpAssumption

-----------------------------------------------------------------------------
(* Steps of the server that drop peers *)

\* The peers that leave are closed, or no callback of theirs is running, or the server
\* leaves too; the others are not touched.  now is what the step makes of the peers besides unref.
Drops(gone, now) ==
  /\ \A o \in Objects : /\ now[o].m_ref_counter = peer[o].m_ref_counter
                        /\ now[o].sends = peer[o].sends /\ now[o].object = peer[o].object
                        /\ now[o].id = peer[o].id
  /\ \A o \in Objects \ gone : now[o] = peer[o]
  /\ \A o \in Objects \cap gone : /\ inCallback'.id # o \/ ~now[o].m_udp_handle \/ Leaving'
                                  /\ inCallback' # Item("data_untracked", o)
                                  /\ ~ClosesInCallbacks => now[o].ends <= 1
  /\ \/ inCallback' = inCallback
     \/ \A o \in Objects \ gone : /\ Item("data_untracked", o) \notin {inCallback, inCallback'}
                                  /\ o \in Tracked => Item("timeout", o) \notin {inCallback, inCallback'}
                                  /\ inCallback'.id # o

\* Hold keeps what is known of each peer.
LEMMA HoldStep ==
  ASSUME IInv, NEW peers, NEW backlog, NEW now \in [Objects -> PeerType], NEW callbacks,
         Hold(peers, backlog, now, callbacks), Held(peers, backlog) \subseteq Tracked,
         Drops(Tracked \ Held(peers, backlog), now),
         \A o \in Objects : Item("on_removal", o) \notin callbacks,
         jobs' = jobs, closeRequests' = closeRequests, closing' \subseteq closing, Leaving => Leaving'
  PROVE  /\ peer' \in [Objects -> PeerType]
         /\ \A o \in Objects : peer'[o].id = peer[o].id
         /\ \A o \in Objects : PeerInv(o)' /\ (~ClosesInCallbacks => EndsInv(o)')
<1> DEFINE gone == Tracked \ Held(peers, backlog)
           next == [o \in Objects |-> IF o \in gone THEN unref(now[o]) ELSE now[o]]
<1>1. /\ m_peers' = peers /\ m_peers_backlog' = backlog /\ peer' = next
      /\ scheduled' = scheduled \cup Removals(now, next) \cup callbacks
  BY DEF Hold, Tracked
<1>2. Tracked' = Held(peers, backlog) BY <1>1 DEF Tracked
<1>3. /\ \A o \in Objects : next[o] = IF o \in gone THEN unref(now[o]) ELSE now[o]
      /\ next = [o \in Objects |-> next[o]]
  OBVIOUS
<1> HIDE DEF next
<1>4. ASSUME NEW o \in Objects
      PROVE  Item("on_removal", o) \in scheduled' =>
               \/ Item("on_removal", o) \in scheduled
               \/ now[o].object # "removed" /\ next[o].object = "removed"
  BY <1>1, Zenon DEF Removals, Item
<1>5. ASSUME NEW o \in Objects, o \in gone
      PROVE  /\ peer'[o] \in PeerType /\ peer'[o].id = peer[o].id
             /\ PeerInv(o)' /\ (~ClosesInCallbacks => EndsInv(o)')
  <2>1. PeerInv(o) /\ o \in Tracked /\ peer[o].object = "alive" BY <1>5, TrackedAlive DEF IInv
  <2>2. /\ now[o] \in PeerType /\ now[o].m_ref_counter = 0 + 1 + now[o].sends
        /\ now[o].object = "alive" /\ now[o].id = peer[o].id
    <3>1. peer[o].m_ref_counter = 1 + peer[o].sends BY <2>1 DEF PeerInv, Holders, Exact
    <3>2. peer[o].sends \in Nat BY DEF IInv, TypeOK, ServerTypeOK, PeerType
    <3>3. /\ now[o].m_ref_counter = peer[o].m_ref_counter /\ now[o].sends = peer[o].sends
          /\ now[o].object = peer[o].object /\ now[o].id = peer[o].id
      BY DEF Drops
    <3> QED BY <2>1, <3>1, <3>2, <3>3
  <2>3. peer'[o] = unref(now[o]) BY <1>1, <1>3, <1>5
  <2>4. /\ peer'[o] \in PeerType /\ Exact(peer'[o], 0) /\ peer'[o].object \in {"alive", "removed"}
        /\ peer'[o].id = now[o].id /\ peer'[o].m_udp_handle = now[o].m_udp_handle
        /\ peer'[o].ends = now[o].ends
    BY <2>2, <2>3, UnrefExact
  <2>5. /\ inCallback'.id # o \/ ~now[o].m_udp_handle \/ Leaving'
        /\ inCallback' # Item("data_untracked", o)
        /\ ~ClosesInCallbacks => now[o].ends <= 1
    BY <1>5 DEF Drops
  <2>6. o \notin Tracked' /\ Holders(o)' = 0 BY <1>2, <1>5, <2>5 DEF Holders
  <2>7. peer'[o].id \in Peers BY <2>1, <2>2, <2>4 DEF PeerInv
  <2>8. /\ Item("on_removal", o) \notin scheduled \cup jobs
        /\ Item("delete", o) \notin closeRequests \cup closing
    BY <2>1 DEF PeerInv
  <2>9. Item("on_removal", o) \in scheduled' \cup jobs' => peer'[o].object = "removed"
    BY <1>1, <1>4, <2>8
  <2>10. Exact(peer[o], Holders(o))' BY <2>4, <2>6
  <2>11. PeerInv(o)' BY <2>4, <2>5, <2>6, <2>7, <2>8, <2>9, <2>10 DEF PeerInv
  <2>12. ~ClosesInCallbacks => EndsInv(o)' BY <2>4, <2>5, <2>6, Zenon DEF EndsInv
  <2> QED BY <2>2, <2>4, <2>11, <2>12
<1>6. ASSUME NEW o \in Objects, o \notin gone
      PROVE  /\ peer'[o] \in PeerType /\ peer'[o].id = peer[o].id
             /\ PeerInv(o)' /\ (~ClosesInCallbacks => EndsInv(o)')
  <2>1. next[o] = now[o] /\ now[o] = peer[o] BY <1>3, <1>6 DEF Drops
  <2>2. peer'[o] = peer[o] /\ (o \in Tracked' <=> o \in Tracked) /\ peer'[o] \in PeerType
    BY <1>1, <1>2, <1>6, <2>1, Zenon
  <2>3. Item("on_removal", o) \in scheduled' => Item("on_removal", o) \in scheduled BY <1>4, <2>1, Zenon
  <2>4. \/ inCallback' = inCallback
        \/ /\ Item("data_untracked", o) \notin {inCallback, inCallback'}
           /\ o \in Tracked => Item("timeout", o) \notin {inCallback, inCallback'}
           /\ inCallback'.id # o
    BY <1>6 DEF Drops
  <2> QED BY <2>2, <2>3, <2>4, SamePeer
<1> QED BY <1>1, <1>3, <1>5, <1>6

\* All peers are dropped while no callback of a peer is running, or with a server that
\* leaves.
LEMMA ClearStep ==
  ASSUME IInv, UNCHANGED <<clientVars, phase, jobs, closeRequests>>, closing' \subseteq closing,
         NEW callbacks, Clear(callbacks), \A o \in Objects : Item("on_removal", o) \notin callbacks,
         server' \in ServerType, HandleInv', Leaving => Leaving',
         \/ inCallback.id \notin Objects /\ inCallback'.id \notin Objects
         \/ inCallback' = inCallback /\ Leaving'
  PROVE  IInv'
<1>1. /\ m_peers' = NoPeers /\ m_peers_backlog' = {} /\ m_inactive_peers' = {}
      /\ Hold(NoPeers, {}, peer, callbacks)
  BY DEF Clear, Hold
<1>2. peer \in [Objects -> PeerType] BY Zenon DEF IInv, TypeOK, ServerTypeOK
<1>3. Range(NoPeers) \subseteq {0} BY DEF NoPeers, Range
<1>4. Held(NoPeers, {}) = {} BY <1>3 DEF Held
<1>5. Drops(Tracked \ Held(NoPeers, {}), peer)
  <2>1. ASSUME NEW o \in Objects
        PROVE  \/ inCallback' = inCallback /\ Leaving'
               \/ /\ inCallback'.id # o
                  /\ Item("data_untracked", o) \notin {inCallback, inCallback'}
                  /\ Item("timeout", o) \notin {inCallback, inCallback'}
    <3>1. Item("data_untracked", o).id = o /\ Item("timeout", o).id = o BY DEF Item
    <3> QED BY <3>1
  <2>2. ASSUME NEW o \in Objects, ~ClosesInCallbacks PROVE peer[o].ends <= 1
    BY <2>2 DEF IInv, EndsInv
  <2>3. ASSUME NEW o \in Objects, o \in Tracked PROVE inCallback # Item("data_untracked", o)
    BY <2>3 DEF IInv, PeerInv
  <2> QED BY <2>1, <2>2, <2>3 DEF Drops
<1>6. /\ peer' \in [Objects -> PeerType]
      /\ \A o \in Objects : PeerInv(o)' /\ (~ClosesInCallbacks => EndsInv(o)')
  BY <1>1, <1>2, <1>4, <1>5, HoldStep, Zenon
<1>7. TypeOK'
  <2>1. NoPeers \in [Peers -> 0..MaxPeers] BY DEF NoPeers
  <2> QED BY <1>1, <1>6, <2>1, Zenon DEF IInv, TypeOK, LoopTypeOK, ServerTypeOK, ClientTypeOK, clientVars
<1>8. TrackInv'
  <2>1. \A p \in Peers : NoPeers[p] = 0 BY DEF NoPeers
  <2> QED BY <1>1, <1>3, <2>1 DEF TrackInv
<1> QED BY <1>6, <1>7, <1>8, Zenon DEF IInv

\* A server that is not open is removed at once.  If that is in a callback of a packet,
\* the server was closed there.
LEMMA RemovalStep == ASSUME IInv, UNCHANGED clientVars, schedule_removal PROVE IInv'
<1>1. server \in ServerType BY DEF IInv, TypeOK, ServerTypeOK
<1>2. CASE CloseWithRemoval BY <1>2, CloseWithRemovalStep DEF schedule_removal
<1>3. CASE ~CloseWithRemoval
  <2>1. /\ ~server_is_open /\ inCallback.kind # "timeout"
        /\ ReadyToRemove(server.m_udp_handle_inited) /\ UNCHANGED closeRequests
        /\ UNCHANGED <<phase, jobs, closing, inCallback>>
    BY <1>3 DEF schedule_removal
  <2>2. /\ server' \in ServerType /\ server'.receiving = server.receiving
        /\ server'.m_udp_handle_inited = server.m_udp_handle_inited
        /\ server'.closing = server.closing
        /\ server'.m_connection_in_progress = server.m_connection_in_progress
    BY <1>1, <2>1, Zenon DEF ReadyToRemove, ServerType
  <2>3. /\ inCallback.id \in Objects => server.closing
        /\ Leaving' <=> server.closing
    <3>1. server'.removal = "scheduled" BY <1>1, <2>1 DEF ReadyToRemove, ServerType
    <3> QED BY <1>1, <2>1, <2>2, <3>1 DEF IInv, HandleInv, PeerKinds, server_is_open, Leaving, ServerType
  <2>4. HandleInv'
    <3>1. ClosePending' = ClosePending /\ server_is_open' = server_is_open
      BY <2>1, <2>2 DEF ClosePending, server_is_open
    <3> QED BY <2>1, <2>2, <3>1, Zenon DEF IInv, HandleInv
  <2>5. Clear({Item("on_removal", Server)}) BY <2>1 DEF ReadyToRemove
  <2>6. \A o \in Objects : Item("on_removal", o) \notin {Item("on_removal", Server)}
    BY DEF Objects, Item
  <2> QED BY <2>1, <2>2, <2>3, <2>4, <2>5, <2>6, ClearStep DEF Leaving
<1> QED BY <1>2, <1>3

\* The handle of a server that is removed has been closed.
LEMMA OnCloseWithRemovalStep ==
  ASSUME IInv, UNCHANGED clientVars, on_close_with_removal PROVE IInv'
<1>1. server \in ServerType BY DEF IInv, TypeOK, ServerTypeOK
<1>2. ClosePending BY DEF on_close_with_removal, ClosePending, ServerHandles
<1>3. server.closing /\ ~server.receiving
  BY <1>1, <1>2 DEF IInv, HandleInv, server_is_open, ServerType
<1>4. /\ server' \in ServerType /\ server'.receiving = server.receiving
      /\ server'.removal = "scheduled" /\ server'.closing = server.closing
  BY <1>1, Zenon DEF on_close_with_removal, ReadyToRemove, ServerType
<1>5. inCallback.kind = "none" /\ inCallback.id = 0 /\ inCallback' = inCallback
  BY DEF on_close_with_removal, Idling, NotInCallback, Item
<1>6. 0 \notin Objects /\ \A o \in Objects : Item("on_removal", o) \notin {Item("on_removal", Server)}
  BY DEF Objects, Item
<1>7. HandleInv'
  <2>1. ~ClosePending'
    BY DEF on_close_with_removal, ClosePending, ServerHandles, IInv, HandleInv
  <2>2. \A x \in ServerHandles : x \notin closeRequests' \cup closing' BY <2>1 DEF ClosePending
  <2> QED BY <1>3, <1>4, <1>5, <1>6, <2>1, <2>2 DEF HandleInv, PeerKinds
<1> QED BY <1>4, <1>5, <1>6, <1>7, ClearStep DEF on_close_with_removal, ReadyToRemove, Leaving

\* The close callback returns, and the server forgets its peers.
LEMMA ServerClosedReturnsStep ==
  ASSUME IInv, UNCHANGED clientVars, ServerClosedReturns PROVE IInv'
<1>1. server \in ServerType BY DEF IInv, TypeOK, ServerTypeOK
<1>2. /\ server' \in ServerType /\ server'.receiving = server.receiving
      /\ server'.m_udp_handle_inited = server.m_udp_handle_inited
      /\ server'.closing = server.closing /\ server'.removal = server.removal
      /\ server'.m_connection_in_progress = server.m_connection_in_progress
  BY <1>1, Zenon DEF ServerClosedReturns, ServerType
<1>3. inCallback.id = Server /\ inCallback'.id = 0 /\ inCallback'.kind = "none"
  BY DEF ServerClosedReturns, NotInCallback, Item
<1>4. 0 \notin Objects /\ Server \notin Objects BY DEF Objects
<1>5. HandleInv'
  <2>1. ClosePending' = ClosePending /\ server_is_open' = server_is_open
    BY <1>2 DEF ClosePending, server_is_open, ServerClosedReturns
  <2> QED BY <1>2, <1>3, <1>4, <2>1 DEF IInv, HandleInv, PeerKinds, ServerClosedReturns
<1> QED BY <1>2, <1>3, <1>4, <1>5, ClearStep, Zenon DEF ServerClosedReturns, Leaving

-----------------------------------------------------------------------------
(* Steps of one peer *)

\* What is left to show of a step that keeps the server.
LEMMA PeerStep ==
  ASSUME IInv, UNCHANGED <<clientVars, phase, jobs, closeRequests, server>>, closing' \subseteq closing,
         \A x \in ServerHandles : x \in closing => x \in closing',
         m_inactive_peers' \subseteq Peers, peer' \in [Objects -> PeerType],
         m_peers' \in [Peers -> 0..MaxPeers], m_peers_backlog' \subseteq Objects,
         \/ inCallback' = inCallback
         \/ inCallback' = NotInCallback
         \/ inCallback'.kind \in PeerKinds /\ (server_is_open \/ inCallback'.kind = "timeout"),
         TrackInv', \A o \in Objects : PeerInv(o)' /\ (~ClosesInCallbacks => EndsInv(o)')
  PROVE  IInv'
<1>1. TypeOK' BY DEF IInv, TypeOK, LoopTypeOK, ServerTypeOK, ClientTypeOK, clientVars
<1>2. HandleInv'
  <2>1. \A x \in ServerHandles : x \in closing' <=> x \in closing OBVIOUS
  <2>2. ClosePending' = ClosePending /\ server_is_open' = server_is_open
    BY <2>1 DEF ClosePending, server_is_open
  <2>3. server \in ServerType BY DEF IInv, TypeOK, ServerTypeOK
  <2>4. NotInCallback.id \notin Objects /\ NotInCallback.kind \notin PeerKinds
    BY NoCallback
  <2>5. inCallback'.kind \in PeerKinds \ {"timeout"} =>
          server.m_udp_handle_inited /\ (server.closing => ClosePending)
    <3>1. CASE inCallback' = inCallback BY <3>1 DEF IInv, HandleInv
    <3>2. CASE inCallback' = NotInCallback BY <2>4, <3>2
    <3>3. CASE server_is_open \/ inCallback'.kind = "timeout"
      BY <2>3, <3>3 DEF server_is_open, ServerType
    <3> QED BY <3>1, <3>2, <3>3
  <2>6. inCallback'.id \in Objects => inCallback'.kind \in PeerKinds BY <2>4 DEF IInv, HandleInv
  <2> QED BY <2>1, <2>2, <2>5, <2>6 DEF IInv, HandleInv
<1> QED BY <1>1, <1>2 DEF IInv

\* Dropping one tracked peer leaves the others, which have other addresses.
LEMMA DropOne ==
  ASSUME IInv, NEW o \in Objects, NEW peers \in [Peers -> 0..MaxPeers],
         \A p \in Peers : peers[p] = IF m_peers[p] = o THEN 0 ELSE m_peers[p]
  PROVE  /\ Range(peers) \ {0} = (Range(m_peers) \ {0}) \ {o}
         /\ Held(peers, m_peers_backlog \ {o}) = Tracked \ {o}
<1>1. m_peers \in [Peers -> 0..MaxPeers] BY DEF IInv, TypeOK, ServerTypeOK
<1>2. Range(peers) = {peers[p] : p \in Peers} /\ Range(m_peers) = {m_peers[p] : p \in Peers}
  BY <1>1 DEF Range
<1>3. o # 0 BY DEF Objects
<1>4. Range(peers) \ {0} = (Range(m_peers) \ {0}) \ {o} BY <1>2, <1>3
<1> QED BY <1>4 DEF Held, Tracked

\* One peer leaves m_peers and the backlog.
LEMMA DropStep ==
  ASSUME IInv, UNCHANGED <<clientVars, phase, jobs, closeRequests, closing, server>>,
         m_inactive_peers' \subseteq Peers, NEW o \in Objects, NEW peers \in [Peers -> 0..MaxPeers],
         \A p \in Peers : peers[p] = IF m_peers[p] = o THEN 0 ELSE m_peers[p],
         NEW now \in [Objects -> PeerType], Hold(peers, m_peers_backlog \ {o}, now, {}),
         Drops(Tracked \cap {o}, now),
         inCallback' = inCallback \/ (inCallback' = NotInCallback /\ inCallback.kind # "server_closed")
  PROVE  IInv'
<1> DEFINE backlog == m_peers_backlog \ {o}
           none == {}
<1>1. m_peers_backlog \subseteq Objects BY DEF IInv, TypeOK, ServerTypeOK
<1>2. Range(peers) \ {0} = (Range(m_peers) \ {0}) \ {o} /\ Held(peers, backlog) = Tracked \ {o}
  BY DropOne
<1>3. /\ peer' \in [Objects -> PeerType] /\ \A x \in Objects : peer'[x].id = peer[x].id
      /\ \A x \in Objects : PeerInv(x)' /\ (~ClosesInCallbacks => EndsInv(x)')
  <2>1. Tracked \ Held(peers, backlog) = Tracked \cap {o} BY <1>2, Zenon
  <2>2. /\ Hold(peers, backlog, now, none) /\ Held(peers, backlog) \subseteq Tracked
        /\ Drops(Tracked \ Held(peers, backlog), now)
        /\ \A x \in Objects : Item("on_removal", x) \notin none
    BY <1>2, <2>1, Zenon
  <2> HIDE DEF backlog, none
  <2>3. Leaving => Leaving' BY SameServer
  <2> QED BY <2>2, <2>3, HoldStep, Zenon
<1>4. m_peers' = peers /\ m_peers_backlog' = backlog BY Zenon DEF Hold
<1>5. inCallback' = inCallback \/ "server_closed" \notin {inCallback.kind, inCallback'.kind}
  BY NoCallback
<1>6. TrackInv'
  <2>1. ASSUME NEW p \in Peers, peers[p] # 0 PROVE peer'[peers[p]].id = p
    <3>1. peers[p] = m_peers[p] /\ m_peers[p] # 0 BY <2>1
    <3>2. m_peers[p] \in Objects BY <3>1, ActiveTracked
    <3>3. peer[m_peers[p]].id = p BY <3>1, Zenon DEF IInv, TrackInv
    <3> QED BY <1>3, <3>1, <3>2, <3>3, Zenon
  <2>2. peers # NoPeers => Started'
    <3>1. m_peers = NoPeers => \A p \in Peers : peers[p] = 0 BY DEF NoPeers
    <3>2. m_peers = NoPeers => peers = NoPeers BY <3>1 DEF NoPeers
    <3> QED BY <1>5, <3>2, Zenon DEF IInv, TrackInv, Started
  <2>3. inCallback'.kind # "server_closed" => Range(peers) \ {0} = backlog
    BY <1>2, <1>5 DEF IInv, TrackInv
  <2>4. backlog \subseteq Range(peers) BY <1>2, BacklogTracked
  <2>5. backlog # {} => server.bookkeeping BY DEF IInv, TrackInv
  <2> HIDE DEF backlog
  <2> QED BY <1>4, <2>1, <2>2, <2>3, <2>4, <2>5, Zenon DEF TrackInv
<1> QED BY <1>1, <1>3, <1>4, <1>6, PeerStep, Zenon

\* The timeout callback returns, and the peer leaves m_peers and the backlog.
LEMMA TimeoutReturnsStep ==
  ASSUME IInv, UNCHANGED clientVars, NEW o \in Objects, TimeoutReturns(o) PROVE IInv'
<1> DEFINE peers == [p \in Peers |-> IF m_peers[p] = o THEN 0 ELSE m_peers[p]]
<1>1. /\ m_peers \in [Peers -> 0..MaxPeers] /\ m_inactive_peers \subseteq Peers
      /\ peer \in [Objects -> PeerType]
  BY DEF IInv, TypeOK, ServerTypeOK
<1>2. /\ peers \in [Peers -> 0..MaxPeers]
      /\ \A p \in Peers : peers[p] = IF m_peers[p] = o THEN 0 ELSE m_peers[p]
      /\ Hold(peers, m_peers_backlog \ {o}, peer, {})
  BY <1>1 DEF TimeoutReturns
<1> HIDE DEF peers
<1>3. /\ inCallback = Item("timeout", o) /\ inCallback.kind = "timeout"
      /\ inCallback' = NotInCallback /\ inCallback'.kind = "none" /\ inCallback'.id = 0
  BY DEF TimeoutReturns, NotInCallback, Item
<1>4. Drops(Tracked \cap {o}, peer)
  <2>1. ASSUME NEW x \in Objects
        PROVE  /\ inCallback'.id # x
               /\ Item("data_untracked", x) \notin {inCallback, inCallback'}
               /\ x # o => Item("timeout", x) \notin {inCallback, inCallback'}
    <3>1. /\ Item("data_untracked", x).kind = "data_untracked"
          /\ Item("timeout", x).kind = "timeout" /\ (x # o => Item("timeout", x) # Item("timeout", o))
      BY DEF Item
    <3>2. x # 0 BY DEF Objects
    <3> QED BY <1>3, <3>1, <3>2
  <2>2. ASSUME NEW x \in Objects, ~ClosesInCallbacks PROVE peer[x].ends <= 1
    BY <2>2 DEF IInv, EndsInv
  <2> QED BY <2>1, <2>2 DEF Drops
<1> QED BY <1>1, <1>2, <1>3, <1>4, DropStep DEF TimeoutReturns

\* A peer is closed by the user.
LEMMA ClosePeerStep ==
  ASSUME IInv, UNCHANGED clientVars, NEW o \in Objects, close_peer(o) PROVE IInv'
<1> DEFINE id == peer[o].id
           closed == [peer EXCEPT ![o].m_udp_handle = FALSE]
           ended == [closed EXCEPT ![o].ends = @ + 1]
           others == [m_peers EXCEPT ![id] = 0]
<1>1. /\ m_peers \in [Peers -> 0..MaxPeers] /\ m_peers_backlog \subseteq Objects
      /\ m_inactive_peers \subseteq Peers /\ peer \in [Objects -> PeerType]
  BY DEF IInv, TypeOK, ServerTypeOK
<1>2. /\ PeerInv(o) /\ peer[o].object \in {"alive", "removed"}
      /\ m_peers[id] \in {0, o}
      /\ ClosesInCallbacks \/ inCallback.kind \notin {"new_peer", "timeout"}
      /\ UNCHANGED <<phase, jobs, closeRequests, closing, inCallback, server>>
  BY DEF close_peer, Reachable, IInv
<1>3. id \in Peers /\ m_inactive_peers' \subseteq Peers BY <1>1, <1>2 DEF PeerInv, close_peer
<1>4. /\ closed \in [Objects -> PeerType] /\ \A x \in Objects \ {o} : closed[x] = peer[x]
      /\ closed[o].m_ref_counter = peer[o].m_ref_counter /\ closed[o].sends = peer[o].sends
      /\ closed[o].object = peer[o].object /\ closed[o].id = id /\ closed[o].ends = peer[o].ends
      /\ ~closed[o].m_udp_handle
  BY <1>1, Zenon DEF PeerType
<1>5. \/ peer' = closed /\ UNCHANGED <<scheduled, m_peers, m_peers_backlog>>
      \/ m_peers[id] = o /\ Hold(others, m_peers_backlog \ {o}, ended, {})
  BY <1>2, Zenon DEF close_peer
<1>6. CASE peer' = closed /\ UNCHANGED <<scheduled, m_peers, m_peers_backlog>>
  <2> HIDE DEF closed
  <2>1. Tracked' = Tracked /\ Holders(o)' = Holders(o) BY <1>2, <1>6, Zenon DEF Tracked, Holders
  <2>2. PeerInv(o)' BY <1>2, <1>4, <1>6, <2>1, Zenon DEF PeerInv, Exact
  <2>3. ~ClosesInCallbacks => EndsInv(o)' BY <1>2, <1>4, <1>6, <2>1, Zenon DEF IInv, EndsInv
  <2>4. ASSUME NEW x \in Objects \ {o} PROVE PeerInv(x)' /\ (~ClosesInCallbacks => EndsInv(x)')
    BY <1>2, <1>4, <1>6, <2>1, SamePeer, SameServer, Zenon
  <2>5. TrackInv'
    <3>1. \A x \in Objects : peer'[x].id = peer[x].id BY <1>4, <1>6
    <3>2. \A p \in Peers : m_peers[p] # 0 => m_peers[p] \in Objects BY ActiveTracked
    <3> QED BY <1>2, <1>6, <3>1, <3>2, Zenon DEF IInv, TrackInv, Started
  <2> QED BY <1>1, <1>2, <1>3, <1>4, <1>6, <2>2, <2>3, <2>4, <2>5, PeerStep
<1>7. CASE m_peers[id] = o /\ Hold(others, m_peers_backlog \ {o}, ended, {})
  <2>1. o \in Tracked BY <1>1, <1>3, <1>7 DEF Tracked, Held, Range, Objects
  <2>2. others \in [Peers -> 0..MaxPeers] BY <1>1, <1>3
  <2>3. \A p \in Peers : others[p] = IF m_peers[p] = o THEN 0 ELSE m_peers[p]
    <3>1. ASSUME NEW p \in Peers, m_peers[p] = o PROVE p = id
      <4>1. o # 0 BY DEF Objects
      <4> QED BY <3>1, <4>1 DEF IInv, TrackInv
    <3> QED BY <1>1, <1>3, <1>7, <3>1
  <2>4. /\ ended \in [Objects -> PeerType] /\ \A x \in Objects \ {o} : ended[x] = peer[x]
        /\ ended[o].m_ref_counter = peer[o].m_ref_counter /\ ended[o].sends = peer[o].sends
        /\ ended[o].object = peer[o].object /\ ended[o].id = id /\ ended[o].ends = peer[o].ends + 1
        /\ ~ended[o].m_udp_handle
    <3> HIDE DEF closed
    <3> QED BY <1>1, <1>4 DEF PeerType
  <2> HIDE DEF closed, ended, others
  <2>5. Drops(Tracked \cap {o}, ended)
    <3>1. inCallback # Item("data_untracked", o) BY <1>2, <2>1, Zenon DEF PeerInv
    <3>2. ~ClosesInCallbacks => ended[o].ends <= 1
      <4>1. Item("timeout", o).kind = "timeout" BY DEF Item
      <4>2. ~ClosesInCallbacks => peer[o].ends = 0 BY <1>2, <2>1, <4>1 DEF IInv, EndsInv
      <4> QED BY <2>4, <4>2
    <3> QED BY <1>2, <2>1, <2>4, <3>1, <3>2, Zenon DEF Drops
  <2>6. Hold(others, m_peers_backlog \ {o}, ended, {}) BY <1>7
  <2>7. ended \in [Objects -> PeerType] BY <2>4
  <2>8. /\ UNCHANGED <<clientVars, phase, jobs, closeRequests, closing, server>>
        /\ inCallback' = inCallback
    BY <1>2
  <2>9. m_inactive_peers' \subseteq Peers BY <1>3
  <2> QED BY <2>2, <2>3, <2>5, <2>6, <2>7, <2>8, <2>9, DropStep
<1> QED BY <1>5, <1>6, <1>7

\* One reference more for a send; a peer that was removed cannot send.
LEMMA SendStep ==
  ASSUME IInv, UNCHANGED clientVars, NEW o \in Objects, send_data(o) PROVE IInv'
<1>1. /\ m_peers \in [Peers -> 0..MaxPeers] /\ m_peers_backlog \subseteq Objects
      /\ m_inactive_peers \subseteq Peers /\ peer \in [Objects -> PeerType]
  BY DEF IInv, TypeOK, ServerTypeOK
<1>2. /\ PeerInv(o) /\ peer[o].object \in {"alive", "removed"}
      /\ o \in Range(m_peers) \/ inCallback.id = o \/ peer[o].sends > 0
      /\ UNCHANGED <<phase, jobs, closeRequests, closing, inCallback, server, m_peers, m_peers_backlog,
                     m_inactive_peers>>
      /\ Tracked' = Tracked
  BY DEF send_data, Reachable, IInv, Tracked
<1>3. Holders(o)' = Holders(o) /\ Holders(o) \in {0, 1} BY <1>2 DEF Holders
<1>4. \A p \in Peers : m_peers[p] # 0 => m_peers[p] \in Objects BY ActiveTracked
<1>5. /\ peer[o].sends \in 0..MaxSends /\ peer[o].m_ref_counter = Holders(o) + peer[o].sends
      /\ peer[o].object = "alive" <=> peer[o].m_ref_counter > 0
  BY <1>1, <1>2 DEF PeerInv, Exact, PeerType
<1>6. CASE ~peer_is_open(o)
  <2>1. peer' = peer /\ scheduled' = scheduled \cup {Item("send_error", o)} BY <1>6 DEF send_data
  <2>2. \A x \in Objects : Item("on_removal", x) \in scheduled' => Item("on_removal", x) \in scheduled
    BY <2>1 DEF Item
  <2>3. ASSUME NEW x \in Objects PROVE PeerInv(x)' /\ (~ClosesInCallbacks => EndsInv(x)')
    BY <1>2, <2>1, <2>2, SamePeer, SameServer, Zenon
  <2>4. TrackInv' BY <1>2, <2>1, Zenon DEF IInv, TrackInv, Started
  <2> QED BY <1>1, <1>2, <2>1, <2>3, <2>4, PeerStep
<1>7. CASE peer_is_open(o)
  <2>1. /\ peer[o].sends < MaxSends /\ scheduled' = scheduled
        /\ peer' = [peer EXCEPT ![o].sends = @ + 1, ![o].m_ref_counter = @ + 1]
    BY <1>7 DEF send_data
  <2>2. peer[o].object = "alive"
    <3>1. o \in Range(m_peers) \ {0} => peer[o].object = "alive" BY TrackedAlive DEF Tracked, Held
    <3>2. inCallback.id = o => peer[o].object = "alive"
      BY <1>2, <1>7, Zenon DEF PeerInv, Leaving, peer_is_open, server_is_open
    <3>3. peer[o].sends > 0 => peer[o].object = "alive"
      BY <1>3, <1>5
    <3>4. o # 0 BY DEF Objects
    <3> QED BY <1>2, <3>1, <3>2, <3>3, <3>4, Zenon
  <2>3. /\ peer'[o].sends = peer[o].sends + 1 /\ peer'[o].m_ref_counter = peer[o].m_ref_counter + 1
        /\ peer'[o].object = peer[o].object /\ peer'[o].id = peer[o].id
        /\ peer'[o].m_udp_handle = peer[o].m_udp_handle /\ peer'[o].ends = peer[o].ends
        /\ \A x \in Objects \ {o} : peer'[x] = peer[x]
    BY <1>1, <2>1 DEF PeerType
  <2>4. /\ peer[o].sends + 1 \in 0..MaxSends /\ peer[o].m_ref_counter + 1 \in 0..MaxSends + 1
        /\ Exact(peer'[o], Holders(o))
    BY <1>3, <1>5, <2>1, <2>2, <2>3 DEF Exact
  <2>5. peer' \in [Objects -> PeerType]
    <3>1. [peer[o] EXCEPT !.sends = @ + 1] \in PeerType BY <1>1, <2>4 DEF PeerType
    <3>2. [peer[o] EXCEPT !.sends = @ + 1, !.m_ref_counter = @ + 1] \in PeerType
      BY <1>1, <2>4, <3>1, Zenon DEF PeerType
    <3> QED BY <1>1, <2>1, <3>2
  <2>6. PeerInv(o)' BY <1>2, <1>3, <2>1, <2>2, <2>3, <2>4 DEF PeerInv
  <2>7. ~ClosesInCallbacks => EndsInv(o)' BY <1>2, <2>3, Zenon DEF IInv, EndsInv
  <2>8. ASSUME NEW x \in Objects \ {o} PROVE PeerInv(x)' /\ (~ClosesInCallbacks => EndsInv(x)')
    BY <1>2, <2>1, <2>3, SamePeer, SameServer, Zenon
  <2>9. TrackInv' BY <1>2, <1>4, <2>3, Zenon DEF IInv, TrackInv, Started
  <2> QED BY <1>1, <1>2, <2>5, <2>6, <2>7, <2>8, <2>9, PeerStep
<1> QED BY <1>6, <1>7

\* One reference less, of a send or of the packet the peer was made for.
LEMMA UnrefStep ==
  ASSUME IInv, UNCHANGED <<clientVars, phase, jobs, closeRequests, closing, server, m_peers,
                           m_peers_backlog, m_inactive_peers>>,
         NEW o \in Objects, NEW q \in PeerType, NEW n \in {0, 1}, Holders(o)' = n,
         q.m_ref_counter = n + 1 + q.sends, q.object = "alive", peer[o].object = "alive",
         q.id = peer[o].id, q.ends = peer[o].ends,
         peer' = [peer EXCEPT ![o] = unref(q)], scheduled' = scheduled \cup Removals(peer, peer'),
         \/ inCallback' = inCallback
         \/ inCallback' = NotInCallback /\ inCallback = Item("data_untracked", o),
         inCallback'.id # o
  PROVE  IInv'
<1>1. /\ m_peers \in [Peers -> 0..MaxPeers] /\ m_peers_backlog \subseteq Objects
      /\ m_inactive_peers \subseteq Peers /\ peer \in [Objects -> PeerType]
      /\ PeerInv(o) /\ Tracked' = Tracked
  BY DEF IInv, TypeOK, ServerTypeOK, Tracked
<1>2. /\ unref(q) \in PeerType /\ Exact(unref(q), n) /\ unref(q).object \in {"alive", "removed"}
      /\ unref(q).id = peer[o].id /\ unref(q).ends = peer[o].ends
  BY UnrefExact
<1>3. /\ peer' \in [Objects -> PeerType] /\ peer'[o] = unref(q)
      /\ \A x \in Objects \ {o} : peer'[x] = peer[x]
  BY <1>1, <1>2
<1>4. ASSUME NEW x \in Objects
      PROVE  Item("on_removal", x) \in scheduled' =>
               \/ Item("on_removal", x) \in scheduled
               \/ peer[x].object # "removed" /\ peer'[x].object = "removed"
  BY Zenon DEF Removals, Item
<1>5. PeerInv(o)' /\ (~ClosesInCallbacks => EndsInv(o)')
  <2>1. Exact(peer[o], Holders(o))' BY <1>2, <1>3
  <2>2. /\ Item("on_removal", o) \in scheduled' \cup jobs' => peer'[o].object = "removed"
        /\ Item("delete", o) \notin closeRequests' \cup closing'
    BY <1>1, <1>4, Zenon DEF PeerInv
  <2>3. peer'[o].id \in Peers BY <1>1, <1>2, <1>3 DEF PeerInv
  <2>4. Item("data_untracked", o).id = o /\ Item("timeout", o).id = o
        /\ Item("data_untracked", o) # Item("timeout", o)
    BY Zenon DEF Item
  <2>5. PeerInv(o)' BY <1>1, <1>2, <2>1, <2>2, <2>3, <2>4, Zenon DEF PeerInv
  <2>6. ~ClosesInCallbacks => EndsInv(o)' BY <1>1, <1>2, <1>3, <2>4, Zenon DEF IInv, EndsInv
  <2> QED BY <2>5, <2>6, Zenon
<1>6. ASSUME NEW x \in Objects \ {o} PROVE PeerInv(x)' /\ (~ClosesInCallbacks => EndsInv(x)')
  <2>1. Item("on_removal", x) \in scheduled' => Item("on_removal", x) \in scheduled BY <1>3, <1>4, Zenon
  <2>2. \/ inCallback' = inCallback
        \/ /\ {Item("data_untracked", x), Item("timeout", x)} \cap {inCallback, inCallback'} = {}
           /\ inCallback'.id # x
    <3>1. /\ Item("data_untracked", x).id = x /\ Item("timeout", x).id = x
          /\ Item("data_untracked", o).id = o
      BY Zenon DEF Item
    <3> QED BY <3>1, NoCallback, Zenon
  <2> QED BY <1>1, <1>3, <2>1, <2>2, SamePeer, SameServer, Zenon
<1>7. TrackInv'
  <2>1. \A x \in Objects : peer'[x].id = peer[x].id BY <1>2, <1>3
  <2>2. \A p \in Peers : m_peers[p] # 0 => m_peers[p] \in Objects BY ActiveTracked, Zenon
  <2>3. inCallback' = inCallback \/ "server_closed" \notin {inCallback.kind, inCallback'.kind}
    <3>1. Item("data_untracked", o).kind = "data_untracked" BY DEF Item
    <3> QED BY <3>1, NoCallback
  <2> QED BY <2>1, <2>2, <2>3, Zenon DEF IInv, TrackInv, Started
<1> QED BY <1>1, <1>3, <1>5, <1>6, <1>7, PeerStep

\* A send gives its reference back.
LEMMA OnSendStep ==
  ASSUME IInv, UNCHANGED clientVars, NEW o \in Objects, on_send(o) PROVE IInv'
<1> DEFINE q == [peer[o] EXCEPT !.sends = @ - 1]
<1>1. peer \in [Objects -> PeerType] /\ peer[o] \in PeerType /\ Exact(peer[o], Holders(o))
  BY DEF IInv, TypeOK, ServerTypeOK, PeerInv
<1>2. peer[o].sends - 1 \in 0..MaxSends BY <1>1 DEF on_send, PeerType
<1>3. /\ q \in PeerType /\ q.sends = peer[o].sends - 1 /\ q.m_ref_counter = peer[o].m_ref_counter
      /\ q.object = peer[o].object /\ q.id = peer[o].id /\ q.ends = peer[o].ends
  BY <1>1, <1>2 DEF PeerType
<1>4. peer' = [peer EXCEPT ![o] = unref(q)] BY <1>1 DEF on_send
<1>5. inCallback = NotInCallback /\ inCallback' = inCallback /\ inCallback'.id # o
  BY NoCallback DEF on_send, Idling
<1>6. Holders(o)' = Holders(o) /\ Holders(o) \in {0, 1} BY DEF on_send, Holders, Tracked
<1> HIDE DEF q
<1>7. q.m_ref_counter = Holders(o) + 1 + q.sends /\ q.object = "alive"
  BY <1>1, <1>2, <1>3, <1>6 DEF Exact, PeerType
<1>8. /\ UNCHANGED <<phase, jobs, closeRequests, closing, server, m_peers, m_peers_backlog,
                     m_inactive_peers>>
      /\ scheduled' = scheduled \cup Removals(peer, peer') /\ peer[o].object = "alive"
  BY <1>3, <1>7 DEF on_send
<1> QED BY <1>3, <1>4, <1>5, <1>6, <1>7, <1>8, UnrefStep, Zenon

\* The data callback returns: a peer made for the packet is given back.
LEMMA DataReturnsStep ==
  ASSUME IInv, UNCHANGED clientVars, NEW o \in Objects, DataReturns(o) PROVE IInv'
<1>1. peer \in [Objects -> PeerType] /\ PeerInv(o) BY DEF IInv, TypeOK, ServerTypeOK
<1>2. inCallback' = NotInCallback /\ inCallback'.id # o BY NoCallback DEF DataReturns
<1>3. CASE inCallback = Item("data_untracked", o)
  <2>1. inCallback.kind = "data_untracked" BY <1>3 DEF Item
  <2>2. peer' = [peer EXCEPT ![o] = unref(peer[o])] BY <2>1 DEF DataReturns
  <2>3. Holders(o) = 1 /\ o \notin Tracked BY <1>1, <1>3 DEF PeerInv, Holders
  <2>4. inCallback' # Item("data_untracked", o)
    <3>1. Item("data_untracked", o).id = o BY DEF Item
    <3> QED BY <1>2, <3>1
  <2>5. Holders(o)' = 0 BY <2>3, <2>4 DEF Holders, Tracked, DataReturns
  <2>6. peer[o].m_ref_counter = 0 + 1 + peer[o].sends /\ peer[o].object = "alive"
    <3>1. peer[o].sends \in Nat BY <1>1 DEF PeerType
    <3>2. /\ peer[o].m_ref_counter = 1 + peer[o].sends
          /\ (peer[o].object = "alive" <=> peer[o].m_ref_counter > 0)
      BY <1>1, <2>3 DEF PeerInv, Exact
    <3> QED BY <3>1, <3>2
  <2> QED BY <1>1, <1>2, <1>3, <2>2, <2>5, <2>6, UnrefStep, Zenon DEF DataReturns
<1>4. CASE inCallback = Item("data", o)
  <2>1. inCallback.kind = "data" BY <1>4 DEF Item
  <2>2. peer' = peer /\ UNCHANGED scheduled
    BY <2>1, Zenon DEF DataReturns, Removals
  <2>3. inCallback'.kind = "none" /\ inCallback'.id \notin Objects
    BY <1>2, NoCallback DEF NotInCallback, Item
  <2> QED BY <2>1, <2>2, <2>3, CallbackStep, Zenon DEF DataReturns, serverVars
<1> QED BY <1>3, <1>4 DEF DataReturns

\* A peer is made for a packet: nothing refers to it yet.
LEMMA NewPeerInv ==
  ASSUME IInv, NEW p \in Peers, NEW o \in Objects, Unused(o), peer' = [peer EXCEPT ![o] = NewPeer(p)],
         UNCHANGED <<scheduled, jobs, closeRequests, closing, server>>, inCallback = NotInCallback,
         \/ inCallback' = Item("new_peer", o) /\ o \in Tracked'
         \/ inCallback' = Item("data_untracked", o) /\ o \notin Tracked',
         \A x \in Objects \ {o} : x \in Tracked' <=> x \in Tracked
  PROVE  /\ peer' \in [Objects -> PeerType] /\ peer'[o].id = p
         /\ \A x \in Objects \ {o} : peer'[x] = peer[x]
         /\ \A x \in Objects : PeerInv(x)' /\ (~ClosesInCallbacks => EndsInv(x)')
<1>1. peer \in [Objects -> PeerType] /\ PeerInv(o) /\ peer[o].object = "none"
  BY DEF IInv, TypeOK, ServerTypeOK, Unused
<1>2. /\ NewPeer(p) \in PeerType /\ NewPeer(p).object = "alive" /\ NewPeer(p).id = p
      /\ NewPeer(p).m_ref_counter = 1 /\ NewPeer(p).sends = 0 /\ NewPeer(p).ends = 0
  <2>1. 1 \in 0..MaxSends + 1 /\ 0 \in 0..MaxSends /\ p \in Peers \cup {0} OBVIOUS
  <2> QED BY <2>1 DEF NewPeer, PeerType
<1>3. /\ peer' \in [Objects -> PeerType] /\ peer'[o] = NewPeer(p)
      /\ \A x \in Objects \ {o} : peer'[x] = peer[x]
  BY <1>1, <1>2
<1>4. /\ Item("new_peer", o) # Item("data_untracked", o) /\ Item("timeout", o) # inCallback'
      /\ inCallback'.id = o
  <2>1. /\ Item("new_peer", o).id = o /\ Item("data_untracked", o).id = o
        /\ Item("new_peer", o).kind = "new_peer" /\ Item("timeout", o).kind = "timeout"
        /\ Item("data_untracked", o).kind = "data_untracked"
    BY DEF Item
  <2> QED BY <2>1
<1>5. Holders(o)' = 1 BY <1>4 DEF Holders
<1>6. /\ Item("on_removal", o) \notin scheduled \cup jobs
      /\ Item("delete", o) \notin closeRequests \cup closing
  BY <1>1 DEF PeerInv
<1>7. PeerInv(o)'
  <2>1. Exact(peer[o], Holders(o))' BY <1>2, <1>3, <1>5 DEF Exact
  <2>2. peer'[o].object = "alive" /\ peer'[o].id \in Peers BY <1>2, <1>3
  <2> QED BY <1>4, <1>6, <2>1, <2>2 DEF PeerInv
<1>8. EndsInv(o)'
  <2>1. peer'[o].ends = 0 BY <1>2, <1>3
  <2> QED BY <1>4, <2>1 DEF EndsInv
<1>9. ASSUME NEW x \in Objects \ {o} PROVE PeerInv(x)' /\ (~ClosesInCallbacks => EndsInv(x)')
  <2>1. /\ {Item("data_untracked", x), Item("timeout", x)} \cap {inCallback, inCallback'} = {}
        /\ inCallback'.id # x
    <3>1. Item("data_untracked", x).id = x /\ Item("timeout", x).id = x BY DEF Item
    <3> QED BY <1>4, <3>1, NoCallback
  <2> QED BY <1>3, <2>1, SamePeer, SameServer, Zenon
<1> QED BY <1>2, <1>3, <1>7, <1>8, <1>9

\* The first packet of a peer that is tracked.
LEMMA NewPeerStep ==
  ASSUME IInv, UNCHANGED clientVars, NEW p \in Peers, NEW o \in Objects, on_data_received_new(p, o)
  PROVE  IInv'
<1>1. /\ m_peers \in [Peers -> 0..MaxPeers] /\ m_peers_backlog \subseteq Objects
      /\ m_inactive_peers \subseteq Peers /\ server \in ServerType
  BY DEF IInv, TypeOK, ServerTypeOK
<1>2. /\ inCallback = NotInCallback /\ server.receiving /\ Unused(o) /\ server.bookkeeping
      /\ m_peers[p] = 0 /\ m_peers' = [m_peers EXCEPT ![p] = o]
      /\ m_peers_backlog' = m_peers_backlog \cup {o} /\ peer' = [peer EXCEPT ![o] = NewPeer(p)]
      /\ inCallback' = Item("new_peer", o)
      /\ UNCHANGED <<phase, scheduled, jobs, closeRequests, closing, server, m_inactive_peers>>
  BY DEF on_data_received_new, Idling
<1>3. Range(m_peers') \ {0} = (Range(m_peers) \ {0}) \cup {o}
  <2>1. Range(m_peers) = {m_peers[x] : x \in Peers} /\ Range(m_peers') = {m_peers'[x] : x \in Peers}
    BY <1>1, <1>2, Zenon DEF Range
  <2>2. o # 0 BY DEF Objects
  <2>3. m_peers'[p] = o /\ \A x \in Peers \ {p} : m_peers'[x] = m_peers[x] BY <1>1, <1>2
  <2> QED BY <1>2, <2>1, <2>2, <2>3, Zenon
<1>4. Tracked' = Tracked \cup {o} BY <1>2, <1>3, Zenon DEF Tracked, Held
<1>5. /\ peer' \in [Objects -> PeerType] /\ peer'[o].id = p
      /\ \A x \in Objects \ {o} : peer'[x] = peer[x]
      /\ \A x \in Objects : PeerInv(x)' /\ (~ClosesInCallbacks => EndsInv(x)')
  BY <1>2, <1>4, NewPeerInv, Zenon
<1>6. o \notin Tracked
  BY <1>2, TrackedAlive DEF Unused
<1>7. inCallback'.kind = "new_peer" BY <1>2 DEF Item
<1>8. TrackInv'
  <2>1. ASSUME NEW x \in Peers, m_peers'[x] # 0 PROVE peer'[m_peers'[x]].id = x
    <3>1. CASE x = p BY <1>1, <1>2, <1>5, <3>1
    <3>2. CASE x # p
      <4>1. m_peers'[x] = m_peers[x] BY <1>1, <1>2, <3>2
      <4>2. m_peers[x] \in Objects \ {o} BY <1>6, <2>1, <4>1, ActiveTracked
      <4> QED BY <1>5, <2>1, <4>1, <4>2, Zenon DEF IInv, TrackInv
    <3> QED BY <3>1, <3>2
  <2>2. Started' BY <1>2 DEF IInv, HandleInv, Started
  <2>3. inCallback.kind # "server_closed" BY <1>2, NoCallback
  <2>4. Range(m_peers') \ {0} = m_peers_backlog' BY <1>2, <1>3, <2>3, Zenon DEF IInv, TrackInv
  <2> QED BY <1>2, <2>1, <2>2, <2>4, Zenon DEF TrackInv
<1>9. server_is_open /\ inCallback'.kind \in PeerKinds
  BY <1>2, <1>7 DEF IInv, HandleInv, PeerKinds
<1>10. m_peers' \in [Peers -> 0..MaxPeers]
  <2>1. o \in 0..MaxPeers BY DEF Objects
  <2> QED BY <1>1, <1>2, <2>1
<1> QED BY <1>1, <1>2, <1>5, <1>8, <1>9, <1>10, PeerStep

\* A packet without bookkeeping.
LEMMA UntrackedStep ==
  ASSUME IInv, UNCHANGED clientVars, NEW p \in Peers, NEW o \in Objects,
         on_data_received_untracked(p, o)
  PROVE  IInv'
<1>1. /\ m_peers \in [Peers -> 0..MaxPeers] /\ m_peers_backlog \subseteq Objects
      /\ m_inactive_peers \subseteq Peers
  BY DEF IInv, TypeOK, ServerTypeOK
<1>2. /\ inCallback = NotInCallback /\ server.receiving /\ Unused(o)
      /\ peer' = [peer EXCEPT ![o] = NewPeer(p)] /\ inCallback' = Item("data_untracked", o)
      /\ UNCHANGED <<phase, scheduled, jobs, closeRequests, closing, server, m_peers, m_peers_backlog,
                     m_inactive_peers>>
      /\ Tracked' = Tracked
  BY DEF on_data_received_untracked, Idling, Tracked
<1>3. o \notin Tracked BY <1>2, TrackedAlive DEF Unused
<1>4. /\ peer' \in [Objects -> PeerType] /\ \A x \in Objects \ {o} : peer'[x] = peer[x]
      /\ \A x \in Objects : PeerInv(x)' /\ (~ClosesInCallbacks => EndsInv(x)')
  BY <1>2, <1>3, NewPeerInv, Zenon
<1>5. inCallback'.kind = "data_untracked" BY <1>2 DEF Item
<1>6. TrackInv'
  <2>1. \A x \in Peers : m_peers[x] # 0 => m_peers[x] \in Objects \ {o} BY <1>3, ActiveTracked
  <2>2. inCallback.kind # "server_closed" BY <1>2, NoCallback
  <2> QED BY <1>2, <1>4, <1>5, <2>1, <2>2, Zenon DEF IInv, TrackInv, Started
<1>7. server_is_open /\ inCallback'.kind \in PeerKinds
  BY <1>2, <1>5 DEF IInv, HandleInv, PeerKinds
<1> QED BY <1>1, <1>2, <1>4, <1>6, <1>7, PeerStep

\* A peer times out, and its timeout callback begins.
LEMMA ExpiredStep ==
  ASSUME IInv, UNCHANGED clientVars, NEW o \in Objects, on_expired(o) PROVE IInv'
<1>1. /\ m_peers \in [Peers -> 0..MaxPeers] /\ m_peers_backlog \subseteq Objects
      /\ m_inactive_peers \subseteq Peers /\ peer \in [Objects -> PeerType] /\ PeerInv(o)
  BY DEF IInv, TypeOK, ServerTypeOK
<1>2. /\ inCallback = NotInCallback /\ o \in m_peers_backlog
      /\ peer' = [peer EXCEPT ![o].ends = @ + 1] /\ inCallback' = Item("timeout", o)
      /\ UNCHANGED <<phase, scheduled, jobs, closeRequests, closing, server, m_peers, m_peers_backlog,
                     m_inactive_peers>>
      /\ Tracked' = Tracked /\ o \in Tracked
  BY DEF on_expired, Timers, Idling, Tracked, Held
<1>3. /\ peer' \in [Objects -> PeerType] /\ peer'[o].ends = peer[o].ends + 1
      /\ peer'[o].object = peer[o].object /\ peer'[o].id = peer[o].id
      /\ peer'[o].m_ref_counter = peer[o].m_ref_counter /\ peer'[o].sends = peer[o].sends
      /\ \A x \in Objects \ {o} : peer'[x] = peer[x]
  BY <1>1, <1>2 DEF PeerType
<1>4. /\ inCallback'.kind = "timeout" /\ inCallback'.id = o /\ inCallback' # Item("data_untracked", o)
      /\ inCallback \notin {Item("data_untracked", o), Item("timeout", o)}
  <2>1. /\ Item("timeout", o).kind = "timeout" /\ Item("timeout", o).id = o
        /\ Item("data_untracked", o).kind = "data_untracked" /\ Item("data_untracked", o).id = o
    BY DEF Item
  <2> QED BY <1>2, <2>1, NoCallback
<1>5. peer[o].object = "alive" BY <1>2, TrackedAlive
<1>6. PeerInv(o)'
  <2>1. Holders(o)' = Holders(o) BY <1>2 DEF Holders
  <2>2. Exact(peer[o], Holders(o))' BY <1>1, <1>3, <2>1, Zenon DEF PeerInv, Exact
  <2> QED BY <1>1, <1>2, <1>3, <1>4, <1>5, <2>2 DEF PeerInv
<1>7. ~ClosesInCallbacks => EndsInv(o)' BY <1>2, <1>3, <1>4, <1>5 DEF IInv, EndsInv
<1>8. ASSUME NEW x \in Objects \ {o} PROVE PeerInv(x)' /\ (~ClosesInCallbacks => EndsInv(x)')
  <2>1. /\ {Item("data_untracked", x), Item("timeout", x)} \cap {inCallback, inCallback'} = {}
        /\ inCallback'.id # x
    <3>1. Item("data_untracked", x).id = x /\ Item("timeout", x).id = x BY DEF Item
    <3> QED BY <1>2, <1>4, <3>1, NoCallback
  <2> QED BY <1>2, <1>3, <2>1, SamePeer, SameServer, Zenon
<1>9. TrackInv'
  <2>1. \A x \in Objects : peer'[x].id = peer[x].id BY <1>3
  <2>2. \A x \in Peers : m_peers[x] # 0 => m_peers[x] \in Objects BY ActiveTracked
  <2>3. inCallback.kind # "server_closed" BY <1>2, NoCallback
  <2> QED BY <1>2, <1>4, <2>1, <2>2, <2>3 DEF IInv, TrackInv, Started
<1>10. inCallback'.kind \in PeerKinds /\ inCallback'.kind = "timeout" BY <1>4 DEF PeerKinds
<1> QED BY <1>1, <1>2, <1>3, <1>6, <1>7, <1>8, <1>9, <1>10, PeerStep

\* A peer is deleted: it had lost its last reference.
LEMMA DeletePeerStep ==
  ASSUME IInv, UNCHANGED clientVars, NEW o \in Objects, DeletePeer(o) PROVE IInv'
<1>1. /\ m_peers \in [Peers -> 0..MaxPeers] /\ m_peers_backlog \subseteq Objects
      /\ m_inactive_peers \subseteq Peers /\ peer \in [Objects -> PeerType] /\ PeerInv(o)
  BY DEF IInv, TypeOK, ServerTypeOK
<1>2. /\ inCallback = NotInCallback /\ Item("delete", o) \in closing
      /\ closing' = closing \ {Item("delete", o)} /\ peer' = [peer EXCEPT ![o].object = "deleted"]
      /\ UNCHANGED <<phase, scheduled, jobs, closeRequests, inCallback, server, m_peers, m_peers_backlog,
                     m_inactive_peers>>
      /\ Tracked' = Tracked
  BY DEF DeletePeer, Idling, Tracked
<1>3. peer[o].object \in {"removed", "deleted"} BY <1>1, <1>2 DEF PeerInv
<1>4. /\ peer' \in [Objects -> PeerType] /\ peer'[o].ends = peer[o].ends
      /\ peer'[o].object = "deleted" /\ peer'[o].id = peer[o].id
      /\ peer'[o].m_ref_counter = peer[o].m_ref_counter /\ peer'[o].sends = peer[o].sends
      /\ \A x \in Objects \ {o} : peer'[x] = peer[x]
  BY <1>1, <1>2 DEF PeerType
<1>5. PeerInv(o)'
  <2>1. Holders(o)' = Holders(o) BY <1>2 DEF Holders
  <2>2. Exact(peer[o], Holders(o))' BY <1>1, <1>3, <1>4, <2>1, Zenon DEF PeerInv, Exact
  <2> QED BY <1>1, <1>2, <1>3, <1>4, <2>2 DEF PeerInv
<1>6. ~ClosesInCallbacks => EndsInv(o)' BY <1>2, <1>4 DEF IInv, EndsInv
<1>7. ASSUME NEW x \in Objects \ {o} PROVE PeerInv(x)' /\ (~ClosesInCallbacks => EndsInv(x)')
  BY <1>2, <1>4, SamePeer, SameServer
<1>8. TrackInv'
  <2>1. \A x \in Objects : peer'[x].id = peer[x].id BY <1>4, Zenon
  <2>2. \A x \in Peers : m_peers[x] # 0 => m_peers[x] \in Objects BY ActiveTracked
  <2> QED BY <1>2, <2>1, <2>2 DEF IInv, TrackInv, Started
<1>9. \A x \in ServerHandles : x # Item("delete", o) BY DEF ServerHandles, Item
<1> QED BY <1>1, <1>2, <1>4, <1>5, <1>6, <1>7, <1>8, <1>9, PeerStep

-----------------------------------------------------------------------------
(* The theorems *)

\* The inductive invariant holds initially ...
LEMMA InitIInv == Init => IInv
<1> SUFFICES ASSUME Init PROVE IInv OBVIOUS
<1>1. PICK made \in BOOLEAN : ServerInit(made) /\ ClientInit(~made) BY DEF Init
<1>2. /\ server \in ServerType /\ ~server.receiving
  BY <1>1 DEF ServerInit, ServerType
<1>3. client \in ClientType
  <2>1. 0 \in 0..MaxRequests /\ 0 \in Nat OBVIOUS
  <2> QED BY <1>1, <2>1, Zenon DEF ClientInit, ClientType
<1>4. /\ m_peers = NoPeers /\ m_peers_backlog = {} /\ m_inactive_peers = {}
      /\ peer = [o \in Objects |-> NoPeer]
  BY <1>1 DEF ServerInit
<1>5. /\ phase = "poll" /\ inCallback = NotInCallback
      /\ scheduled = {} /\ jobs = {} /\ closeRequests = {} /\ closing = {}
  BY DEF Init, LoopInit
<1>6. NoPeer \in PeerType /\ NoPeers \in [Peers -> 0..MaxPeers]
  BY DEF NoPeer, PeerType, NoPeers
<1>7. TypeOK BY <1>2, <1>3, <1>4, <1>5, <1>6 DEF TypeOK, LoopTypeOK, ServerTypeOK, ClientTypeOK
<1>8. Range(NoPeers) \subseteq {0} /\ \A p \in Peers : NoPeers[p] = 0 BY DEF NoPeers, Range
<1>9. TrackInv BY <1>4, <1>8 DEF TrackInv
<1>10. HandleInv BY <1>2, <1>5, NoCallback DEF HandleInv, ClosePending
<1>11. ASSUME NEW o \in Objects PROVE PeerInv(o) /\ EndsInv(o)
  <2>1. o \notin Tracked BY <1>4, <1>8 DEF Tracked, Held
  <2>2. inCallback.id # o /\ Item("data_untracked", o).id = o /\ Item("timeout", o).id = o
    BY <1>5, NoCallback DEF Item
  <2>3. Holders(o) = 0 BY <2>1, <2>2 DEF Holders
  <2>4. /\ peer[o].object = "none" /\ peer[o].m_ref_counter = 0 /\ peer[o].sends = 0
        /\ peer[o].ends = 0
    BY <1>4 DEF NoPeer
  <2>5. Exact(peer[o], Holders(o)) BY <2>3, <2>4 DEF Exact
  <2>6. PeerInv(o) BY <1>5, <2>1, <2>2, <2>4, <2>5 DEF PeerInv
  <2>7. peer[o].ends <= 1 BY <2>4
  <2>8. EndsInv(o) BY <2>1, <2>4, <2>7, Zenon DEF EndsInv
  <2> QED BY <2>6, <2>8
<1> QED BY <1>7, <1>9, <1>10, <1>11 DEF IInv

\* ... and is kept by every step.
LEMMA NextIInv == IInv /\ [Next]_vars => IInv'
<1> SUFFICES ASSUME IInv, [Next]_vars PROVE IInv' OBVIOUS
<1>1. CASE LoopStep BY <1>1, LoopKeeps
<1>2. CASE ClientActs BY <1>2, ClientKeeps
<1>3. CASE UNCHANGED clientVars /\ ServerCall
  BY <1>3, InitStep, StartStep, CloseStep, RemovalStep, SendStep, ClosePeerStep DEF ServerCall
<1>4. CASE UNCHANGED clientVars /\ ServerEvent
  BY <1>4, NewPeerStep, UntrackedStep, DataStep, SmallStep, ExpiredStep, ReceiveErrorStep
     DEF ServerEvent
<1>5. CASE UNCHANGED clientVars /\ ServerStep
  BY <1>5, NewPeerReturnsStep, DataReturnsStep, TimeoutReturnsStep, OnSendStep, SmallStep,
     DeletePeerStep, ReceiveErrorStep, OnCloseStep, ServerClosedReturnsStep, OnCloseWithRemovalStep,
     DeleteServerStep, OnRemovalStep
     DEF ServerStep
<1>6. CASE UNCHANGED vars
  <2>1. UNCHANGED <<phase, scheduled, jobs, closeRequests, closing, inCallback, serverVars, clientVars>>
    BY <1>6 DEF vars, loopVars
  <2>2. UNCHANGED <<server, m_peers, m_peers_backlog, m_inactive_peers, peer>> BY <2>1 DEF serverVars
  <2>3. HandleInv' BY <2>1, <2>2, Zenon DEF IInv, HandleInv, ClosePending, server_is_open, ServerHandles
  <2>4. (Started => Started') /\ (Leaving => Leaving') BY <2>1, <2>2, SameServer DEF Started
  <2> QED BY <2>1, <2>2, <2>3, <2>4, QuietStep, Zenon DEF IInv, TypeOK, ServerTypeOK
<1> QED BY <1>1, <1>2, <1>3, <1>4, <1>5, <1>6 DEF Next, ServerActs

\* So it holds of every reachable state.
LEMMA AlwaysIInv == Spec => []IInv
BY InitIInv, NextIInv, PTL DEF Spec

\* The counter of a UdpPeer is the references that m_peers, the backlog, the
\* packet being reported and the sends in progress hold, whatever the user does in
\* the callbacks, and its removal begins when the last of them goes.
THEOREM ReferencesAreExact == Spec => []RefsExact
<1>1. IInv => RefsExact
  <2> SUFFICES ASSUME IInv PROVE RefsExact OBVIOUS
  <2>1. ASSUME NEW o \in Objects
        PROVE  /\ peer[o].m_ref_counter = Holders(o) + peer[o].sends
               /\ peer[o].object = "alive" <=> peer[o].m_ref_counter > 0
    BY Zenon DEF IInv, PeerInv, Exact
  <2> QED BY <2>1, Zenon DEF IInv, RefsExact, Holders, Tracked
<1> QED BY <1>1, AlwaysIInv, PTL

\* If no peer is closed in the callback that reports it, m_peers and the backlog
\* hold the same peers, and each peer is closed or times out at most once.
THEOREM TrackedPeersAreTimed == ~ClosesInCallbacks => (Spec => []TrackedMeansTimed)
<1> SUFFICES ASSUME ~ClosesInCallbacks PROVE Spec => []TrackedMeansTimed OBVIOUS
<1>1. IInv => TrackedMeansTimed BY Zenon DEF IInv, TrackInv, EndsInv, TrackedMeansTimed
<1> QED BY <1>1, AlwaysIInv, PTL
=============================================================================
