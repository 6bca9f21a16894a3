----------------------------- MODULE UdpServer ------------------------------
(***************************************************************************)
(* UdpServer and its UdpPeers.  A server that keeps track of its peers     *)
(* holds each by a shared_ptr in m_peers and one in the backlog, which     *)
(* together count as one reference to the UdpPeer; every send in progress  *)
(* is one more.  A server that does not makes a new UdpPeer per packet.    *)
(* User code may call any method at any time, also from inside the         *)
(* callbacks.  Packets have no content, and the backlog no clock: a peer   *)
(* in it may expire at any time.                                           *)
(***************************************************************************)
EXTENDS LoopPhases, Functions

CONSTANTS Peers,       \* the addresses packets come from
          Server,      \* stands for the server in the jobs of the loop
          MaxPeers,    \* bound on the UdpPeers that are made
          MaxSends,    \* bound on the sends in progress
          MaxStarts,   \* bound on the calls of start_receive
          ClosesInCallbacks   \* may the new peer and the timeout callback close peers?

ASSUME UdpServerAssumption ==
  /\ Server \notin 1..MaxPeers
  /\ MaxPeers \in Nat /\ MaxSends \in Nat /\ MaxStarts \in Nat
  /\ ClosesInCallbacks \in BOOLEAN

VARIABLES
  server,              \* the handle, the members and the removal of the server
  m_peers,             \* the UdpPeer of each address, 0 if none
  m_peers_backlog,     \* the UdpPeers in the backlog
  m_inactive_peers,    \* addresses whose packets are ignored
  peer,                \* the UdpPeers
  starts               \* history: calls of start_receive

serverVars == <<server, m_peers, m_peers_backlog, m_inactive_peers, peer, starts>>

Objects == 1..MaxPeers
NoPeers == [p \in Peers |-> 0]
NoPeer == [object |-> "none", id |-> 0, m_ref_counter |-> 0, m_udp_handle |-> FALSE,
           sends |-> 0, ends |-> 0]

\* made: the program has a server.
ServerInit(made) ==
  /\ server = [m_udp_handle_inited |-> FALSE, closing |-> FALSE, receiving |-> FALSE,
               m_connection_in_progress |-> FALSE, bookkeeping |-> FALSE,
               m_server_close_callback |-> FALSE,
               removal |-> IF made THEN "none" ELSE "deleted"]
  /\ m_peers = NoPeers /\ m_peers_backlog = {} /\ m_inactive_peers = {}
  /\ peer = [o \in Objects |-> NoPeer]
  /\ starts = 0

-----------------------------------------------------------------------------
(* References to peers *)

Held(peers, backlog) == (Range(peers) \ {0}) \cup backlog

\* RefCounted::unref, whose last call schedules the removal.
unref(q) ==
  IF q.m_ref_counter = 0 THEN q
  ELSE [q EXCEPT !.m_ref_counter = @ - 1, !.object = IF q.m_ref_counter = 1 THEN "removed" ELSE @]
Removals(now, next) == {Item("on_removal", o) : o \in {x \in Objects :
                          now[x].object # "removed" /\ next[x].object = "removed"}}

\* m_peers and the backlog change: free_udp_peer is called for the peers that
\* neither holds any more.
Hold(peers, backlog, now, callbacks) ==
  LET gone == Held(m_peers, m_peers_backlog) \ Held(peers, backlog)
      next == [o \in Objects |-> IF o \in gone THEN unref(now[o]) ELSE now[o]]
  IN /\ m_peers' = peers /\ m_peers_backlog' = backlog
     /\ peer' = next
     /\ scheduled' = scheduled \cup Removals(now, next) \cup callbacks

Clear(callbacks) == Hold(NoPeers, {}, peer, callbacks) /\ m_inactive_peers' = {}

-----------------------------------------------------------------------------
(* Methods of the server *)

server_is_open == server.m_udp_handle_inited /\ ~server.closing
ServerHandles == {Item("on_close", Server), Item("on_close_with_removal", Server)}
ClosePending == (closeRequests \cup closing) \cap ServerHandles # {}

\* close() was called from a close callback or a timer of this iteration.  A
\* removal asked for before the idle phase that follows would be carried out in
\* the same closing phase as the close, and libuv calls back the handle closed
\* last first: the server would be deleted before on_close.  User code has to
\* ask for it later.
JustClosed == phase = "closing" /\ closeRequests \cap ServerHandles # {}

\* The handle of a server closed without a callback stays initialised, and
\* must not be used again.
Usable == server.removal = "none" /\ (server.m_udp_handle_inited => ~server.closing)

\* set_receive_buffer_size and set_send_buffer_size.
ensure_handle_inited ==
  /\ Usable
  /\ server' = [server EXCEPT !.m_udp_handle_inited = TRUE, !.closing = FALSE]
  /\ UNCHANGED <<loopVars, m_peers, m_peers_backlog, m_inactive_peers, peer, starts>>

\* A server that receives returns an error.  A bind that fails leaves the new
\* backlog.
start_receive(bookkeeping, bound) ==
  /\ Usable /\ starts < MaxStarts /\ ~server.m_connection_in_progress
  /\ starts' = starts + 1
  /\ server' = [server EXCEPT !.m_udp_handle_inited = TRUE, !.closing = FALSE,
                              !.receiving = bound, !.m_connection_in_progress = bound,
                              !.bookkeeping = @ \/ bookkeeping]
  /\ IF bookkeeping THEN Hold(m_peers, {}, peer, {})
     ELSE UNCHANGED <<m_peers, m_peers_backlog, peer, scheduled>>
  /\ UNCHANGED <<phase, jobs, closeRequests, closing, inCallback, m_inactive_peers>>

close(callback) ==
  /\ server_is_open /\ server.removal = "none"
  /\ server' = [server EXCEPT !.m_server_close_callback = callback, !.receiving = FALSE,
                              !.closing = TRUE]
  /\ closeRequests' = closeRequests \cup {Item("on_close", Server)}
  /\ UNCHANGED <<phase, scheduled, jobs, closing, inCallback, m_peers, m_peers_backlog,
                 m_inactive_peers, peer, starts>>

\* Asked for by the user while the server is open ...
CloseWithRemoval ==
  /\ server_is_open
  /\ server' = [server EXCEPT !.removal = "requested", !.m_connection_in_progress = FALSE,
                              !.receiving = FALSE, !.closing = TRUE]
  /\ closeRequests' = closeRequests \cup {Item("on_close_with_removal", Server)}
  /\ UNCHANGED <<scheduled, m_peers, m_peers_backlog, m_inactive_peers, peer>>

\* ... or when nothing is left to close.
ReadyToRemove(inited) ==
  /\ Clear({Item("on_removal", Server)})
  /\ server' = [server EXCEPT !.removal = "scheduled", !.bookkeeping = FALSE,
                              !.m_udp_handle_inited = inited]

\* close_with_removal clears the peers at once when the server is not open, and
\* a close that is pending is not waited for.  The new peer and the timeout
\* callback have to avoid it: their callers still use the entry of m_peers.
schedule_removal ==
  /\ server.removal = "none" /\ ~JustClosed
  /\ \/ CloseWithRemoval
     \/ /\ ~server_is_open /\ inCallback.kind \notin {"new_peer", "timeout"}
        /\ ReadyToRemove(server.m_udp_handle_inited)
        /\ UNCHANGED closeRequests
  /\ UNCHANGED <<phase, jobs, closing, inCallback, starts>>

-----------------------------------------------------------------------------
(* Methods of a peer *)

\* Where user code may have a pointer to the peer.
Reachable(o) == /\ peer[o].object \in {"alive", "removed"}
                /\ o \in Range(m_peers) \/ inCallback.id = o \/ peer[o].sends > 0

peer_is_open(o) == peer[o].m_udp_handle /\ ~server.closing

\* A send that is refused only schedules its callback.
send_data(o) ==
  /\ Reachable(o)
  /\ IF peer_is_open(o)
     THEN /\ peer[o].sends < MaxSends
          /\ peer' = [peer EXCEPT ![o].sends = @ + 1, ![o].m_ref_counter = @ + 1]
          /\ UNCHANGED scheduled
     ELSE scheduled' = scheduled \cup {Item("send_error", o)} /\ UNCHANGED peer
  /\ UNCHANGED <<phase, jobs, closeRequests, closing, inCallback, server, m_peers,
                 m_peers_backlog, m_inactive_peers, starts>>

\* Faulty variants stand before the definitions they are variants of, with the
\* property of Udp that rejects each.  TrackedMeansTimed: the peer is not taken out of the backlog.
KeepsInBacklog(o) ==
  /\ Reachable(o) /\ m_peers[peer[o].id] = o /\ inCallback.kind \notin {"new_peer", "timeout"}
  /\ m_inactive_peers' = m_inactive_peers \cup {peer[o].id}
  /\ Hold([m_peers EXCEPT ![peer[o].id] = 0], m_peers_backlog,
          [peer EXCEPT ![o].m_udp_handle = FALSE, ![o].ends = @ + 1], {})
  /\ UNCHANGED <<phase, jobs, closeRequests, closing, inCallback, server, starts>>

\* UdpPeer::close and UdpServer::close_peer, which looks the peer up by its id:
\* an old UdpPeer of an address must not be closed again, it would close the new.
close_peer(o) ==
  LET id == peer[o].id
      active == m_peers[id]
      closed == [peer EXCEPT ![o].m_udp_handle = FALSE]
  IN /\ Reachable(o) /\ active \in {0, o}
     /\ ClosesInCallbacks \/ inCallback.kind \notin {"new_peer", "timeout"}
     /\ IF id \in m_inactive_peers
        THEN peer' = closed /\ UNCHANGED <<scheduled, m_peers, m_peers_backlog, m_inactive_peers>>
        ELSE /\ m_inactive_peers' = m_inactive_peers \cup {id}
             /\ IF active = 0
                THEN peer' = closed /\ UNCHANGED <<scheduled, m_peers, m_peers_backlog>>
                ELSE Hold([m_peers EXCEPT ![id] = 0], m_peers_backlog \ {active},
                          [closed EXCEPT ![active].ends = @ + 1], {})
     /\ UNCHANGED <<phase, jobs, closeRequests, closing, inCallback, server, starts>>

-----------------------------------------------------------------------------
(* The loop thread: packets *)

Unused(o) == peer[o].object = "none" /\ \A x \in 1..o - 1 : peer[x].object # "none"
NewPeer(p) == [object |-> "alive", id |-> p, m_ref_counter |-> 1, m_udp_handle |-> TRUE,
               sends |-> 0, ends |-> 0]

\* A packet of an inactive peer is ignored.  The new peer callback ...
on_data_received_new(p, o) ==
  /\ Idling("poll") /\ server.receiving /\ Unused(o)
  /\ server.bookkeeping /\ p \notin m_inactive_peers /\ m_peers[p] = 0
  /\ m_peers' = [m_peers EXCEPT ![p] = o]
  /\ m_peers_backlog' = m_peers_backlog \cup {o}
  /\ peer' = [peer EXCEPT ![o] = NewPeer(p)]
  /\ inCallback' = Item("new_peer", o)
  /\ UNCHANGED <<phase, scheduled, jobs, closeRequests, closing, server, m_inactive_peers, starts>>

\* ... is followed by the data callback.
NewPeerReturns(o) ==
  /\ inCallback = Item("new_peer", o)
  /\ inCallback' = Item("data", o)
  /\ UNCHANGED <<phase, scheduled, jobs, closeRequests, closing, serverVars>>

on_data_received(p) ==
  /\ Idling("poll") /\ server.receiving
  /\ server.bookkeeping /\ p \notin m_inactive_peers /\ m_peers[p] # 0
  /\ inCallback' = Item("data", m_peers[p])
  /\ UNCHANGED <<phase, scheduled, jobs, closeRequests, closing, serverVars>>

\* Without bookkeeping the peer lives for one packet, and for its answers.
on_data_received_untracked(p, o) ==
  /\ Idling("poll") /\ server.receiving /\ Unused(o)
  /\ ~server.bookkeeping
  /\ peer' = [peer EXCEPT ![o] = NewPeer(p)]
  /\ inCallback' = Item("data_untracked", o)
  /\ UNCHANGED <<phase, scheduled, jobs, closeRequests, closing, server, m_peers,
                 m_peers_backlog, m_inactive_peers, starts>>

\* The peer an error is reported with lives on the stack for the call; user
\* code can do nothing with it.
on_receive_error ==
  /\ Idling("poll") /\ server.receiving
  /\ inCallback' = Item("receive_error", Server)
  /\ UNCHANGED <<phase, scheduled, jobs, closeRequests, closing, serverVars>>

ReceiveErrorReturns ==
  /\ inCallback = Item("receive_error", Server)
  /\ inCallback' = NotInCallback
  /\ UNCHANGED <<phase, scheduled, jobs, closeRequests, closing, serverVars>>

DataReturns(o) ==
  /\ inCallback \in {Item("data", o), Item("data_untracked", o)}
  /\ inCallback' = NotInCallback
  /\ peer' = IF inCallback.kind = "data" THEN peer ELSE [peer EXCEPT ![o] = unref(@)]
  /\ scheduled' = scheduled \cup Removals(peer, peer')
  /\ UNCHANGED <<phase, jobs, closeRequests, closing, server, m_peers, m_peers_backlog,
                 m_inactive_peers, starts>>

\* RefsExact: the reference of the send is not given back.
ForgetsUnref(o) ==
  /\ Idling("poll") /\ ~server.closing /\ peer[o].sends > 0
  /\ peer' = [peer EXCEPT ![o].sends = @ - 1]
  /\ UNCHANGED <<loopVars, server, m_peers, m_peers_backlog, m_inactive_peers, starts>>

\* A send completes, or is cancelled before the close callback of the handle.
on_send(o) ==
  /\ \/ Idling("poll") /\ ~server.closing
     \/ Idling("closing") /\ closing \cap ServerHandles # {}
  /\ peer[o].sends > 0
  /\ peer' = [peer EXCEPT ![o] = unref([peer[o] EXCEPT !.sends = @ - 1])]
  /\ scheduled' = scheduled \cup Removals(peer, peer')
  /\ UNCHANGED <<phase, jobs, closeRequests, closing, inCallback, server, m_peers,
                 m_peers_backlog, m_inactive_peers, starts>>

SendErrorCallback(o) ==
  /\ Idling("idle") /\ Item("send_error", o) \in jobs
  /\ jobs' = jobs \ {Item("send_error", o)}
  /\ UNCHANGED <<phase, scheduled, closeRequests, closing, inCallback, serverVars>>

-----------------------------------------------------------------------------
(* The loop thread: timers, which run before the idle phase *)

Timers == Idling("closing") /\ closing = {}

\* The backlog finds a peer expired, and calls the timeout callback ...
on_expired(o) ==
  /\ Timers /\ server.bookkeeping /\ o \in m_peers_backlog
  /\ peer' = [peer EXCEPT ![o].ends = @ + 1]
  /\ inCallback' = Item("timeout", o)
  /\ UNCHANGED <<phase, scheduled, jobs, closeRequests, closing, server, m_peers,
                 m_peers_backlog, m_inactive_peers, starts>>

\* ... after which the peer leaves m_peers and the backlog.
TimeoutReturns(o) ==
  /\ inCallback = Item("timeout", o)
  /\ inCallback' = NotInCallback
  /\ Hold([p \in Peers |-> IF m_peers[p] = o THEN 0 ELSE m_peers[p]], m_peers_backlog \ {o},
          peer, {})
  /\ UNCHANGED <<phase, jobs, closeRequests, closing, server, m_inactive_peers, starts>>

InactivityEnds(p) ==
  /\ Timers /\ p \in m_inactive_peers
  /\ m_inactive_peers' = m_inactive_peers \ {p}
  /\ UNCHANGED <<loopVars, server, m_peers, m_peers_backlog, peer, starts>>

-----------------------------------------------------------------------------
(* The loop thread: closing and removal *)

NoSends == \A o \in Objects : peer[o].sends = 0

\* Without a callback the handle is not reset and the peers are not forgotten.
on_close ==
  /\ Idling("closing") /\ Item("on_close", Server) \in closing /\ NoSends
  /\ closing' = closing \ {Item("on_close", Server)}
  /\ server' = [server EXCEPT !.m_connection_in_progress = FALSE,
                              !.m_udp_handle_inited = @ /\ ~server.m_server_close_callback]
  /\ inCallback' = IF server.m_server_close_callback THEN Item("server_closed", Server)
                   ELSE NotInCallback
  /\ UNCHANGED <<phase, scheduled, jobs, closeRequests, m_peers, m_peers_backlog,
                 m_inactive_peers, peer, starts>>

\* The backlog is reset after the callback, also one made in the callback.
ServerClosedReturns ==
  /\ inCallback = Item("server_closed", Server)
  /\ inCallback' = NotInCallback
  /\ Clear({})
  /\ server' = [server EXCEPT !.bookkeeping = FALSE]
  /\ UNCHANGED <<phase, jobs, closeRequests, closing, starts>>

\* Completes: the handle is reset and the removal not continued.
ForgetsRemoval ==
  /\ Idling("closing") /\ Item("on_close_with_removal", Server) \in closing /\ NoSends
  /\ closing' = closing \ {Item("on_close_with_removal", Server)}
  /\ server' = [server EXCEPT !.m_udp_handle_inited = FALSE]
  /\ UNCHANGED <<phase, scheduled, jobs, closeRequests, inCallback, m_peers, m_peers_backlog,
                 m_inactive_peers, peer, starts>>

on_close_with_removal ==
  /\ Idling("closing") /\ Item("on_close_with_removal", Server) \in closing /\ NoSends
  /\ closing' = closing \ {Item("on_close_with_removal", Server)}
  /\ ReadyToRemove(FALSE)
  /\ UNCHANGED <<phase, jobs, closeRequests, inCallback, starts>>

on_removal(x) ==
  /\ Idling("idle") /\ Item("on_removal", x) \in jobs
  /\ jobs' = jobs \ {Item("on_removal", x)}
  /\ closeRequests' = closeRequests \cup {Item("delete", x)}
  /\ UNCHANGED <<phase, scheduled, closing, inCallback, serverVars>>

DeletePeer(o) ==
  /\ Idling("closing") /\ Item("delete", o) \in closing
  /\ closing' = closing \ {Item("delete", o)}
  /\ peer' = [peer EXCEPT ![o].object = "deleted"]
  /\ UNCHANGED <<phase, scheduled, jobs, closeRequests, inCallback, server, m_peers,
                 m_peers_backlog, m_inactive_peers, starts>>

\* The timers of the peers closed since the removal was asked for go with the
\* server.
DeleteServer ==
  /\ Idling("closing") /\ Item("delete", Server) \in closing
  /\ closing' = closing \ {Item("delete", Server)}
  /\ server' = [server EXCEPT !.removal = "deleted"]
  /\ m_inactive_peers' = {}
  /\ UNCHANGED <<phase, scheduled, jobs, closeRequests, inCallback, m_peers, m_peers_backlog,
                 peer, starts>>

-----------------------------------------------------------------------------
ServerCall ==
  \/ ensure_handle_inited
  \/ \E bookkeeping \in BOOLEAN, bound \in BOOLEAN : start_receive(bookkeeping, bound)
  \/ \E callback \in BOOLEAN : close(callback)
  \/ schedule_removal
  \/ \E o \in Objects : send_data(o) \/ close_peer(o)

ServerEvent ==
  \/ \E p \in Peers, o \in Objects : on_data_received_new(p, o) \/ on_data_received_untracked(p, o)
  \/ \E p \in Peers : on_data_received(p) \/ InactivityEnds(p)
  \/ \E o \in Objects : on_expired(o)
  \/ on_receive_error

\* What the loop does by itself.
ServerStep ==
  \/ \E o \in Objects : \/ NewPeerReturns(o) \/ DataReturns(o) \/ TimeoutReturns(o)
                        \/ on_send(o) \/ SendErrorCallback(o) \/ DeletePeer(o)
  \/ ReceiveErrorReturns
  \/ on_close \/ ServerClosedReturns \/ on_close_with_removal \/ DeleteServer
  \/ \E x \in Objects \cup {Server} : on_removal(x)

PeerType == [object : {"none", "alive", "removed", "deleted"}, id : Peers \cup {0},
             m_ref_counter : 0..MaxSends + 1, m_udp_handle : BOOLEAN, sends : 0..MaxSends, ends : Nat]

ServerType == [m_udp_handle_inited : BOOLEAN, closing : BOOLEAN, receiving : BOOLEAN,
               m_connection_in_progress : BOOLEAN, bookkeeping : BOOLEAN,
               m_server_close_callback : BOOLEAN,
               removal : {"none", "requested", "scheduled", "deleted"}]
ServerTypeOK ==
  /\ server \in ServerType
  /\ m_peers \in [Peers -> 0..MaxPeers] /\ m_peers_backlog \subseteq Objects
  /\ m_inactive_peers \subseteq Peers
  /\ peer \in [Objects -> PeerType]
=============================================================================
