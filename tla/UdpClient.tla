----------------------------- MODULE UdpClient ------------------------------
(***************************************************************************)
(* UdpClient.  set_destination only schedules its work; a client with a    *)
(* timeout is closed by a backlog that holds the client as its only item.  *)
(* The clock is reduced to whether the last packet is older than the       *)
(* timeout.                                                                *)
(***************************************************************************)
EXTENDS LoopPhases

CONSTANTS Client,           \* stands for the client in the jobs of the loop
          MaxRequests,      \* bound on the sends in progress
          MaxDestinations   \* bound on the calls of set_destination

ASSUME UdpClientAssumption == MaxRequests \in Nat /\ MaxDestinations \in Nat

VARIABLES
  client,          \* the handle, the members and the removal of the client;
                   \* uv_closes is history, the calls of uv_close on the handle
  destinations     \* history: calls of set_destination

clientVars == <<client, destinations>>

\* made: the program has a client.
ClientInit(made) ==
  /\ client = [m_udp_handle_inited |-> FALSE, closing |-> FALSE, receiving |-> FALSE,
               m_destination_endpoint |-> FALSE, m_close_callback |-> FALSE,
               m_timeout_handler |-> "none", expired |-> FALSE, sends |-> 0, uv_closes |-> 0,
               removal |-> IF made THEN "none" ELSE "deleted"]
  /\ destinations = 0

client_is_open == client.m_udp_handle_inited /\ ~client.closing
ClientHandles == {Item("on_close_no_removal", Client), Item("on_close_with_removal", Client)}
ClientClosePending == (closeRequests \cup closing) \cap ClientHandles # {}

\* As for the server: a removal asked for between a close() made in a close
\* callback or a timer, or by the timeout, and the idle phase that follows would
\* delete the client before its close callback.
ClientJustClosed == phase = "closing" /\ closeRequests \cap ClientHandles # {}

Destinations == [kind : {"set_destination", "set_destination_with_timeout"}, id : {Client}]
DestinationPending == (scheduled \cup jobs) \cap Destinations # {}

-----------------------------------------------------------------------------
(* Methods *)

\* set_receive_buffer_size and set_send_buffer_size.
client_ensure_handle_inited ==
  /\ client.removal = "none" /\ ~client.m_udp_handle_inited /\ ~DestinationPending
  /\ client' = [client EXCEPT !.m_udp_handle_inited = TRUE, !.closing = FALSE,
                              !.uv_closes = 0]
  /\ UNCHANGED <<loopVars, destinations>>

\* Another destination is set only after the client was closed.  On an open one
\* libuv refuses to receive twice; and if the timeout closes the handle before
\* the scheduled part runs, that part would use the closing handle.
set_destination(timed) ==
  /\ client.removal = "none" /\ destinations < MaxDestinations
  /\ ~DestinationPending /\ ~client.m_udp_handle_inited
  /\ destinations' = destinations + 1
  /\ scheduled' = scheduled \cup
       {Item(IF timed THEN "set_destination_with_timeout" ELSE "set_destination", Client)}
  /\ UNCHANGED <<phase, jobs, closeRequests, closing, inCallback, client>>

\* close_impl with the callback handler.
close_impl(handler, now) ==
  /\ client' = [now EXCEPT !.closing = TRUE, !.receiving = FALSE, !.uv_closes = @ + 1]
  /\ closeRequests' = closeRequests \cup {Item(handler, Client)}

client_close ==
  /\ client.removal = "none" /\ client_is_open /\ ~DestinationPending
  /\ close_impl("on_close_no_removal", client)
  /\ UNCHANGED <<phase, scheduled, jobs, closing, inCallback, destinations>>

\* Faulty variants stand before the definitions they are variants of, with the
\* property of Udp that rejects each.  NoUseAfterDelete: the removal does not
\* wait for the handle.
RemovesAtOnce ==
  /\ client.removal = "none" /\ ~ClientJustClosed
  /\ client' = [client EXCEPT !.removal = "scheduled"]
  /\ scheduled' = scheduled \cup {Item("on_removal", Client)}
  /\ UNCHANGED <<phase, jobs, closeRequests, closing, inCallback, destinations>>

\* A close that is pending is not waited for.
client_schedule_removal ==
  /\ client.removal = "none" /\ ~ClientJustClosed
  /\ IF client_is_open
     THEN /\ close_impl("on_close_with_removal", [client EXCEPT !.removal = "requested"])
          /\ UNCHANGED scheduled
     ELSE /\ client' = [client EXCEPT !.removal = "scheduled"]
          /\ scheduled' = scheduled \cup {Item("on_removal", Client)}
          /\ UNCHANGED closeRequests
  /\ UNCHANGED <<phase, jobs, closing, inCallback, destinations>>

\* A send that is refused only schedules its callback.
client_send_data ==
  /\ client.removal \in {"none", "requested"}
  /\ IF client_is_open /\ client.m_destination_endpoint
     THEN /\ client.sends < MaxRequests
          /\ client' = [client EXCEPT !.sends = @ + 1, !.expired = FALSE]
          /\ UNCHANGED scheduled
     ELSE scheduled' = scheduled \cup {Item("send_error", Client)} /\ UNCHANGED client
  /\ UNCHANGED <<phase, jobs, closeRequests, closing, inCallback, destinations>>

-----------------------------------------------------------------------------
(* The loop thread *)

\* The scheduled part of set_destination.  It fails for an undefined endpoint
\* or when the bind fails; the callback is called in either case ...
SetDestination(d, bound) ==
  /\ Idling("idle") /\ d \in jobs \cap Destinations
  /\ jobs' = jobs \ {d}
  /\ IF client.removal # "none" THEN UNCHANGED <<client, inCallback>>
     ELSE /\ client' = [client EXCEPT !.m_udp_handle_inited = TRUE, !.closing = FALSE,
                                      !.uv_closes = 0, !.receiving = bound, !.m_destination_endpoint = @ \/ bound]
          /\ inCallback' = d
  /\ UNCHANGED <<phase, scheduled, closeRequests, closing, destinations>>

\* ... and with a timeout the client is then put into a new backlog, which finds
\* it expired at once when its last packet is too old.
DestinationReturns ==
  /\ inCallback \in Destinations
  /\ inCallback' = NotInCallback
  /\ IF inCallback.kind = "set_destination"
     THEN UNCHANGED <<client, closeRequests>>
     ELSE LET now == [client EXCEPT !.m_close_callback = TRUE,
                        !.m_timeout_handler = IF client.expired THEN "empty" ELSE "item"]
          IN IF client.expired /\ client_is_open
             THEN close_impl("on_close_no_removal", now)
             ELSE client' = now /\ UNCHANGED closeRequests
  /\ UNCHANGED <<phase, scheduled, jobs, closing, destinations>>

TimePasses ==
  /\ client.removal # "deleted"
  /\ client' = [client EXCEPT !.expired = TRUE]
  /\ UNCHANGED <<loopVars, destinations>>

client_on_data_received ==
  /\ Idling("poll") /\ client.receiving
  /\ client' = [client EXCEPT !.expired = FALSE]
  /\ UNCHANGED <<loopVars, destinations>>

m_on_item_expired ==
  /\ Idling("closing") /\ closing = {}
  /\ client.removal # "deleted" /\ client.m_timeout_handler = "item" /\ client.expired
  /\ LET now == [client EXCEPT !.m_timeout_handler = "empty"] IN
       IF client_is_open
       THEN close_impl("on_close_no_removal", now)
       ELSE client' = now /\ UNCHANGED closeRequests
  /\ UNCHANGED <<phase, scheduled, jobs, closing, inCallback, destinations>>

\* A send completes, or is cancelled before the close callback of the handle.
client_on_send ==
  /\ \/ Idling("poll") /\ ~client.closing
     \/ Idling("closing") /\ closing \cap ClientHandles # {}
  /\ client.sends > 0
  /\ client' = [client EXCEPT !.sends = @ - 1]
  /\ UNCHANGED <<loopVars, destinations>>

client_send_error ==
  /\ Idling("idle") /\ Item("send_error", Client) \in jobs
  /\ jobs' = jobs \ {Item("send_error", Client)}
  /\ UNCHANGED <<phase, scheduled, closeRequests, closing, inCallback, clientVars>>

on_close_no_removal ==
  /\ Idling("closing") /\ Item("on_close_no_removal", Client) \in closing /\ client.sends = 0
  /\ closing' = closing \ {Item("on_close_no_removal", Client)}
  /\ client' = [client EXCEPT !.m_udp_handle_inited = FALSE]
  /\ UNCHANGED <<phase, scheduled, jobs, closeRequests, inCallback, destinations>>

client_on_close_with_removal ==
  /\ Idling("closing") /\ Item("on_close_with_removal", Client) \in closing /\ client.sends = 0
  /\ closing' = closing \ {Item("on_close_with_removal", Client)}
  /\ client' = [client EXCEPT !.m_udp_handle_inited = FALSE, !.removal = "scheduled"]
  /\ scheduled' = scheduled \cup {Item("on_removal", Client)}
  /\ UNCHANGED <<phase, jobs, closeRequests, inCallback, destinations>>

client_on_removal ==
  /\ Idling("idle") /\ Item("on_removal", Client) \in jobs
  /\ jobs' = jobs \ {Item("on_removal", Client)}
  /\ closeRequests' = closeRequests \cup {Item("delete", Client)}
  /\ UNCHANGED <<phase, scheduled, closing, inCallback, clientVars>>

DeleteClient ==
  /\ Idling("closing") /\ Item("delete", Client) \in closing
  /\ closing' = closing \ {Item("delete", Client)}
  /\ client' = [client EXCEPT !.removal = "deleted"]
  /\ UNCHANGED <<phase, scheduled, jobs, closeRequests, inCallback, destinations>>

-----------------------------------------------------------------------------
ClientCall ==
  \/ client_ensure_handle_inited
  \/ \E timed \in BOOLEAN : set_destination(timed)
  \/ client_close
  \/ client_schedule_removal
  \/ client_send_data

ClientEvent == TimePasses \/ client_on_data_received \/ m_on_item_expired

ClientStep ==
  \/ \E d \in Destinations, bound \in BOOLEAN : SetDestination(d, bound)
  \/ DestinationReturns
  \/ client_on_send \/ client_send_error
  \/ on_close_no_removal \/ client_on_close_with_removal
  \/ client_on_removal \/ DeleteClient

ClientType == [m_udp_handle_inited : BOOLEAN, closing : BOOLEAN, receiving : BOOLEAN,
               m_destination_endpoint : BOOLEAN, m_close_callback : BOOLEAN,
               m_timeout_handler : {"none", "item", "empty"}, expired : BOOLEAN,
               sends : 0..MaxRequests, uv_closes : Nat,
               removal : {"none", "requested", "scheduled", "deleted"}]
ClientTypeOK == client \in ClientType
=============================================================================
