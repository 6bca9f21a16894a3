----------------------- MODULE MessageOrientedServer ------------------------
(***************************************************************************)
(* GenericMessageOrientedServer over a TcpServer: the callbacks it gives   *)
(* to listen() make a GenericMessageOrientedConnectedClient for each       *)
(* connection, keep it as the user data of the TcpConnectedClient, hand it *)
(* data, and delete it in the close callback.  What it does with the data  *)
(* is MessageOriented; a message is one write here, its size and its       *)
(* content together.                                                       *)
(***************************************************************************)
EXTENDS TcpServer

CONSTANT SendsWithCallbacks   \* may a message be sent with a callback?

ASSUME MessageOrientedServerAssumption == SendsWithCallbacks \in BOOLEAN

VARIABLE wrapper   \* "none", "made", "stored" as the user data, or "deleted"

framedVars == <<vars, wrapper>>

FramedInit == Init /\ wrapper = [c \in Clients |-> "none"]

-----------------------------------------------------------------------------
(* The callbacks given to listen() *)

\* The wrapper is made before the user's new connection callback is called ...
NewConnection(c) == on_new_connection(c) /\ wrapper' = [wrapper EXCEPT ![c] = "made"]

\* Faulty variant, which WrapperOutlivesUse rejects: it is stored only if the
\* user's callback left the connection open.
StoresIfOpen(c) ==
  /\ NewConnectionReturns(c)
  /\ wrapper' = [wrapper EXCEPT ![c] = IF client[c].m_is_open THEN "stored" ELSE @]

\* ... and stored after it.
SetUserData(c) == NewConnectionReturns(c) /\ wrapper' = [wrapper EXCEPT ![c] = "stored"]

\* A connection that fails has one too, which only the close callback deletes.
FailedConnection(c, reset) ==
  /\ on_new_connection_failed(c, reset)
  /\ wrapper' = [wrapper EXCEPT ![c] = IF reset THEN "deleted" ELSE "stored"]

\* What the close callback does after the user's, which stands between
\* on_read_error or on_client_close and the step that follows it.
CloseConnection(c) ==
  /\ ReadErrorReturns(c) \/ ClientClosedReturns(c)
  /\ wrapper' = [wrapper EXCEPT ![c] = IF client[c].m_close_callback THEN "deleted" ELSE @]

-----------------------------------------------------------------------------
ConnectionStep(c) == \/ SetUserData(c) \/ CloseConnection(c)
                     \/ DataReturns(c) /\ UNCHANGED wrapper

LoopStep == (\E c \in Clients : ConnectionStep(c)) \/ (ServerStep /\ UNCHANGED wrapper)

FramedNext ==
  \/ \E c \in Clients : \/ NewConnection(c) \/ \E reset \in BOOLEAN : FailedConnection(c, reset)
                        \/ (ClientCall(c) \/ Read(c) \/ Completion(c)) /\ UNCHANGED wrapper
  \/ ServerCall /\ UNCHANGED wrapper
  \/ LoopStep

\* The loop iterates, callbacks return, and the peer, or the end of its
\* connection, lets every write and shutdown complete.
FramedSpec ==
  /\ FramedInit /\ [][FramedNext]_framedVars
  /\ WF_framedVars(LoopStep)
  /\ \A c \in Clients : /\ SF_framedVars(after_write(c) /\ UNCHANGED wrapper)
                        /\ SF_framedVars(on_shutdown(c) /\ UNCHANGED wrapper)

-----------------------------------------------------------------------------
(* Properties *)

\* The data and the close callback find the wrapper their connection was made
\* with, whoever closes the connection and from inside which callback: it is
\* the user data before anything is read, and is deleted by the first close
\* callback and no other.  It does not outlive its connection; the one of a
\* connection that failed does.  If messages are sent with callbacks, which
\* refer to the wrapper, it outlives the writes too.
WrapperOutlivesUse ==
  \A c \in Clients :
    /\ client[c].reading \/ inCallback \in {Item("data", c), Item("read error", c)}
         => wrapper[c] = "stored"
    /\ inCallback = Item("client closed", c) /\ client[c].m_close_callback => wrapper[c] = "stored"
    /\ client[c].accepted /\ client[c].object = "deleted" => wrapper[c] = "deleted"
    /\ SendsWithCallbacks /\ client[c].m_pending_write_requests > 0 => wrapper[c] # "deleted"
=============================================================================
