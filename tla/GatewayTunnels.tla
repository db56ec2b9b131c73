---------------------------- MODULE GatewayTunnels ----------------------------
(***************************************************************************)
(* The tunnels of one host at gateway_service: each WebSocket connection   *)
(* has a coroutine that registers it under the host's id, reads until the  *)
(* connection is gone and unregisters the host's id.  The agent dials      *)
(* again as soon as it has lost its connection, which the gateway may      *)
(* notice much later.                                                      *)
(***************************************************************************)
CONSTANTS Conns, NoConn

ASSUME TunnelAssumption == NoConn \notin Conns

VARIABLES
    tunnel,   \* _host_tunnels[host_id]
    conn,     \* where the coroutine of each connection is
    lost,     \* connections the agent has given up
    overlap   \* connections that were open at the gateway together with another

tunnelVars == <<tunnel, conn, lost, overlap>>

ConnState == {"new", "accepted", "reading", "closing", "gone"}
Open      == {c \in Conns : conn[c] \in {"accepted", "reading", "closing"}}

TunnelInit ==
    /\ tunnel = NoConn
    /\ conn = [c \in Conns |-> "new"]
    /\ lost = {} /\ overlap = {}

\* The agent holds one connection at a time.
Dial(c) ==
    /\ conn[c] = "new" /\ Open \subseteq lost
    /\ conn' = [conn EXCEPT ![c] = "accepted"]
    /\ overlap' = IF Open = {} THEN overlap ELSE overlap \cup Open \cup {c}
    /\ UNCHANGED <<tunnel, lost>>

\* register_host_tunnel replaces whatever the host's id was mapped to.
Register(c) ==
    /\ conn[c] = "accepted"
    /\ tunnel' = c
    /\ conn' = [conn EXCEPT ![c] = "reading"]
    /\ UNCHANGED <<lost, overlap>>

Lose(c) ==
    /\ conn[c] \in {"accepted", "reading"} /\ c \notin lost
    /\ lost' = lost \cup {c}
    /\ UNCHANGED <<tunnel, conn, overlap>>

\* WebSocketDisconnect, or an error, out of receive_text.
Notice(c) ==
    /\ conn[c] = "reading" /\ c \in lost
    /\ conn' = [conn EXCEPT ![c] = "closing"]
    /\ UNCHANGED <<tunnel, lost, overlap>>

MUT_Unregister(c) ==
    /\ conn[c] = "closing"
    /\ conn' = [conn EXCEPT ![c] = "gone"]
    /\ UNCHANGED <<tunnel, lost, overlap>>

\* unregister_host_tunnel pops the host's id, whichever connection it maps to.
Unregister(c) ==
    /\ conn[c] = "closing"
    /\ tunnel' = NoConn
    /\ conn' = [conn EXCEPT ![c] = "gone"]
    /\ UNCHANGED <<lost, overlap>>

TunnelNext ==
    \E c \in Conns : Dial(c) \/ Register(c) \/ Lose(c) \/ Notice(c) \/ Unregister(c)

TunnelSpec == TunnelInit /\ [][TunnelNext]_tunnelVars

-----------------------------------------------------------------------------
(* Properties that hold *)

\* Every variable keeps its type.
TunnelTypeOK ==
    /\ tunnel \in Conns \cup {NoConn} /\ conn \in [Conns -> ConnState]
    /\ lost \subseteq Conns /\ overlap \subseteq Conns

\* The registry never maps the host to a connection whose coroutine has ended,
\* and a connection that is read is missing from it only if another one of the
\* host was open at the same time: the registry errs only on a reconnection.
TunnelIsServed ==
    /\ tunnel # NoConn => conn[tunnel] \in {"reading", "closing"}
    /\ \A c \in Conns : conn[c] = "reading" /\ tunnel # c => c \in overlap
=============================================================================
