-------------------------------- MODULE Link --------------------------------
(***************************************************************************)
(* The JSON-RPC client as the store sees it: its sockets come one after    *)
(* the other, and the phase is "ready" or not.  RpcClient implements this  *)
(* specification (ImplementsLink there); the modules of the store extend   *)
(* it, so that what they keep across connections is checked against every  *)
(* order of events the real client can produce.                            *)
(***************************************************************************)
EXTENDS Integers

CONSTANT MaxLinks  \* bound: sockets opened

ASSUME LinkAssumption == MaxLinks \in Nat

SocketStates == {"none", "connecting", "initializing", "established", "closing"}

VARIABLES
    link,    \* number of the latest socket opened
    socket,  \* this.socket: null, or how far it is
    ready    \* the connection's phase is "ready"

linkVars == <<link, socket, ready>>

LinkInit == link = 0 /\ socket = "none" /\ ready = FALSE

\* readyState of this.socket is OPEN: request() and send() do not throw.
IsOpen == socket \in {"initializing", "established"}

\* A socket that is not null is replaced only when its own connect() has
\* settled and the phase is not ready: it went offline, or failed to initialize.
Dial ==
    /\ socket = "none" \/ (socket \in {"established", "closing"} /\ ~ready)
    /\ link < MaxLinks
    /\ link' = link + 1
    /\ socket' = "connecting"
    /\ UNCHANGED ready

\* reconnectNow replaces whatever there is, after rejecting its calls.
Reconnect ==
    /\ socket # "none"
    /\ link < MaxLinks
    /\ link' = link + 1
    /\ socket' = "connecting"
    /\ ready' = FALSE

Opens ==
    /\ socket = "connecting"
    /\ socket' = "initializing"
    /\ UNCHANGED <<link, ready>>

BecomesReady ==
    /\ socket = "initializing"
    /\ socket' = "established"
    /\ ready' = TRUE
    /\ UNCHANGED link

\* initialize is refused or times out, or an established peer hangs up: the
\* close event follows.
Closes ==
    /\ IsOpen
    /\ socket' = "closing"
    /\ UNCHANGED <<link, ready>>

\* The close event, or disconnect(): this.socket is null, its calls rejected.
Drops ==
    /\ socket # "none"
    /\ socket' = "none"
    /\ ready' = FALSE
    /\ UNCHANGED link

\* The offline event: the phase changes, the socket stays.
GoesOffline ==
    /\ ready' = FALSE
    /\ UNCHANGED <<link, socket>>

LinkNext ==
    \/ Dial \/ Reconnect \/ Opens \/ BecomesReady \/ Closes \/ Drops \/ GoesOffline

LinkSpec == LinkInit /\ [][LinkNext]_linkVars

LinkTypeOK ==
    /\ link \in 0..MaxLinks
    /\ socket \in SocketStates
    /\ ready \in BOOLEAN
=============================================================================
