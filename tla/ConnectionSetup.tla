--------------------------- MODULE ConnectionSetup ---------------------------
(***************************************************************************)
(* How the page chooses its server: connect, reconnect and saveSettings of *)
(* src/frontend/src/stores/useCodexSession.ts, with the gateway's control  *)
(* API they await (src/frontend/src/gateway/SshGatewayClient.ts), on top   *)
(* of the JSON-RPC client, whose actions are those of RpcClient.           *)
(*                                                                         *)
(* The gateway is abstracted to the place its upstream leads to: a control *)
(* request changes it once, or fails and leaves it, as SshSessions does    *)
(* for requests one at a time.  One page uses the gateway.  Of the         *)
(* settings the model keeps the server and whether there is a token.       *)
(***************************************************************************)
EXTENDS RpcClient

CONSTANTS
    Local,    \* the app-server of the gateway machine
    Targets,  \* SSH servers
    Nowhere,  \* no server
    Slots,    \* bound: one for each control request in progress
    MaxSaves  \* bound: times the user saves or retries

ASSUME SetupAssumption ==
    /\ Local \notin Targets
    /\ Nowhere \notin Targets \cup {Local}
    /\ MaxSaves \in Nat

Servers == Targets \cup {Local}
Settings == [server : Servers, token : BOOLEAN]

\* A control request.  "gone": the page has given up waiting for it, the
\* gateway may still carry it out.
Setups == [of : {"none", "connect", "reconnect", "gone"}, server : Servers,
           at : {"asking", "done", "refused"}]
NoSetup == [of |-> "none", server |-> Local, at |-> "refused"]

VARIABLES
    settings,  \* state.settings
    shown,     \* state.ssh: the server the page last heard it was switched to
    created,   \* the store has created its client
    setups,    \* control requests, with the call that awaits each
    upstream,  \* gateway: where its upstream leads
    leads,     \* gateway: where it has dialed for each socket
    saves,     \* bound counter
    alone      \* history: no setup, early client or token-less save has met
               \* another setup since the last one that began by itself

setupVars == <<settings, shown, created, setups, upstream, leads, saves, alone>>
allVars == <<vars, setupVars>>

Free(j) == setups[j].of = "none"
Waiting(j) == setups[j].of \in {"connect", "reconnect"}
AllFree == \A j \in Slots : Free(j)
Ask(caller, s) == [of |-> caller, server |-> s, at |-> "asking"]

\* App.vue calls connect() when it is mounted: without a token it only opens
\* the settings.  The gateway is as an earlier page left it.
SetupInit ==
    /\ Init
    /\ settings \in Settings
    /\ shown = Nowhere /\ created = FALSE
    /\ IF settings.token
       THEN \E j \in Slots :
                setups = [i \in Slots |->
                             IF i = j THEN Ask("connect", settings.server) ELSE NoSetup]
       ELSE setups = [i \in Slots |-> NoSetup]
    /\ upstream \in Servers
    /\ leads = [s \in Sockets |-> Nowhere]
    /\ saves = 0 /\ alone = TRUE

-----------------------------------------------------------------------------
(* The user.                                                                *)

DisconnectClient == IF created THEN UserDisconnect ELSE UNCHANGED vars

\* Mutant: the old connection is kept until the gateway has answered.
ReconnectLate(j) ==
    /\ Free(j)
    /\ created' = TRUE
    /\ UNCHANGED vars
    /\ setups' = [setups EXCEPT ![j] = Ask("reconnect", settings'.server)]
    /\ alone' = AllFree

\* reconnect() up to its await: disconnect, then ask the gateway.
Reconnect(j) ==
    /\ Free(j)
    /\ created' = TRUE
    /\ UserDisconnect
    /\ setups' = [setups EXCEPT ![j] = Ask("reconnect", settings'.server)]
    /\ alone' = AllFree

\* stopForMissingToken
StopForMissingToken ==
    /\ DisconnectClient
    /\ alone' = AllFree
    /\ UNCHANGED <<created, setups>>

\* saveSettings, and the retry button, which keeps the settings.
Save(next) ==
    /\ saves < MaxSaves
    /\ saves' = saves + 1
    /\ settings' = next
    /\ IF next.token THEN \E j \in Slots : Reconnect(j) ELSE StopForMissingToken
    /\ UNCHANGED <<shown, upstream, leads>>

\* Any call of the store creates the client if there is none.
EnsureClient ==
    /\ ~created
    /\ created' = TRUE
    /\ alone' = FALSE
    /\ UNCHANGED <<vars, settings, shown, setups, upstream, leads, saves>>

-----------------------------------------------------------------------------
(* The gateway's side of a control request.                                 *)

Carry(j, result) ==
    /\ setups[j].at = "asking"
    /\ setups' = [setups EXCEPT ![j] =
                     IF @.of = "gone" THEN NoSetup ELSE [@ EXCEPT !.at = result]]
    /\ UNCHANGED <<vars, settings, shown, created, leads, saves, alone>>

Switch(j) ==
    /\ Carry(j, "done")
    /\ upstream' = setups[j].server

\* ssh does not come up; going back to the local server cannot fail.
Refuse(j) ==
    /\ setups[j].server # Local
    /\ Carry(j, "refused")
    /\ UNCHANGED upstream

\* /ws: the handler dials whatever the upstream is when the request arrives.
DialUpstream(s) ==
    /\ readyState[s] = "connecting"
    /\ leads[s] = Nowhere
    /\ leads' = [leads EXCEPT ![s] = upstream]
    /\ UNCHANGED <<vars, settings, shown, created, setups, upstream, saves, alone>>

-----------------------------------------------------------------------------
(* The page goes on.                                                        *)

\* connect() of the client, with its early returns.
JoinClient == IF phase # "ready" /\ connectPromise = 0 THEN Connect ELSE UNCHANGED vars

\* prepareGatewayConnection has its answer.
Prepared(j) ==
    /\ Waiting(j)
    /\ setups[j].at = "done"
    /\ setups' = [setups EXCEPT ![j] = NoSetup]
    /\ shown' = setups[j].server
    /\ created' = TRUE
    /\ IF setups[j].of = "reconnect" THEN ReconnectNow ELSE JoinClient
    /\ UNCHANGED <<settings, upstream, leads, saves, alone>>

\* Mutant: the client reconnects whether or not the gateway was prepared.
NotPreparedGoesOn(j) ==
    /\ Waiting(j)
    /\ setups' = [setups EXCEPT ![j] =
                     IF @.at = "asking" THEN [@ EXCEPT !.of = "gone"] ELSE NoSetup]
    /\ ReconnectNow
    /\ UNCHANGED <<settings, shown, created, upstream, leads, saves, alone>>

\* It failed, or its request or answer got lost: the call ends, and a request
\* under way may still be carried out.
NotPrepared(j) ==
    /\ Waiting(j)
    /\ setups' = [setups EXCEPT ![j] =
                     IF @.at = "asking" THEN [@ EXCEPT !.of = "gone"] ELSE NoSetup]
    /\ UNCHANGED <<vars, settings, shown, created, upstream, leads, saves, alone>>

\* A lost request that the gateway never gets, or drops with its connection.
Dropped(j) ==
    /\ setups[j].of = "gone"
    /\ setups' = [setups EXCEPT ![j] = NoSetup]
    /\ UNCHANGED <<vars, settings, shown, created, upstream, leads, saves, alone>>

-----------------------------------------------------------------------------
(* The client on its own.                                                   *)

\* A socket opens when the gateway has dialed for it.
ClientSteps ==
    /\ \/ \E s \in Sockets :
            \/ Open(s) /\ leads[s] # Nowhere
            \/ StaleOpen(s) \/ PeerClosing(s) \/ CloseEvent(s) \/ StaleCloseEvent(s)
       \/ \E s \in Sockets, id \in Ids : Initialized(s, id) \/ InitializeRefused(s, id)
       \/ \E id \in Ids : RequestTimeout(id)
       \/ TimerFires
       \/ created /\ (GoOnline \/ GoOffline)
    /\ UNCHANGED setupVars

\* Without a client nobody listens to the network.
NetworkChanges ==
    /\ ~created
    /\ online' = ~online
    /\ UNCHANGED <<phase, attempt, timer, manuallyClosed, connectPromise, socket,
                   sequence, pending, listening, opened, readyState, promise, call>>
    /\ UNCHANGED setupVars

-----------------------------------------------------------------------------
SetupNext ==
    \/ \E next \in Settings : Save(next)
    \/ EnsureClient
    \/ \E j \in Slots :
          Switch(j) \/ Refuse(j) \/ Prepared(j) \/ NotPrepared(j) \/ Dropped(j)
    \/ \E s \in Sockets : DialUpstream(s)
    \/ ClientSteps \/ NetworkChanges

SetupSpec == SetupInit /\ [][SetupNext]_allVars

-----------------------------------------------------------------------------
(* Properties.                                                              *)

SetupTypeOK ==
    /\ TypeOK
    /\ settings \in Settings
    /\ shown \in Servers \cup {Nowhere}
    /\ created \in BOOLEAN /\ alone \in BOOLEAN
    /\ setups \in [Slots -> Setups]
    /\ upstream \in Servers
    /\ leads \in [Sockets -> Servers \cup {Nowhere}]
    /\ saves \in 0..MaxSaves

\* A server is chosen in order: while reconnect() waits for the gateway, and
\* no other setup came between, no socket exists and neither the retry timer
\* nor an online event opens one, so /ws is not dialed to the old server.
SwitchesInOrder ==
    alone /\ (\E j \in Slots : setups[j].of = "reconnect") =>
        socket = 0 /\ ~timer

\* The right server: unless setups met, a connection that is ready leads to
\* the server of the settings, and the page shows that server, through failed
\* and lost control requests, retries and network changes.
RightServer ==
    alone /\ phase = "ready" =>
        leads[socket] = settings.server /\ shown = settings.server
=============================================================================
