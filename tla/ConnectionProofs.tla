-------------------------- MODULE ConnectionProofs --------------------------
(***************************************************************************)
(* Proofs about RpcClient, for every number of sockets and requests and    *)
(* every retry limit: its invariants and action properties, that it keeps  *)
(* RpcContract, and that it is a Link.  On top of them, proofs about       *)
(* ConnectionSetup, which is that client as the store sets it up, for      *)
(* every number of servers and of control requests in progress.            *)
(***************************************************************************)
EXTENDS ConnectionSetup, TLAPS

USE ConstantsAssumption, SetupAssumption DEF ConstantsAssumption, SetupAssumption


-----------------------------------------------------------------------------
(* Type correctness.                                                        *)

\* Closing a socket leaves a map of ready states.
LEMMA AfterCloseType ==
    ASSUME readyState \in [Sockets -> ReadyStates], NEW s
    PROVE  AfterClose(s) \in [Sockets -> ReadyStates]
BY DEF AfterClose, ReadyStates

\* Rejecting connection promises leaves a map of promise states.
LEMMA AfterRejectType ==
    ASSUME promise \in [Sockets -> Promises], NEW S
    PROVE  AfterReject(S) \in [Sockets -> Promises]
BY DEF AfterReject, Promises

\* rejectPending keeps the types of the pending map and of the requests.
LEMMA RejectPendingType ==
    ASSUME DataOK, RejectPending
    PROVE  /\ pending' = {}
           /\ call' \in [Ids -> Calls]
BY DEF DataOK, RejectPending, Calls

\* Settling one request keeps them too.
LEMMA SettleType ==
    ASSUME DataOK, NEW id \in Ids, NEW outcome \in {"ok", "rejected"}, Settle(id, outcome)
    PROVE  /\ pending' \in SUBSET (1..sequence)
           /\ call' \in [Ids -> Calls]
BY DEF DataOK, Settle, Calls

\* clearCurrentConnection keeps a socket number or null.
LEMMA ClearConnectionType ==
    ASSUME DataOK, NEW S, ClearConnection(S)
    PROVE  connectPromise' \in 0..opened
BY DEF DataOK, ClearConnection

\* A failed handshake keeps the types of what it changes.
LEMMA HandshakeFailsType ==
    ASSUME DataOK, NEW s, HandshakeFails(s)
    PROVE  /\ readyState' \in [Sockets -> ReadyStates]
           /\ promise' \in [Sockets -> Promises]
           /\ connectPromise' \in 0..opened
<1>1. AfterClose(s) \in [Sockets -> ReadyStates]
  BY AfterCloseType DEF DataOK
<1>2. AfterReject({s}) \in [Sockets -> Promises]
  BY AfterRejectType DEF DataOK
<1>3. ClearConnection({s}) => connectPromise' \in 0..opened
  BY ClearConnectionType
<1> QED
  BY <1>1, <1>2, <1>3 DEF HandshakeFails, DataOK

\* Constructing a socket keeps the types of what it changes.
LEMMA NewSocketType ==
    ASSUME DataOK, NEW retrying,
           NEW ready \in [Sockets -> ReadyStates], NEW prom \in [Sockets -> Promises],
           NewSocket(retrying, ready, prom)
    PROVE  /\ phase' \in Phases
           /\ connectPromise' \in 0..opened'
           /\ socket' \in 0..opened'
           /\ opened' \in 0..MaxSockets
           /\ readyState' \in [Sockets -> ReadyStates]
           /\ promise' \in [Sockets -> Promises]
<1>1. phase' \in Phases
  BY DEF NewSocket, Phases
<1>2. connectPromise' \in 0..opened' /\ socket' \in 0..opened' /\ opened' \in 0..MaxSockets
  BY DEF NewSocket, DataOK
<1>3. readyState' \in [Sockets -> ReadyStates] /\ promise' \in [Sockets -> Promises]
  BY DEF NewSocket, DataOK, ReadyStates, Promises
<1> QED
  BY <1>1, <1>2, <1>3

\* connect() past its early returns keeps the types of what it changes.
LEMMA ConnectingType ==
    ASSUME DataOK, NEW current \in 0..opened, NEW retrying,
           NEW ready \in [Sockets -> ReadyStates], NEW prom \in [Sockets -> Promises],
           Connecting(current, retrying, ready, prom)
    PROVE  /\ phase' \in Phases
           /\ connectPromise' \in 0..opened'
           /\ socket' \in 0..opened'
           /\ opened' \in 0..MaxSockets
           /\ readyState' \in [Sockets -> ReadyStates]
           /\ promise' \in [Sockets -> Promises]
<1>1. CASE NoSocket(current, ready, prom)
  BY <1>1 DEF NoSocket, DataOK, Phases
<1>2. CASE NewSocket(retrying, ready, prom)
  BY <1>2, NewSocketType
<1> QED
  BY <1>1, <1>2 DEF Connecting

\* Every step keeps the flags Boolean.
LEMMA FlagsStep ==
    ASSUME FlagsOK, [Next]_vars
    PROVE  FlagsOK'
<1> USE DEF FlagsOK
<1>1. CASE UNCHANGED vars
  BY <1>1 DEF vars
<1>2. CASE StoreStep
  BY <1>2, Zenon DEF StoreStep, Connect, Connecting, UserDisconnect, Destroy, Disconnect,
     ReconnectNow, Request
<1>3. CASE SocketStep
  BY <1>3, Zenon DEF SocketStep, Open, StaleOpen, PeerClosing, CloseEvent, ScheduleReconnect,
     StaleCloseEvent, Response, Initialized, InitializeRefused
<1>4. CASE TimeStep
  BY <1>4, Zenon DEF TimeStep, RequestTimeout, TimerFires, Connecting, GoOnline, GoOffline
<1> QED
  BY <1>1, <1>2, <1>3, <1>4 DEF Next

\* Every step keeps the types of the other variables.
LEMMA DataStep ==
    ASSUME DataOK, [Next]_vars
    PROVE  DataOK'
<1>1. CASE UNCHANGED vars
  BY <1>1 DEF DataOK, vars
<1>2. CASE Connect
  <2>1. Connecting(socket, attempt > 0 \/ phase = "reconnecting", readyState, promise)
    BY <1>2 DEF Connect
  <2>2. /\ socket \in 0..opened
        /\ readyState \in [Sockets -> ReadyStates]
        /\ promise \in [Sockets -> Promises]
    BY DEF DataOK
  <2> QED
    BY <1>2, <2>1, <2>2, ConnectingType DEF Connect, DataOK
<1>3. CASE Disconnect
  <2>1. readyState' \in [Sockets -> ReadyStates]
    BY <1>3, AfterCloseType DEF Disconnect, DataOK
  <2>2. promise' \in [Sockets -> Promises]
    BY <1>3, AfterRejectType DEF Disconnect, DataOK
  <2>3. connectPromise' \in 0..opened
    BY <1>3, ClearConnectionType DEF Disconnect
  <2>4. pending' = {} /\ call' \in [Ids -> Calls]
    BY <1>3, RejectPendingType DEF Disconnect
  <2> QED
    BY <1>3, <2>1, <2>2, <2>3, <2>4 DEF Disconnect, DataOK, Phases
<1>4. CASE ReconnectNow
  <2>1. AfterClose(socket) \in [Sockets -> ReadyStates]
    BY AfterCloseType DEF DataOK
  <2>2. AfterReject(Handshaking) \in [Sockets -> Promises]
    BY AfterRejectType DEF DataOK
  <2>3. pending' = {} /\ call' \in [Ids -> Calls]
    BY <1>4, RejectPendingType DEF ReconnectNow
  <2>4. Connecting(0, TRUE, AfterClose(socket), AfterReject(Handshaking))
    BY <1>4 DEF ReconnectNow
  <2>5. 0 \in 0..opened
    BY DEF DataOK
  <2> QED
    <3>1. /\ phase' \in Phases
          /\ connectPromise' \in 0..opened'
          /\ socket' \in 0..opened'
          /\ opened' \in 0..MaxSockets
          /\ readyState' \in [Sockets -> ReadyStates]
          /\ promise' \in [Sockets -> Promises]
      BY <2>1, <2>2, <2>4, <2>5, ConnectingType
    <3>2. attempt' = 0 /\ sequence' = sequence
      BY <1>4 DEF ReconnectNow
    <3> QED
      BY <2>3, <3>1, <3>2 DEF DataOK
<1>5. ASSUME NEW timed \in BOOLEAN, Request(timed)
      PROVE  DataOK'
  <2>1. call' \in [Ids -> Calls]
    BY <1>5 DEF Request, Send, DataOK, Calls, Ids, Sockets
  <2> QED
    BY <1>5, <2>1 DEF Request, Send, DataOK
<1>6. ASSUME NEW s \in Sockets, Open(s)
      PROVE  DataOK'
  BY <1>6 DEF Open, DataOK, Calls, Ids, Phases, ReadyStates
<1>7. ASSUME NEW s \in Sockets, StaleOpen(s)
      PROVE  DataOK'
  <2>1. promise' \in [Sockets -> Promises]
    BY <1>7, AfterRejectType DEF StaleOpen, DataOK
  <2>2. connectPromise' \in 0..opened
    BY <1>7, ClearConnectionType DEF StaleOpen
  <2> QED
    BY <1>7, <2>1, <2>2 DEF StaleOpen, DataOK
<1>8. ASSUME NEW s \in Sockets, PeerClosing(s)
      PROVE  DataOK'
  BY <1>8 DEF PeerClosing, DataOK, ReadyStates
<1>9. ASSUME NEW s \in Sockets, CloseEvent(s)
      PROVE  DataOK'
  <2>1. promise' \in [Sockets -> Promises]
    BY <1>9, AfterRejectType DEF CloseEvent, DataOK
  <2>2. connectPromise' \in 0..opened
    BY <1>9, ClearConnectionType DEF CloseEvent
  <2>3. pending' = {} /\ call' \in [Ids -> Calls]
    BY <1>9, RejectPendingType DEF CloseEvent
  <2>4. phase' \in Phases /\ attempt' \in 0..MaxAttempts
    BY <1>9 DEF CloseEvent, ScheduleReconnect, DataOK, Phases
  <2>5. readyState' \in [Sockets -> ReadyStates]
    BY <1>9 DEF CloseEvent, DataOK, ReadyStates
  <2> QED
    <3>1. socket' = 0 /\ opened' = opened /\ sequence' = sequence
      BY <1>9 DEF CloseEvent
    <3> QED
      BY <2>1, <2>2, <2>3, <2>4, <2>5, <3>1 DEF DataOK
<1>10. ASSUME NEW s \in Sockets, StaleCloseEvent(s)
       PROVE  DataOK'
  <2>1. promise' \in [Sockets -> Promises]
    BY <1>10, AfterRejectType DEF StaleCloseEvent, DataOK
  <2>2. connectPromise' \in 0..opened
    BY <1>10, ClearConnectionType DEF StaleCloseEvent
  <2> QED
    BY <1>10, <2>1, <2>2 DEF StaleCloseEvent, DataOK, ReadyStates
<1>11. ASSUME NEW s \in Sockets, NEW id \in Ids, NEW outcome \in {"ok", "rejected"},
              Response(s, id, outcome)
       PROVE  DataOK'
  <2>1. pending' \in SUBSET (1..sequence) /\ call' \in [Ids -> Calls]
    BY <1>11, SettleType DEF Response
  <2> QED
    BY <1>11, <2>1 DEF Response, DataOK
<1>12. ASSUME NEW s \in Sockets, NEW id \in Ids, Initialized(s, id)
       PROVE  DataOK'
  <2>1. pending' \in SUBSET (1..sequence) /\ call' \in [Ids -> Calls]
    BY <1>12, SettleType DEF Initialized
  <2>2. connectPromise' \in 0..opened
    BY <1>12, ClearConnectionType DEF Initialized
  <2> QED
    BY <1>12, <2>1, <2>2 DEF Initialized, DataOK, Phases, Promises
<1>13. ASSUME NEW s \in Sockets, NEW id \in Ids, InitializeRefused(s, id)
       PROVE  DataOK'
  <2>1. pending' \in SUBSET (1..sequence) /\ call' \in [Ids -> Calls]
    BY <1>13, SettleType DEF InitializeRefused
  <2>2. /\ readyState' \in [Sockets -> ReadyStates]
        /\ promise' \in [Sockets -> Promises]
        /\ connectPromise' \in 0..opened
    BY <1>13, HandshakeFailsType DEF InitializeRefused
  <2> QED
    BY <1>13, <2>1, <2>2 DEF InitializeRefused, DataOK
<1>14. ASSUME NEW id \in Ids, RequestTimeout(id)
       PROVE  DataOK'
  <2>1. pending' \in SUBSET (1..sequence) /\ call' \in [Ids -> Calls]
    BY <1>14, SettleType DEF RequestTimeout
  <2>2. /\ readyState' \in [Sockets -> ReadyStates]
        /\ promise' \in [Sockets -> Promises]
        /\ connectPromise' \in 0..opened
    BY <1>14, HandshakeFailsType DEF RequestTimeout, DataOK
  <2> QED
    BY <1>14, <2>1, <2>2 DEF RequestTimeout, DataOK
<1>15. CASE TimerFires
  <2>1. CASE Connecting(socket, attempt > 0 \/ phase = "reconnecting", readyState, promise)
    <3>1. /\ socket \in 0..opened
          /\ readyState \in [Sockets -> ReadyStates]
          /\ promise \in [Sockets -> Promises]
      BY DEF DataOK
    <3> QED
      BY <1>15, <2>1, <3>1, ConnectingType DEF TimerFires, DataOK
  <2>2. CASE UNCHANGED <<phase, manuallyClosed, connectPromise, socket, opened,
                         readyState, promise>>
    BY <1>15, <2>2 DEF TimerFires, DataOK
  <2> QED
    BY <1>15, <2>1, <2>2 DEF TimerFires
<1>16. CASE GoOnline
  <2>1. CASE NewSocket(TRUE, readyState, promise)
    <3>1. readyState \in [Sockets -> ReadyStates] /\ promise \in [Sockets -> Promises]
      BY DEF DataOK
    <3>2. UNCHANGED <<attempt, sequence, pending, call>>
      BY <1>16 DEF GoOnline
    <3> QED
      BY <2>1, <3>1, <3>2, NewSocketType DEF DataOK
  <2>2. CASE UNCHANGED <<connectPromise, socket, opened, readyState, promise>>
             /\ phase' \in {phase, "reconnecting"}
    BY <1>16, <2>2 DEF GoOnline, DataOK, Phases
  <2> QED
    BY <1>16, <2>1, <2>2 DEF GoOnline
<1>17. CASE GoOffline
  BY <1>17 DEF GoOffline, DataOK, Phases
<1> QED
  BY <1>1, <1>2, <1>3, <1>4, <1>5, <1>6, <1>7, <1>8, <1>9, <1>10, <1>11, <1>12,
     <1>13, <1>14, <1>15, <1>16, <1>17
  DEF Next, StoreStep, SocketStep, TimeStep, UserDisconnect, Destroy

\* Every variable of the client keeps its type, whatever the order of user
\* actions, socket events, timers and network changes.
THEOREM TypeCorrect == Spec => []TypeOK
<1>1. Init => FlagsOK
  BY Zenon DEF Init, FlagsOK
<1>2. Init => DataOK
  BY DEF Init, DataOK, Phases, ReadyStates, Promises, Calls, NoCall
<1>3. TypeOK /\ [Next]_vars => TypeOK'
  BY FlagsStep, DataStep DEF TypeOK
<1> QED
  BY <1>1, <1>2, <1>3, PTL DEF Spec, TypeOK

-----------------------------------------------------------------------------
(* The inductive invariant: what the requests, the sockets and the phase    *)
(* must satisfy together.  Each group needs the others: a retry timer is    *)
(* exclusive because connectPromise belongs to the current socket, and a    *)
(* pending initialize request belongs to both because a socket has one.     *)

RequestsInv == PendingExact /\ NothingPendingWithoutSocket /\ FreshIds
SocketsInv == FreshSockets /\ CurrentSocket /\ ConnectPromiseLive
PhaseInv == TimerExclusive /\ ManualCloseHolds /\ ReadyIsInitialized
IInv == DataOK /\ RequestsInv /\ SocketsInv /\ PhaseInv /\ OneHandshake

\* connect() opens a socket or finds the device offline.
LEMMA ConnectKeeps ==
    ASSUME IInv, DataOK', Connect
    PROVE  IInv'
<1> USE DEF IInv, DataOK, Connect, Connecting, NewSocket, NoSocket
<1>1. RequestsInv'
  BY DEF RequestsInv, Ids, Calls, PendingExact, NothingPendingWithoutSocket,
     FreshIds
<1>2. SocketsInv'
  <2>1. FreshSockets'
    BY DEF SocketsInv, Sockets, FreshSockets, CurrentSocket,
       ConnectPromiseLive
  <2>2. CurrentSocket'
    <3>1. CASE NoSocket(socket, readyState, promise)
      BY <3>1 DEF SocketsInv, CurrentSocket
    <3>2. CASE NewSocket(attempt > 0 \/ phase = "reconnecting", readyState, promise)
      BY <3>2 DEF CurrentSocket, Sockets
    <3> QED
      BY <3>1, <3>2
  <2>3. ConnectPromiseLive'
    BY DEF SocketsInv, Sockets, CurrentSocket, ConnectPromiseLive
  <2> QED
    BY <2>1, <2>2, <2>3 DEF SocketsInv
<1>3. PhaseInv'
  BY DEF PhaseInv, SocketsInv, CurrentSocket, ConnectPromiseLive,
     OneHandshake, TimerExclusive, ManualCloseHolds, ReadyIsInitialized
<1>4. OneHandshake'
  BY DEF OneHandshake, SocketsInv, CurrentSocket, RequestsInv, PendingExact,
     NothingPendingWithoutSocket, FreshIds, Ids, Calls
<1> QED
  BY <1>1, <1>2, <1>3, <1>4

\* disconnect() and destroy().
LEMMA DisconnectKeeps ==
    ASSUME IInv, DataOK', Disconnect
    PROVE  IInv'
<1> USE DEF IInv, DataOK, Disconnect, AfterClose, RejectPending, Handshaking,
           AfterReject, ClearConnection
<1>1. RequestsInv'
  BY DEF RequestsInv, Ids, Calls, PendingExact, NothingPendingWithoutSocket,
     FreshIds
<1>2. SocketsInv'
  BY DEF SocketsInv, Sockets, FreshSockets, CurrentSocket, ConnectPromiseLive
<1>3. PhaseInv'
  BY DEF PhaseInv, SocketsInv, CurrentSocket, ConnectPromiseLive,
     OneHandshake, TimerExclusive, ManualCloseHolds, ReadyIsInitialized
<1>4. OneHandshake'
  BY DEF OneHandshake, SocketsInv, CurrentSocket, RequestsInv, PendingExact,
     NothingPendingWithoutSocket, FreshIds, Ids, Calls
<1> QED
  BY <1>1, <1>2, <1>3, <1>4

\* reconnectNow() replaces the socket and rejects what waits on it.
LEMMA ReconnectNowKeeps ==
    ASSUME IInv, DataOK', ReconnectNow
    PROVE  IInv'
<1> USE DEF IInv, DataOK, ReconnectNow, Connecting, NewSocket, NoSocket,
           AfterClose, RejectPending, Handshaking, AfterReject,
           ClearConnection
<1>1. RequestsInv'
  BY DEF RequestsInv, Ids, Calls, PendingExact, NothingPendingWithoutSocket,
     FreshIds
<1>2. SocketsInv'
  <2>1. FreshSockets'
    <3>1. ASSUME NEW s \in Sockets, s > opened
          PROVE  AfterClose(socket)[s] = "unopened" /\ AfterReject(Handshaking)[s] = "none"
      BY <3>1 DEF SocketsInv, FreshSockets
    <3> HIDE DEF AfterClose, AfterReject, Handshaking
    <3>2. CASE NoSocket(0, AfterClose(socket), AfterReject(Handshaking))
      BY <3>1, <3>2 DEF FreshSockets
    <3>3. CASE NewSocket(TRUE, AfterClose(socket), AfterReject(Handshaking))
      BY <3>1, <3>3 DEF FreshSockets, Sockets
    <3> QED
      BY <3>2, <3>3
  <2>2. CurrentSocket'
    BY DEF SocketsInv, Sockets, CurrentSocket, ConnectPromiseLive
  <2>3. ConnectPromiseLive'
    BY DEF SocketsInv, Sockets, CurrentSocket, ConnectPromiseLive
  <2> QED
    BY <2>1, <2>2, <2>3 DEF SocketsInv
<1>3. PhaseInv'
  BY DEF PhaseInv, SocketsInv, CurrentSocket, ConnectPromiseLive,
     OneHandshake, TimerExclusive, ManualCloseHolds, ReadyIsInitialized
<1>4. OneHandshake'
  BY DEF OneHandshake, SocketsInv, CurrentSocket, RequestsInv, PendingExact,
     NothingPendingWithoutSocket, FreshIds, Ids, Calls
<1> QED
  BY <1>1, <1>2, <1>3, <1>4

\* request() adds one pending entry.
LEMMA RequestKeeps ==
    ASSUME IInv, DataOK', NEW timed \in BOOLEAN, Request(timed)
    PROVE  IInv'
<1> USE DEF IInv, DataOK, Request, Send
<1>1. RequestsInv'
  BY DEF RequestsInv, Ids, Calls, PendingExact, NothingPendingWithoutSocket,
     FreshIds
<1>2. SocketsInv'
  BY DEF SocketsInv, Sockets, FreshSockets, CurrentSocket, ConnectPromiseLive
<1>3. PhaseInv'
  BY DEF PhaseInv, SocketsInv, CurrentSocket, ConnectPromiseLive,
     OneHandshake, TimerExclusive, ManualCloseHolds, ReadyIsInitialized
<1>4. OneHandshake'
  BY DEF OneHandshake, SocketsInv, CurrentSocket, RequestsInv, PendingExact,
     NothingPendingWithoutSocket, FreshIds, Ids, Calls
<1> QED
  BY <1>1, <1>2, <1>3, <1>4

\* The open event sends the only initialize request of its socket.
LEMMA OpenKeeps ==
    ASSUME IInv, DataOK', NEW s \in Sockets, Open(s)
    PROVE  IInv'
<1> USE DEF IInv, DataOK, Open
<1>1. RequestsInv'
  <2>1. PendingExact'
    BY DEF RequestsInv, Ids, Calls, PendingExact, Sockets
  <2>2. NothingPendingWithoutSocket'
    BY DEF RequestsInv, Ids, Calls, NothingPendingWithoutSocket, Sockets
  <2>3. FreshIds'
    BY DEF RequestsInv, Ids, Calls, FreshIds, Sockets
  <2> QED
    BY <2>1, <2>2, <2>3 DEF RequestsInv
<1>2. SocketsInv'
  BY DEF SocketsInv, Sockets, FreshSockets, CurrentSocket, ConnectPromiseLive
<1>3. PhaseInv'
  <2>1. TimerExclusive'
    BY DEF PhaseInv, SocketsInv, CurrentSocket, ConnectPromiseLive,
       OneHandshake, TimerExclusive, ManualCloseHolds, ReadyIsInitialized,
       Sockets
  <2>2. ManualCloseHolds'
    BY DEF PhaseInv, SocketsInv, CurrentSocket, ConnectPromiseLive,
       OneHandshake, TimerExclusive, ManualCloseHolds, ReadyIsInitialized,
       Sockets
  <2>3. ReadyIsInitialized'
    BY DEF PhaseInv, SocketsInv, CurrentSocket, ConnectPromiseLive,
       OneHandshake, TimerExclusive, ManualCloseHolds, ReadyIsInitialized,
       Sockets
  <2> QED
    BY <2>1, <2>2, <2>3 DEF PhaseInv
<1>4. OneHandshake'
  <2>1. readyState[socket] = "connecting" /\ connectPromise = socket /\ socket # 0
    BY DEF SocketsInv, CurrentSocket, Sockets
  <2>2. \A id \in pending : call[id].method # "initialize" /\ call'[id] = call[id]
    BY <2>1 DEF OneHandshake, Ids
  <2>3. call'[sequence + 1].sock = socket
    BY DEF Ids
  <2> QED
    BY <2>1, <2>2, <2>3 DEF OneHandshake
<1> QED
  BY <1>1, <1>2, <1>3, <1>4

\* A late open of a replaced socket touches that socket only.
LEMMA StaleOpenKeeps ==
    ASSUME IInv, DataOK', NEW s \in Sockets, StaleOpen(s)
    PROVE  IInv'
<1> USE DEF IInv, DataOK, StaleOpen, AfterReject, ClearConnection
<1>1. RequestsInv'
  BY DEF RequestsInv, Ids, Calls, PendingExact, NothingPendingWithoutSocket,
     FreshIds
<1>2. SocketsInv'
  <2>1. FreshSockets'
    BY DEF SocketsInv, Sockets, FreshSockets, CurrentSocket,
       ConnectPromiseLive
  <2>2. CurrentSocket'
    BY DEF SocketsInv, Sockets, CurrentSocket, ConnectPromiseLive
  <2>3. ConnectPromiseLive'
    BY DEF SocketsInv, Sockets, CurrentSocket, ConnectPromiseLive
  <2> QED
    BY <2>1, <2>2, <2>3 DEF SocketsInv
<1>3. PhaseInv'
  <2>1. TimerExclusive'
    BY DEF PhaseInv, SocketsInv, CurrentSocket, ConnectPromiseLive,
       OneHandshake, TimerExclusive, ManualCloseHolds, ReadyIsInitialized,
       Sockets
  <2>2. ManualCloseHolds'
    BY DEF PhaseInv, SocketsInv, CurrentSocket, ConnectPromiseLive,
       OneHandshake, TimerExclusive, ManualCloseHolds, ReadyIsInitialized,
       Sockets
  <2>3. ReadyIsInitialized'
    BY DEF PhaseInv, SocketsInv, CurrentSocket, ConnectPromiseLive,
       OneHandshake, TimerExclusive, ManualCloseHolds, ReadyIsInitialized,
       Sockets
  <2> QED
    BY <2>1, <2>2, <2>3 DEF PhaseInv
<1>4. OneHandshake'
  BY DEF OneHandshake, SocketsInv, CurrentSocket, RequestsInv, PendingExact,
     NothingPendingWithoutSocket, FreshIds, Ids, Calls
<1> QED
  BY <1>1, <1>2, <1>3, <1>4

\* The closing handshake changes a ready state only.
LEMMA PeerClosingKeeps ==
    ASSUME IInv, DataOK', NEW s \in Sockets, PeerClosing(s)
    PROVE  IInv'
<1> USE DEF IInv, DataOK, PeerClosing
<1>1. RequestsInv'
  BY DEF RequestsInv, Ids, Calls, PendingExact, NothingPendingWithoutSocket,
     FreshIds
<1>2. SocketsInv'
  BY DEF SocketsInv, Sockets, FreshSockets, CurrentSocket, ConnectPromiseLive
<1>3. PhaseInv'
  BY DEF PhaseInv, SocketsInv, CurrentSocket, ConnectPromiseLive,
     OneHandshake, TimerExclusive, ManualCloseHolds, ReadyIsInitialized
<1>4. OneHandshake'
  BY DEF OneHandshake, SocketsInv, CurrentSocket, RequestsInv, PendingExact,
     NothingPendingWithoutSocket, FreshIds, Ids, Calls
<1> QED
  BY <1>1, <1>2, <1>3, <1>4

\* The close event of the current socket ends everything waiting on it.
LEMMA CloseEventKeeps ==
    ASSUME IInv, DataOK', NEW s \in Sockets, CloseEvent(s)
    PROVE  IInv'
<1> USE DEF IInv, DataOK, CloseEvent, RejectPending, Handshaking, AfterReject,
           ClearConnection, ScheduleReconnect
<1>1. RequestsInv'
  BY DEF RequestsInv, Ids, Calls, PendingExact, NothingPendingWithoutSocket,
     FreshIds
<1>2. SocketsInv'
  BY DEF SocketsInv, Sockets, FreshSockets, CurrentSocket, ConnectPromiseLive
<1>3. PhaseInv'
  <2>1. TimerExclusive'
    <3>1. socket' = 0 /\ connectPromise' = 0
      BY DEF SocketsInv, CurrentSocket, Sockets
    <3>2. CASE manuallyClosed
      BY <3>2 DEF PhaseInv, ManualCloseHolds, Sockets
    <3>3. CASE ~manuallyClosed
      BY <3>1, <3>3 DEF TimerExclusive
    <3> QED
      BY <3>2, <3>3
  <2>2. ManualCloseHolds'
    BY DEF PhaseInv, SocketsInv, CurrentSocket, ConnectPromiseLive,
       OneHandshake, TimerExclusive, ManualCloseHolds, ReadyIsInitialized,
       Sockets
  <2>3. ReadyIsInitialized'
    BY DEF PhaseInv, SocketsInv, CurrentSocket, ConnectPromiseLive,
       OneHandshake, TimerExclusive, ManualCloseHolds, ReadyIsInitialized,
       Sockets
  <2> QED
    BY <2>1, <2>2, <2>3 DEF PhaseInv
<1>4. OneHandshake'
  BY DEF OneHandshake, SocketsInv, CurrentSocket, RequestsInv, PendingExact,
     NothingPendingWithoutSocket, FreshIds, Ids, Calls
<1> QED
  BY <1>1, <1>2, <1>3, <1>4

\* The close event of a replaced socket touches that socket only.
LEMMA StaleCloseEventKeeps ==
    ASSUME IInv, DataOK', NEW s \in Sockets, StaleCloseEvent(s)
    PROVE  IInv'
<1> USE DEF IInv, DataOK, StaleCloseEvent, AfterReject, ClearConnection
<1>1. RequestsInv'
  BY DEF RequestsInv, Ids, Calls, PendingExact, NothingPendingWithoutSocket,
     FreshIds
<1>2. SocketsInv'
  <2>1. FreshSockets'
    BY DEF SocketsInv, Sockets, FreshSockets, CurrentSocket,
       ConnectPromiseLive
  <2>2. CurrentSocket'
    BY DEF SocketsInv, Sockets, CurrentSocket, ConnectPromiseLive
  <2>3. ConnectPromiseLive'
    BY DEF SocketsInv, Sockets, CurrentSocket, ConnectPromiseLive
  <2> QED
    BY <2>1, <2>2, <2>3 DEF SocketsInv
<1>3. PhaseInv'
  <2>1. TimerExclusive'
    BY DEF PhaseInv, SocketsInv, CurrentSocket, ConnectPromiseLive,
       OneHandshake, TimerExclusive, ManualCloseHolds, ReadyIsInitialized,
       Sockets
  <2>2. ManualCloseHolds'
    BY DEF PhaseInv, SocketsInv, CurrentSocket, ConnectPromiseLive,
       OneHandshake, TimerExclusive, ManualCloseHolds, ReadyIsInitialized,
       Sockets
  <2>3. ReadyIsInitialized'
    BY DEF PhaseInv, SocketsInv, CurrentSocket, ConnectPromiseLive,
       OneHandshake, TimerExclusive, ManualCloseHolds, ReadyIsInitialized,
       Sockets
  <2> QED
    BY <2>1, <2>2, <2>3 DEF PhaseInv
<1>4. OneHandshake'
  BY DEF OneHandshake, SocketsInv, CurrentSocket, RequestsInv, PendingExact,
     NothingPendingWithoutSocket, FreshIds, Ids, Calls
<1> QED
  BY <1>1, <1>2, <1>3, <1>4

\* An answer settles one request.
LEMMA ResponseKeeps ==
    ASSUME IInv, DataOK', NEW s \in Sockets, NEW id \in Ids, NEW outcome \in {"ok", "rejected"}, Response(s, id, outcome)
    PROVE  IInv'
<1> USE DEF IInv, DataOK, Response, Settle, Answers
<1>1. RequestsInv'
  BY DEF RequestsInv, Ids, Calls, PendingExact, NothingPendingWithoutSocket,
     FreshIds
<1>2. SocketsInv'
  BY DEF SocketsInv, Sockets, FreshSockets, CurrentSocket, ConnectPromiseLive
<1>3. PhaseInv'
  BY DEF PhaseInv, SocketsInv, CurrentSocket, ConnectPromiseLive,
     OneHandshake, TimerExclusive, ManualCloseHolds, ReadyIsInitialized
<1>4. OneHandshake'
  BY DEF OneHandshake, SocketsInv, CurrentSocket, RequestsInv, PendingExact,
     NothingPendingWithoutSocket, FreshIds, Ids, Calls
<1> QED
  BY <1>1, <1>2, <1>3, <1>4

\* The initialize result makes the current socket ready.
LEMMA InitializedKeeps ==
    ASSUME IInv, DataOK', NEW s \in Sockets, NEW id \in Ids, Initialized(s, id)
    PROVE  IInv'
<1> USE DEF IInv, DataOK, Initialized, Settle, Answers, ClearConnection
<1>1. RequestsInv'
  BY DEF RequestsInv, Ids, Calls, PendingExact, NothingPendingWithoutSocket,
     FreshIds
<1>2. SocketsInv'
  BY DEF SocketsInv, Sockets, FreshSockets, CurrentSocket, ConnectPromiseLive
<1>3. PhaseInv'
  <2>1. TimerExclusive'
    BY DEF PhaseInv, SocketsInv, CurrentSocket, ConnectPromiseLive,
       OneHandshake, TimerExclusive, ManualCloseHolds, ReadyIsInitialized,
       Sockets
  <2>2. ManualCloseHolds'
    BY DEF PhaseInv, SocketsInv, CurrentSocket, ConnectPromiseLive,
       OneHandshake, TimerExclusive, ManualCloseHolds, ReadyIsInitialized,
       Sockets
  <2>3. ReadyIsInitialized'
    BY DEF PhaseInv, SocketsInv, CurrentSocket, ConnectPromiseLive,
       OneHandshake, TimerExclusive, ManualCloseHolds, ReadyIsInitialized,
       Sockets
  <2> QED
    BY <2>1, <2>2, <2>3 DEF PhaseInv
<1>4. OneHandshake'
  BY DEF OneHandshake, SocketsInv, CurrentSocket, RequestsInv, PendingExact,
     NothingPendingWithoutSocket, FreshIds, Ids, Calls
<1> QED
  BY <1>1, <1>2, <1>3, <1>4

\* An initialize error gives the current socket up.
LEMMA InitializeRefusedKeeps ==
    ASSUME IInv, DataOK', NEW s \in Sockets, NEW id \in Ids, InitializeRefused(s, id)
    PROVE  IInv'
<1> USE DEF IInv, DataOK, InitializeRefused, Settle, Answers, HandshakeFails,
           AfterClose, AfterReject, ClearConnection
<1>1. RequestsInv'
  BY DEF RequestsInv, Ids, Calls, PendingExact, NothingPendingWithoutSocket,
     FreshIds
<1>2. SocketsInv'
  BY DEF SocketsInv, Sockets, FreshSockets, CurrentSocket, ConnectPromiseLive
<1>3. PhaseInv'
  BY DEF PhaseInv, SocketsInv, CurrentSocket, ConnectPromiseLive,
     OneHandshake, TimerExclusive, ManualCloseHolds, ReadyIsInitialized
<1>4. OneHandshake'
  BY DEF OneHandshake, SocketsInv, CurrentSocket, RequestsInv, PendingExact,
     NothingPendingWithoutSocket, FreshIds, Ids, Calls
<1> QED
  BY <1>1, <1>2, <1>3, <1>4

\* A timeout settles one request.
LEMMA RequestTimeoutKeeps ==
    ASSUME IInv, DataOK', NEW id \in Ids, RequestTimeout(id)
    PROVE  IInv'
<1> USE DEF IInv, DataOK, RequestTimeout, Settle, HandshakeFails, AfterClose,
           AfterReject, ClearConnection
<1>1. RequestsInv'
  BY DEF RequestsInv, Ids, Calls, PendingExact, NothingPendingWithoutSocket,
     FreshIds
<1>2. SocketsInv'
  BY DEF SocketsInv, Sockets, FreshSockets, CurrentSocket, ConnectPromiseLive
<1>3. PhaseInv'
  BY DEF PhaseInv, SocketsInv, CurrentSocket, ConnectPromiseLive,
     OneHandshake, TimerExclusive, ManualCloseHolds, ReadyIsInitialized
<1>4. OneHandshake'
  BY DEF OneHandshake, SocketsInv, CurrentSocket, RequestsInv, PendingExact,
     NothingPendingWithoutSocket, FreshIds, Ids, Calls
<1> QED
  BY <1>1, <1>2, <1>3, <1>4

\* The retry timer connects.
LEMMA TimerFiresKeeps ==
    ASSUME IInv, DataOK', TimerFires
    PROVE  IInv'
<1> USE DEF IInv, DataOK, TimerFires, Connecting, NewSocket, NoSocket
<1>1. RequestsInv'
  BY DEF RequestsInv, Ids, Calls, PendingExact, NothingPendingWithoutSocket,
     FreshIds
<1>2. SocketsInv'
  BY DEF SocketsInv, Sockets, FreshSockets, CurrentSocket, ConnectPromiseLive
<1>3. PhaseInv'
  BY DEF PhaseInv, SocketsInv, CurrentSocket, ConnectPromiseLive,
     OneHandshake, TimerExclusive, ManualCloseHolds, ReadyIsInitialized
<1>4. OneHandshake'
  BY DEF OneHandshake, SocketsInv, CurrentSocket, RequestsInv, PendingExact,
     NothingPendingWithoutSocket, FreshIds, Ids, Calls
<1> QED
  BY <1>1, <1>2, <1>3, <1>4

\* The online event connects unless a connection is ready or on its way.
LEMMA GoOnlineKeeps ==
    ASSUME IInv, DataOK', GoOnline
    PROVE  IInv'
<1> USE DEF IInv, DataOK, GoOnline, NewSocket
<1>1. RequestsInv'
  BY DEF RequestsInv, Ids, Calls, PendingExact, NothingPendingWithoutSocket,
     FreshIds
<1>2. SocketsInv'
  BY DEF SocketsInv, Sockets, FreshSockets, CurrentSocket, ConnectPromiseLive
<1>3. PhaseInv'
  BY DEF PhaseInv, SocketsInv, CurrentSocket, ConnectPromiseLive,
     OneHandshake, TimerExclusive, ManualCloseHolds, ReadyIsInitialized
<1>4. OneHandshake'
  BY DEF OneHandshake, SocketsInv, CurrentSocket, RequestsInv, PendingExact,
     NothingPendingWithoutSocket, FreshIds, Ids, Calls
<1> QED
  BY <1>1, <1>2, <1>3, <1>4

\* The offline event stops the timer.
LEMMA GoOfflineKeeps ==
    ASSUME IInv, DataOK', GoOffline
    PROVE  IInv'
<1> USE DEF IInv, DataOK, GoOffline
<1>1. RequestsInv'
  BY DEF RequestsInv, Ids, Calls, PendingExact, NothingPendingWithoutSocket,
     FreshIds
<1>2. SocketsInv'
  BY DEF SocketsInv, Sockets, FreshSockets, CurrentSocket, ConnectPromiseLive
<1>3. PhaseInv'
  BY DEF PhaseInv, SocketsInv, CurrentSocket, ConnectPromiseLive,
     OneHandshake, TimerExclusive, ManualCloseHolds, ReadyIsInitialized
<1>4. OneHandshake'
  BY DEF OneHandshake, SocketsInv, CurrentSocket, RequestsInv, PendingExact,
     NothingPendingWithoutSocket, FreshIds, Ids, Calls
<1> QED
  BY <1>1, <1>2, <1>3, <1>4

\* Every step keeps the inductive invariant.
LEMMA InvariantStep ==
    ASSUME IInv, [Next]_vars
    PROVE  IInv'
<1>1. DataOK'
  BY DataStep DEF IInv
<1>2. CASE UNCHANGED vars
  BY <1>2 DEF vars, IInv, DataOK, RequestsInv, SocketsInv, PhaseInv, OneHandshake,
     PendingExact, NothingPendingWithoutSocket, FreshIds, FreshSockets, CurrentSocket,
     ConnectPromiseLive, TimerExclusive, ManualCloseHolds, ReadyIsInitialized
<1>3. CASE StoreStep
  BY <1>1, <1>3, ConnectKeeps, DisconnectKeeps, ReconnectNowKeeps, RequestKeeps
  DEF StoreStep, UserDisconnect, Destroy
<1>4. CASE SocketStep
  BY <1>1, <1>4, OpenKeeps, StaleOpenKeeps, PeerClosingKeeps, CloseEventKeeps,
     StaleCloseEventKeeps, ResponseKeeps, InitializedKeeps, InitializeRefusedKeeps
  DEF SocketStep
<1>5. CASE TimeStep
  BY <1>1, <1>5, RequestTimeoutKeeps, TimerFiresKeeps, GoOnlineKeeps, GoOfflineKeeps
  DEF TimeStep
<1> QED
  BY <1>2, <1>3, <1>4, <1>5 DEF Next

\* A client that has done nothing satisfies the inductive invariant.
LEMMA InvariantInit ==
    ASSUME Init
    PROVE  IInv
<1>1. DataOK
  BY DEF Init, DataOK, Phases, ReadyStates, Promises, Calls, NoCall
<1>2. RequestsInv
  BY DEF Init, RequestsInv, PendingExact, NothingPendingWithoutSocket, FreshIds, NoCall
<1>3. SocketsInv
  BY DEF Init, SocketsInv, FreshSockets, CurrentSocket, ConnectPromiseLive
<1>4. PhaseInv
  BY DEF Init, PhaseInv, TimerExclusive, ManualCloseHolds, ReadyIsInitialized
<1>5. OneHandshake
  BY DEF Init, OneHandshake
<1> QED
  BY <1>1, <1>2, <1>3, <1>4, <1>5 DEF IInv

\* The inductive invariant holds throughout.
LEMMA Invariant == Spec => []IInv
<1>1. Init => IInv
  BY InvariantInit
<1>2. IInv /\ [Next]_vars => IInv'
  BY InvariantStep
<1> QED
  BY <1>1, <1>2, PTL DEF Spec

\* No request is forgotten, in any interleaving of calls, timeouts,
\* reconnects and late socket events.
THEOREM NoRequestForgotten == Spec => []PendingExact
<1>1. IInv => PendingExact
  BY DEF IInv, RequestsInv
<1> QED
  BY <1>1, Invariant, PTL

\* There is one reconnect loop: an armed retry timer excludes a socket, a
\* connection attempt and a manual close; connectPromise is never a settled
\* promise; nothing is current after disconnect().
THEOREM OneReconnectLoop == Spec => []OneLoop
<1>1. IInv => OneLoop
  BY DEF IInv, SocketsInv, PhaseInv, OneLoop
<1> QED
  BY <1>1, Invariant, PTL

\* The phase shown as ready is that of a socket whose handshake completed.
THEOREM ReadyIsTruthful == Spec => []ReadyIsInitialized
<1>1. IInv => ReadyIsInitialized
  BY DEF IInv, PhaseInv
<1> QED
  BY <1>1, Invariant, PTL

\* At most one handshake is in flight, that of the current socket.
THEOREM HandshakesExclusive == Spec => []ConnectionInv
<1>1. IInv => ConnectionInv
  BY DEF IInv, RequestsInv, SocketsInv, ConnectionInv
<1> QED
  BY <1>1, Invariant, PTL

-----------------------------------------------------------------------------
(* Action properties.                                                       *)

\* Whatever happens, what is settled stays settled.
LEMMA CallsSettledOnce ==
    ASSUME IInv, [Next]_vars, NEW i \in Ids, call[i].outcome \in {"ok", "rejected"}
    PROVE  call'[i] = call[i]
<1> USE DEF IInv, RequestsInv
<1>1. i \notin pending /\ i # sequence + 1
  <2>1. i \notin pending
    BY DEF PendingExact
  <2>2. i # sequence + 1
    BY DEF FreshIds, NoCall, DataOK, Ids
  <2> QED
    BY <2>1, <2>2
<1>2. CASE UNCHANGED vars
  BY <1>2 DEF vars
<1>3. CASE StoreStep
  BY <1>1, <1>3 DEF StoreStep, Connect, UserDisconnect, Destroy, Disconnect, ReconnectNow,
     RejectPending, Request, Send, DataOK
<1>4. CASE SocketStep
  BY <1>1, <1>4 DEF SocketStep, Open, StaleOpen, PeerClosing, CloseEvent, StaleCloseEvent,
     Response, Initialized, InitializeRefused, RejectPending, Settle, DataOK
<1>5. CASE TimeStep
  BY <1>1, <1>5 DEF TimeStep, RequestTimeout, Settle, TimerFires, GoOnline, GoOffline, DataOK
<1> QED
  BY <1>2, <1>3, <1>4, <1>5 DEF Next

\* What openSocket's promise settled to, it keeps.
LEMMA PromisesSettledOnce ==
    ASSUME IInv, [Next]_vars, NEW t \in Sockets, promise[t] \in {"resolved", "rejected"}
    PROVE  promise'[t] = promise[t]
<1> USE DEF IInv, SocketsInv
<1>1. t # opened + 1
  BY DEF FreshSockets, DataOK, Sockets
<1>2. \A S : AfterReject(S)[t] = promise[t]
  BY DEF AfterReject
<1>3. CASE UNCHANGED vars
  BY <1>3 DEF vars
<1>4. ASSUME NEW retrying, NEW ready, NEW prom, NewSocket(retrying, ready, prom),
             prom[t] = promise[t], prom \in [Sockets -> Promises]
      PROVE  promise'[t] = promise[t]
  BY <1>1, <1>4 DEF NewSocket
<1>5. ASSUME NEW current, NEW retrying, NEW ready, NEW prom,
             Connecting(current, retrying, ready, prom),
             prom[t] = promise[t], prom \in [Sockets -> Promises]
      PROVE  promise'[t] = promise[t]
  BY <1>4, <1>5 DEF Connecting, NoSocket
<1>6. promise \in [Sockets -> Promises]
  BY DEF DataOK
<1>7. CASE StoreStep
  <2>1. CASE Connect
    BY <1>5, <1>6, <2>1 DEF Connect
  <2>2. CASE Disconnect
    BY <1>2, <2>2 DEF Disconnect
  <2>3. CASE ReconnectNow
    <3>1. AfterReject(Handshaking) \in [Sockets -> Promises]
      BY <1>6 DEF AfterReject, Promises
    <3> QED
      BY <1>2, <1>5, <2>3, <3>1 DEF ReconnectNow
  <2>4. CASE \E timed \in BOOLEAN : Request(timed)
    BY <2>4 DEF Request
  <2> QED
    BY <1>7, <2>1, <2>2, <2>3, <2>4 DEF StoreStep, UserDisconnect, Destroy
<1>8. CASE SocketStep
  <2>1. ASSUME NEW s \in Sockets, NEW id \in Ids, Initialized(s, id)
        PROVE  promise'[t] = promise[t]
    <3>1. promise[s] = "pending"
      BY <2>1 DEF Initialized, Answers, OneHandshake, ConnectPromiseLive, DataOK, Sockets
    <3> QED
      BY <2>1, <3>1, <1>6 DEF Initialized
  <2>2. CASE \E s \in Sockets : \/ Open(s) \/ StaleOpen(s) \/ PeerClosing(s)
                                \/ CloseEvent(s) \/ StaleCloseEvent(s)
    BY <1>2, <2>2 DEF Open, StaleOpen, PeerClosing, CloseEvent, StaleCloseEvent
  <2>3. CASE \E s \in Sockets, id \in Ids, outcome \in {"ok", "rejected"} : Response(s, id, outcome)
    BY <2>3 DEF Response
  <2>4. CASE \E s \in Sockets, id \in Ids : InitializeRefused(s, id)
    BY <1>2, <2>4 DEF InitializeRefused, HandshakeFails
  <2> QED
    BY <1>8, <2>1, <2>2, <2>3, <2>4 DEF SocketStep
<1>9. CASE TimeStep
  <2>1. CASE \E id \in Ids : RequestTimeout(id)
    BY <1>2, <2>1 DEF RequestTimeout, HandshakeFails
  <2>2. CASE TimerFires
    BY <1>5, <1>6, <2>2 DEF TimerFires
  <2>3. CASE GoOnline
    BY <1>4, <1>6, <2>3 DEF GoOnline
  <2>4. CASE GoOffline
    BY <2>4 DEF GoOffline
  <2> QED
    BY <1>9, <2>1, <2>2, <2>3, <2>4 DEF TimeStep
<1> QED
  BY <1>3, <1>7, <1>8, <1>9 DEF Next

\* Only the current socket fulfils a request.
LEMMA AnsweredByCurrent ==
    ASSUME IInv, [Next]_vars, NEW i \in Ids,
           call[i].outcome = "waiting", call'[i].outcome = "ok"
    PROVE  call[i].sock = socket
<1> USE DEF IInv, RequestsInv
<1>1. i # sequence + 1
  BY DEF FreshIds, NoCall, DataOK, Ids
<1>2. CASE UNCHANGED vars
  BY <1>2 DEF vars
<1>3. CASE StoreStep
  <2>1. CASE Connect
    BY <2>1 DEF Connect
  <2>2. CASE Disconnect \/ ReconnectNow
    <3>1. RejectPending
      BY <2>2 DEF Disconnect, ReconnectNow
    <3> QED
      BY <3>1 DEF RejectPending, DataOK, Calls
  <2>3. CASE \E timed \in BOOLEAN : Request(timed)
    BY <1>1, <2>3 DEF Request, Send, DataOK, Calls
  <2> QED
    BY <1>3, <2>1, <2>2, <2>3 DEF StoreStep, UserDisconnect, Destroy
<1>4. CASE SocketStep
  <2>1. ASSUME NEW s \in Sockets, NEW id \in Ids, NEW outcome \in {"ok", "rejected"},
               Response(s, id, outcome)
        PROVE  call[i].sock = socket
    BY <1>1, <2>1 DEF Response, Answers, Settle, DataOK, Calls
  <2>2. ASSUME NEW s \in Sockets, NEW id \in Ids, Initialized(s, id)
        PROVE  call[i].sock = socket
    BY <1>1, <2>2 DEF Initialized, Answers, Settle, DataOK, Calls
  <2>3. CASE \E s \in Sockets, id \in Ids : InitializeRefused(s, id)
    BY <1>1, <2>3 DEF InitializeRefused, Settle, DataOK, Calls
  <2>4. CASE \E s \in Sockets : \/ Open(s) \/ StaleOpen(s) \/ PeerClosing(s)
                                \/ CloseEvent(s) \/ StaleCloseEvent(s)
    BY <1>1, <2>4 DEF Open, StaleOpen, PeerClosing, CloseEvent, StaleCloseEvent,
       RejectPending, DataOK, Calls
  <2> QED
    BY <1>4, <2>1, <2>2, <2>3, <2>4 DEF SocketStep
<1>5. CASE TimeStep
  <2>1. CASE \E id \in Ids : RequestTimeout(id)
    BY <2>1 DEF RequestTimeout, Settle, DataOK, Calls
  <2>2. CASE TimerFires \/ GoOnline \/ GoOffline
    BY <2>2 DEF TimerFires, GoOnline, GoOffline
  <2> QED
    BY <1>5, <2>1, <2>2 DEF TimeStep
<1> QED
  BY <1>2, <1>3, <1>4, <1>5 DEF Next

\* Answers of a replaced connection never fulfil a request.
THEOREM StaleAnswersIgnored == Spec => OnlyCurrentAnswers
<1>1. IInv /\ [Next]_vars
        => [\A id \in Ids : call[id].outcome = "waiting" /\ call'[id].outcome = "ok"
                               => call[id].sock = socket]_vars
  BY AnsweredByCurrent
<1> QED
  BY <1>1, Invariant, PTL DEF Spec, OnlyCurrentAnswers

\* Neither a request nor a connection attempt ever settles twice.
THEOREM NothingSettlesTwice == Spec => SettledOnce
<1>1. IInv /\ [Next]_vars
        => [/\ \A id \in Ids : call[id].outcome \in {"ok", "rejected"} => call'[id] = call[id]
            /\ \A s \in Sockets : promise[s] \in {"resolved", "rejected"}
                                     => promise'[s] = promise[s]]_vars
  BY CallsSettledOnce, PromisesSettledOnce
<1> QED
  BY <1>1, Invariant, PTL DEF Spec, SettledOnce

-----------------------------------------------------------------------------
(* Refinement of RpcContract.                                               *)

On == [id \in Ids |-> call[id].sock]
Outcome == [id \in Ids |-> call[id].outcome]

\* rejectPending is the contract's RejectAll.
LEMMA RejectPendingIsRejectAll ==
    ASSUME IInv, RejectPending
    PROVE  /\ Contract!RejectAll
           /\ On' = On
<1>1. \A id \in Ids : /\ call'[id].sock = call[id].sock
                      /\ call'[id].outcome = IF call[id].outcome = "waiting" THEN "rejected"
                                             ELSE call[id].outcome
  BY DEF IInv, RequestsInv, PendingExact, RejectPending, DataOK, Calls
<1> QED
  BY <1>1 DEF Contract!RejectAll, On, Outcome

\* A new socket is a new connection of the contract.
LEMMA NewSocketEstablishes ==
    ASSUME IInv, NEW retrying, NEW ready, NEW prom, NewSocket(retrying, ready, prom),
           sequence' = sequence, On' = On, Contract!RejectAll \/ Outcome' = Outcome
    PROVE  Contract!Establish
BY DEF NewSocket, IInv, DataOK, Sockets, Contract!Establish, On, Outcome

\* Sending a request issues it.
LEMMA SendIssues ==
    ASSUME IInv, socket # 0, sequence < MaxRequests,
           sequence' = sequence + 1, UNCHANGED <<socket, opened>>,
           NEW method \in {"initialize", "call"}, NEW timed \in BOOLEAN,
           call' = [call EXCEPT ![sequence + 1] =
                       [sock |-> socket, method |-> method, timed |-> timed,
                        outcome |-> "waiting"]]
    PROVE  Contract!Issue
<1>1. sequence + 1 \in Ids
  BY DEF IInv, DataOK, Ids
<1>2. On' = [On EXCEPT ![sequence + 1] = socket]
  BY <1>1 DEF On, IInv, DataOK
<1>3. Outcome' = [Outcome EXCEPT ![sequence + 1] = "waiting"]
  BY <1>1 DEF Outcome, IInv, DataOK
<1> QED
  BY <1>1, <1>2, <1>3 DEF Contract!Issue, On, Outcome

\* Settling a request fulfils or fails it.
LEMMA SettleSettles ==
    ASSUME IInv, NEW id \in Ids, NEW outcome \in {"ok", "rejected"}, Settle(id, outcome),
           id \in pending, outcome = "ok" => call[id].sock = socket,
           UNCHANGED <<socket, opened, sequence>>
    PROVE  Contract!Fulfil(id) \/ Contract!Fail(id)
<1>1. Outcome[id] = "waiting"
  BY DEF IInv, RequestsInv, PendingExact, Outcome
<1>2. On' = On
  BY DEF Settle, On, IInv, DataOK
<1>3. Outcome' = [Outcome EXCEPT ![id] = outcome]
  <2>1. \A i \in Ids : call'[i].outcome = IF i = id THEN outcome ELSE call[i].outcome
    BY DEF Settle, IInv, DataOK, Calls
  <2> QED
    BY <2>1 DEF Outcome
<1>4. On[id] = call[id].sock
  BY DEF On
<1>5. CASE outcome = "ok"
  BY <1>1, <1>2, <1>3, <1>4, <1>5 DEF Contract!Fulfil, On, Outcome
<1>6. CASE outcome = "rejected"
  BY <1>1, <1>2, <1>3, <1>6 DEF Contract!Fail, On, Outcome
<1> QED
  BY <1>5, <1>6

\* What leaves sockets and requests alone is invisible to the contract.
LEMMA Stutters ==
    ASSUME UNCHANGED <<socket, opened, sequence, call>>
    PROVE  UNCHANGED Contract!cvars
BY DEF Contract!cvars

\* Every step of the client is a step of the contract or changes nothing of it.
LEMMA StepImplements ==
    ASSUME IInv, [Next]_vars
    PROVE  [Contract!Next]_(Contract!cvars)
<1>1. CASE UNCHANGED vars
  BY <1>1, Stutters DEF vars
<1>2. ASSUME NEW current, NEW retrying, NEW ready, NEW prom,
             Connecting(current, retrying, ready, prom), current = socket,
             UNCHANGED <<sequence, call>>
      PROVE  [Contract!Next]_(Contract!cvars)
  <2>1. CASE NoSocket(current, ready, prom)
    BY <1>2, <2>1, Stutters DEF NoSocket
  <2>2. CASE NewSocket(retrying, ready, prom)
    <3>1. On' = On /\ Outcome' = Outcome
      BY <1>2 DEF On, Outcome
    <3> QED
      BY <1>2, <2>2, <3>1, NewSocketEstablishes DEF Contract!Next
  <2> QED
    BY <1>2, <2>1, <2>2 DEF Connecting
<1>3. CASE Connect
  BY <1>2, <1>3 DEF Connect
<1>4. CASE Disconnect
  <2>1. RejectPending /\ socket' = 0 /\ UNCHANGED <<opened, sequence>>
    BY <1>4 DEF Disconnect
  <2> QED
    BY <2>1, RejectPendingIsRejectAll DEF Contract!Next, Contract!Lose, On
<1>5. CASE ReconnectNow
  <2>1. RejectPending /\ UNCHANGED sequence
    BY <1>5 DEF ReconnectNow
  <2>2. Contract!RejectAll /\ On' = On
    BY <2>1, RejectPendingIsRejectAll
  <2>3. CASE NoSocket(0, AfterClose(socket), AfterReject(Handshaking))
    BY <2>1, <2>2, <2>3 DEF NoSocket, Contract!Next, Contract!Lose, On
  <2>4. CASE NewSocket(TRUE, AfterClose(socket), AfterReject(Handshaking))
    BY <2>1, <2>2, <2>4, NewSocketEstablishes DEF Contract!Next
  <2> QED
    BY <1>5, <2>3, <2>4 DEF ReconnectNow, Connecting
<1>6. ASSUME NEW timed \in BOOLEAN, Request(timed)
      PROVE  [Contract!Next]_(Contract!cvars)
  BY <1>6, SendIssues DEF Request, Send, Contract!Next
<1>7. ASSUME NEW s \in Sockets, Open(s)
      PROVE  [Contract!Next]_(Contract!cvars)
  <2>1. /\ socket # 0
        /\ sequence < MaxRequests
        /\ sequence' = sequence + 1
        /\ UNCHANGED <<socket, opened>>
        /\ call' = [call EXCEPT ![sequence + 1] =
                       [sock |-> socket, method |-> "initialize", timed |-> TRUE,
                        outcome |-> "waiting"]]
    BY <1>7 DEF Open, Sockets
  <2>2. Contract!Issue
    BY <2>1, SendIssues, Zenon
  <2> QED
    BY <2>2 DEF Contract!Next
<1>8. CASE \E s \in Sockets : StaleOpen(s) \/ PeerClosing(s) \/ StaleCloseEvent(s)
  BY <1>8, Stutters DEF StaleOpen, PeerClosing, StaleCloseEvent
<1>9. ASSUME NEW s \in Sockets, CloseEvent(s)
      PROVE  [Contract!Next]_(Contract!cvars)
  <2>1. RejectPending /\ socket' = 0 /\ UNCHANGED <<opened, sequence>>
    BY <1>9 DEF CloseEvent
  <2> QED
    BY <2>1, RejectPendingIsRejectAll DEF Contract!Next, Contract!Lose, On
<1>10. ASSUME NEW s \in Sockets, NEW id \in Ids, NEW outcome \in {"ok", "rejected"},
              Response(s, id, outcome) \/ (Initialized(s, id) /\ outcome = "ok")
                 \/ (InitializeRefused(s, id) /\ outcome = "rejected")
       PROVE  [Contract!Next]_(Contract!cvars)
  <2>1. /\ id \in pending
        /\ Settle(id, outcome)
        /\ call[id].sock = socket
        /\ UNCHANGED <<socket, opened, sequence>>
    BY <1>10 DEF Response, Initialized, InitializeRefused, Answers
  <2> QED
    BY <2>1, SettleSettles DEF Contract!Next
<1>11. ASSUME NEW id \in Ids, RequestTimeout(id)
       PROVE  [Contract!Next]_(Contract!cvars)
  <2>1. /\ id \in pending
        /\ Settle(id, "rejected")
        /\ UNCHANGED <<socket, opened, sequence>>
    BY <1>11 DEF RequestTimeout
  <2> QED
    BY <2>1, SettleSettles DEF Contract!Next
<1>12. CASE TimerFires
  <2>1. CASE phase # "ready" /\ connectPromise = 0
    BY <1>2, <1>12, <2>1 DEF TimerFires
  <2>2. CASE ~(phase # "ready" /\ connectPromise = 0)
    BY <1>12, <2>2, Stutters DEF TimerFires
  <2> QED
    BY <2>1, <2>2
<1>13. CASE GoOnline
  <2>1. CASE NewSocket(TRUE, readyState, promise)
    <3>1. sequence' = sequence /\ On' = On /\ Outcome' = Outcome
      BY <1>13 DEF GoOnline, On, Outcome
    <3> QED
      BY <2>1, <3>1, NewSocketEstablishes DEF Contract!Next
  <2>2. CASE UNCHANGED <<socket, opened>>
    BY <1>13, <2>2, Stutters DEF GoOnline
  <2> QED
    BY <1>13, <2>1, <2>2 DEF GoOnline
<1>14. CASE GoOffline
  BY <1>14, Stutters DEF GoOffline
<1> QED
  BY <1>1, <1>3, <1>4, <1>5, <1>6, <1>7, <1>8, <1>9, <1>10, <1>11, <1>12, <1>13, <1>14
  DEF Next, StoreStep, SocketStep, TimeStep, UserDisconnect, Destroy

\* The client implements its contract.
THEOREM Refinement == Spec => ImplementsContract
<1>1. Init => Contract!Init
  BY DEF Init, Contract!Init, NoCall
<1>2. IInv /\ [Next]_vars => [Contract!Next]_(Contract!cvars)
  BY StepImplements
<1> QED
  BY <1>1, <1>2, Invariant, PTL DEF Spec, ImplementsContract, Contract!Spec

-----------------------------------------------------------------------------
(* Refinement of Link: what the store's modules assume of the client's      *)
(* connections holds of JsonRpcClient.ts for every value of the constants.  *)

\* An open current socket has completed its handshake, or its connection
\* attempt is still the one under way.
HandshakeHeld ==
    socket # 0 /\ readyState[socket] = "open"
        => promise[socket] = "resolved" \/ connectPromise = socket

LInv == IInv /\ HandshakeHeld

\* A connection attempt that begins leaves no open socket behind unobserved.
LEMMA ConnectingHolds ==
    ASSUME LInv, NEW retrying, NEW ready \in [Sockets -> ReadyStates],
           NEW prom \in [Sockets -> Promises], NEW current \in 0..opened,
           Connecting(current, retrying, ready, prom),
           current = 0 \/ (current = socket /\ connectPromise = 0
                              /\ ready = readyState /\ prom = promise)
    PROVE  HandshakeHeld'
<1> USE DEF LInv, IInv, DataOK, Sockets
<1>1. CASE NoSocket(current, ready, prom)
  BY <1>1 DEF NoSocket, HandshakeHeld
<1>2. CASE NewSocket(retrying, ready, prom)
  BY <1>2 DEF NewSocket, HandshakeHeld
<1> QED
  BY <1>1, <1>2 DEF Connecting

\* Calls of the store keep HandshakeHeld.
LEMMA StoreHolds ==
    ASSUME LInv, StoreStep
    PROVE  HandshakeHeld'
<1>1. CASE Connect
  BY <1>1, ConnectingHolds DEF LInv, IInv, DataOK, Connect
<1>2. CASE Disconnect
  BY <1>2 DEF Disconnect, HandshakeHeld
<1>3. CASE ReconnectNow
  <2>1. /\ AfterClose(socket) \in [Sockets -> ReadyStates]
        /\ AfterReject(Handshaking) \in [Sockets -> Promises]
        /\ 0 \in 0..opened
    BY AfterCloseType, AfterRejectType DEF LInv, IInv, DataOK
  <2> QED
    BY <1>3, <2>1, ConnectingHolds DEF ReconnectNow
<1>4. CASE \E timed \in BOOLEAN : Request(timed)
  BY <1>4 DEF LInv, Request, HandshakeHeld
<1> QED
  BY <1>1, <1>2, <1>3, <1>4 DEF StoreStep, UserDisconnect, Destroy

\* Events of the sockets keep HandshakeHeld.
LEMMA SocketHolds ==
    ASSUME LInv, SocketStep
    PROVE  HandshakeHeld'
<1> USE DEF LInv, IInv, DataOK, SocketsInv, CurrentSocket, ConnectPromiseLive, HandshakeHeld
<1>0. socket # 0 => socket \in Sockets
  BY ConstantsAssumption DEF Sockets
<1>1. ASSUME NEW s \in Sockets, Open(s) PROVE HandshakeHeld'
  BY <1>1 DEF Open
<1>2. ASSUME NEW s \in Sockets, StaleOpen(s) PROVE HandshakeHeld'
  BY <1>0, <1>2 DEF StaleOpen, AfterReject, ClearConnection
<1>3. ASSUME NEW s \in Sockets, PeerClosing(s) PROVE HandshakeHeld'
  BY <1>3 DEF PeerClosing
<1>4. ASSUME NEW s \in Sockets, CloseEvent(s) PROVE HandshakeHeld'
  BY <1>4 DEF CloseEvent
<1>5. ASSUME NEW s \in Sockets, StaleCloseEvent(s) PROVE HandshakeHeld'
  BY <1>0, <1>5 DEF StaleCloseEvent, AfterReject, ClearConnection
<1>6. ASSUME NEW s \in Sockets, NEW id \in Ids,
             \/ \E outcome \in {"ok", "rejected"} : Response(s, id, outcome)
             \/ Initialized(s, id)
             \/ InitializeRefused(s, id)
      PROVE  HandshakeHeld'
  <2>1. CASE \E outcome \in {"ok", "rejected"} : Response(s, id, outcome)
    BY <2>1 DEF Response
  <2>2. CASE Initialized(s, id)
    BY <2>2 DEF Initialized
  <2>3. CASE InitializeRefused(s, id)
    BY <2>3 DEF InitializeRefused, Answers, HandshakeFails, AfterClose
  <2> QED
    BY <1>6, <2>1, <2>2, <2>3
<1> QED
  BY <1>1, <1>2, <1>3, <1>4, <1>5, <1>6 DEF SocketStep

\* Timers and network events keep HandshakeHeld.
LEMMA TimeHolds ==
    ASSUME LInv, TimeStep
    PROVE  HandshakeHeld'
<1>0. socket # 0 => socket \in Sockets
  BY ConstantsAssumption DEF LInv, IInv, DataOK, Sockets
<1>1. ASSUME NEW id \in Ids, RequestTimeout(id) PROVE HandshakeHeld'
  <2>1. CASE call[id].method = "initialize"
    <3>1. socket # 0 => call[id].sock = socket
      BY <1>1, <2>1 DEF LInv, IInv, OneHandshake, RequestTimeout
    <3>2. CASE UNCHANGED <<readyState, promise, connectPromise>>
      BY <1>1, <3>2 DEF LInv, RequestTimeout, HandshakeHeld
    <3>3. CASE readyState' = AfterClose(socket)
      BY <1>0, <1>1, <3>3 DEF RequestTimeout, AfterClose, HandshakeHeld
    <3> QED
      BY <1>1, <2>1, <3>1, <3>2, <3>3 DEF RequestTimeout, HandshakeFails, HandshakeHeld
  <2>2. CASE call[id].method = "call"
    BY <1>1, <2>2 DEF LInv, RequestTimeout, HandshakeHeld
  <2> QED
    BY <1>1, <2>1, <2>2 DEF RequestTimeout
<1>2. CASE TimerFires
  <2>1. CASE phase # "ready" /\ connectPromise = 0
    BY <1>2, <2>1, ConnectingHolds DEF LInv, IInv, DataOK, TimerFires
  <2>2. CASE ~(phase # "ready" /\ connectPromise = 0)
    BY <1>2, <2>2 DEF LInv, TimerFires, HandshakeHeld
  <2> QED
    BY <2>1, <2>2
<1>3. CASE GoOnline
  <2>1. CASE NewSocket(TRUE, readyState, promise)
    BY <2>1 DEF LInv, IInv, DataOK, Sockets, NewSocket, HandshakeHeld
  <2>2. CASE UNCHANGED <<connectPromise, socket, readyState, promise>>
    BY <2>2 DEF LInv, HandshakeHeld
  <2> QED
    BY <1>3, <2>1, <2>2 DEF GoOnline
<1>4. CASE GoOffline
  BY <1>4 DEF LInv, GoOffline, HandshakeHeld
<1> QED
  BY <1>1, <1>2, <1>3, <1>4 DEF TimeStep

\* The strengthened invariant holds throughout.
LEMMA LinkInvariant == Spec => []LInv
<1>1. Init => HandshakeHeld
  BY DEF Init, HandshakeHeld
<1>2. IInv /\ HandshakeHeld /\ [Next]_vars => HandshakeHeld'
  <2> SUFFICES ASSUME IInv, HandshakeHeld, [Next]_vars PROVE HandshakeHeld'
    OBVIOUS
  <2>1. CASE UNCHANGED vars
    BY <2>1 DEF vars, HandshakeHeld
  <2>2. CASE Next
    BY <2>2, StoreHolds, SocketHolds, TimeHolds DEF LInv, Next
  <2> QED
    BY <2>1, <2>2
<1> QED
  BY <1>1, <1>2, Invariant, PTL DEF Spec, LInv

-----------------------------------------------------------------------------
(* The refinement, action by action.                                        *)

\* The names that LinkView uses.
Seen == <<opened, LinkSocket, phase = "ready">>

\* Steps that leave the current socket and the phase's readiness alone stutter.
LEMMA SeenUnchanged ==
    ASSUME opened' = opened, socket' = socket, (phase' = "ready") = (phase = "ready"),
           socket # 0 => /\ readyState'[socket] = readyState[socket]
                         /\ (promise'[socket] = "resolved") = (promise[socket] = "resolved")
    PROVE  UNCHANGED Seen
BY DEF Seen, LinkSocket

\* A connection attempt of connect(), the timer or the online event dials.
LEMMA NewSocketDials ==
    ASSUME LInv, NEW retrying, NewSocket(retrying, readyState, promise),
           phase # "ready", connectPromise = 0
    PROVE  LinkView!Dial
<1> USE DEF LInv, IInv, DataOK, SocketsInv, CurrentSocket
<1>1. opened' = opened + 1 /\ opened < MaxSockets
  BY DEF NewSocket
<1>2. LinkSocket' = "connecting"
  <2>1. opened + 1 \in Sockets
    BY ConstantsAssumption DEF NewSocket, Sockets
  <2>2. socket' # 0 /\ readyState'[socket'] = "connecting"
    BY <2>1 DEF NewSocket
  <2> QED
    BY <2>2 DEF LinkSocket
<1>3. phase' # "ready"
  BY DEF NewSocket
<1>4. LinkSocket = "none" \/ LinkSocket \in {"established", "closing"}
  BY DEF HandshakeHeld, LinkSocket
<1> QED
  BY <1>1, <1>2, <1>3, <1>4 DEF LinkView!Dial

\* Giving the current socket up is a drop; without one nothing is seen.
LEMMA GivingUpDrops ==
    ASSUME LInv, opened' = opened, socket' = 0, phase' # "ready"
    PROVE  LinkView!Drops \/ UNCHANGED Seen
<1>1. CASE socket = 0
  <2>1. phase # "ready"
    BY <1>1 DEF LInv, IInv, PhaseInv, ReadyIsInitialized
  <2> QED
    BY <1>1, <2>1 DEF Seen, LinkSocket
<1>2. CASE socket # 0
  <2>1. LinkSocket # "none"
    BY <1>2 DEF LInv, IInv, SocketsInv, CurrentSocket, LinkSocket
  <2>2. LinkSocket' = "none"
    BY DEF LinkSocket
  <2> QED
    BY <2>1, <2>2 DEF LinkView!Drops
<1> QED
  BY <1>1, <1>2

\* A failed handshake closes the socket or leaves it as it is.
LEMMA HandshakeFailureCloses ==
    ASSUME LInv, socket # 0, readyState[socket] = "open", HandshakeFails(socket),
           UNCHANGED <<opened, socket, phase>>
    PROVE  LinkView!Closes \/ UNCHANGED Seen
<1>1. socket \in Sockets
  BY ConstantsAssumption DEF LInv, IInv, DataOK, Sockets
<1>2. CASE UNCHANGED <<readyState, promise, connectPromise>>
  BY <1>2 DEF Seen, LinkSocket
<1>3. CASE readyState' = AfterClose(socket)
  <2>1. LinkSocket \in {"initializing", "established"}
    BY DEF LinkSocket
  <2>2. LinkSocket' = "closing"
    BY <1>1, <1>3 DEF AfterClose, LinkSocket
  <2> QED
    BY <2>1, <2>2 DEF LinkView!Closes, LinkView!IsOpen
<1> QED
  BY <1>2, <1>3 DEF HandshakeFails

\* Calls of the store.
LEMMA StoreLinks ==
    ASSUME LInv, StoreStep
    PROVE  LinkView!LinkNext \/ UNCHANGED Seen
<1>1. CASE Connect
  <2>1. CASE NewSocket(attempt > 0 \/ phase = "reconnecting", readyState, promise)
    BY <1>1, <2>1, NewSocketDials DEF Connect, LinkView!LinkNext
  <2>2. CASE NoSocket(socket, readyState, promise)
    BY <1>1, <2>2 DEF Connect, NoSocket, Seen, LinkSocket
  <2> QED
    BY <1>1, <2>1, <2>2 DEF Connect, Connecting
<1>2. CASE Disconnect
  BY <1>2, GivingUpDrops DEF Disconnect, LinkView!LinkNext
<1>3. CASE ReconnectNow
  <2>1. CASE NoSocket(0, AfterClose(socket), AfterReject(Handshaking))
    BY <2>1, GivingUpDrops DEF NoSocket, LinkView!LinkNext
  <2>2. CASE NewSocket(TRUE, AfterClose(socket), AfterReject(Handshaking))
    <3>1. AfterClose(socket) \in [Sockets -> ReadyStates] /\ opened + 1 \in Sockets
      BY <2>2, AfterCloseType, ConstantsAssumption DEF LInv, IInv, DataOK, NewSocket, Sockets
    <3>2. /\ opened' = opened + 1 /\ opened < MaxSockets
          /\ socket' # 0 /\ readyState'[socket'] = "connecting"
          /\ phase' # "ready"
      BY <2>2, <3>1 DEF LInv, IInv, DataOK, NewSocket
    <3>3. LinkSocket' = "connecting"
      BY <3>2 DEF LinkSocket
    <3>4. CASE socket = 0
      <4>1. phase # "ready" /\ LinkSocket = "none"
        BY <3>4 DEF LInv, IInv, PhaseInv, ReadyIsInitialized, LinkSocket
      <4> QED
        BY <3>2, <3>3, <4>1 DEF LinkView!Dial, LinkView!LinkNext
    <3>5. CASE socket # 0
      <4>1. LinkSocket # "none"
        BY <3>5 DEF LInv, IInv, SocketsInv, CurrentSocket, LinkSocket
      <4> QED
        BY <3>2, <3>3, <4>1 DEF LinkView!Reconnect, LinkView!LinkNext
    <3> QED
      BY <3>4, <3>5
  <2> QED
    BY <1>3, <2>1, <2>2 DEF ReconnectNow, Connecting
<1>4. CASE \E timed \in BOOLEAN : Request(timed)
  BY <1>4 DEF Request, Seen, LinkSocket
<1> QED
  BY <1>1, <1>2, <1>3, <1>4 DEF StoreStep, UserDisconnect, Destroy

\* Events of the sockets.
LEMMA SocketLinks ==
    ASSUME LInv, SocketStep
    PROVE  LinkView!LinkNext \/ UNCHANGED Seen
<1> USE DEF LInv, IInv, DataOK, SocketsInv, CurrentSocket
<1>1. ASSUME NEW s \in Sockets, Open(s) PROVE LinkView!Opens
  <2>1. promise[s] = "pending"
    BY <1>1 DEF Open, ConnectPromiseLive, Sockets
  <2>2. LinkSocket = "connecting" /\ LinkSocket' = "initializing"
    BY <1>1, <2>1 DEF Open, LinkSocket, Sockets
  <2>3. phase # "ready" /\ phase' # "ready"
    BY <1>1, <2>1 DEF Open, PhaseInv, ReadyIsInitialized
  <2> QED
    BY <1>1, <2>2, <2>3 DEF Open, LinkView!Opens
<1>2. ASSUME NEW s \in Sockets, StaleOpen(s) \/ StaleCloseEvent(s) PROVE UNCHANGED Seen
  <2>1. socket # 0 => socket \in Sockets /\ socket # s
    BY <1>2, ConstantsAssumption DEF StaleOpen, StaleCloseEvent, Sockets
  <2>2. socket # 0 => /\ readyState'[socket] = readyState[socket]
                      /\ promise'[socket] = promise[socket]
    BY <1>2, <2>1 DEF StaleOpen, StaleCloseEvent, AfterReject
  <2> QED
    BY <1>2, <2>2 DEF StaleOpen, StaleCloseEvent, Seen, LinkSocket
<1>3. ASSUME NEW s \in Sockets, PeerClosing(s) PROVE LinkView!Closes \/ UNCHANGED Seen
  <2>1. CASE s = socket
    <3>1. LinkSocket \in {"initializing", "established"} /\ LinkSocket' = "closing"
      BY <1>3, <2>1 DEF PeerClosing, LinkSocket, Sockets
    <3> QED
      BY <1>3, <3>1 DEF PeerClosing, LinkView!Closes, LinkView!IsOpen
  <2>2. CASE s # socket
    BY <1>3, <2>2 DEF PeerClosing, Seen, LinkSocket
  <2> QED
    BY <2>1, <2>2
<1>4. ASSUME NEW s \in Sockets, CloseEvent(s) PROVE LinkView!Drops \/ UNCHANGED Seen
  <2>1. ~manuallyClosed
    BY <1>4 DEF CloseEvent, PhaseInv, ManualCloseHolds, Sockets
  <2>2. phase' # "ready"
    BY <1>4, <2>1 DEF CloseEvent, ScheduleReconnect
  <2> QED
    BY <1>4, <2>2, GivingUpDrops DEF CloseEvent
<1>5. ASSUME NEW s \in Sockets, NEW id \in Ids, Initialized(s, id) PROVE LinkView!BecomesReady
  <2>1. promise[s] = "pending"
    BY <1>5 DEF Initialized, Answers, OneHandshake, ConnectPromiseLive, Sockets
  <2>2. LinkSocket = "initializing" /\ LinkSocket' = "established"
    BY <1>5, <2>1 DEF Initialized, Answers, LinkSocket, Sockets
  <2> QED
    BY <1>5, <2>2 DEF Initialized, LinkView!BecomesReady
<1>6. ASSUME NEW s \in Sockets, NEW id \in Ids, InitializeRefused(s, id)
      PROVE  LinkView!Closes \/ UNCHANGED Seen
  BY <1>6, HandshakeFailureCloses DEF InitializeRefused, Answers, Sockets
<1>7. ASSUME NEW s \in Sockets, NEW id \in Ids, NEW outcome \in {"ok", "rejected"},
             Response(s, id, outcome)
      PROVE  UNCHANGED Seen
  BY <1>7 DEF Response, Seen, LinkSocket
<1> QED
  BY <1>1, <1>2, <1>3, <1>4, <1>5, <1>6, <1>7 DEF SocketStep, LinkView!LinkNext

\* Timers and network events.
LEMMA TimeLinks ==
    ASSUME LInv, TimeStep
    PROVE  LinkView!LinkNext \/ UNCHANGED Seen
<1>1. ASSUME NEW id \in Ids, RequestTimeout(id) PROVE LinkView!Closes \/ UNCHANGED Seen
  <2>1. CASE call[id].method = "initialize"
    <3>1. call[id].sock = socket /\ readyState[socket] # "connecting"
      BY <1>1, <2>1 DEF LInv, IInv, OneHandshake, RequestTimeout
    <3>2. socket # 0
      BY <1>1 DEF RequestTimeout, LInv, IInv, RequestsInv, NothingPendingWithoutSocket
    <3>3. HandshakeFails(socket) /\ UNCHANGED <<opened, socket, phase>>
      BY <1>1, <2>1, <3>1 DEF RequestTimeout
    <3>4. CASE readyState[socket] = "open"
      BY <3>2, <3>3, <3>4, HandshakeFailureCloses
    <3>5. CASE readyState[socket] = "closing"
      <4>1. socket \in Sockets
        BY <3>2, ConstantsAssumption DEF LInv, IInv, DataOK, Sockets
      <4>2. readyState'[socket] = "closing"
        BY <3>3, <3>5, <4>1 DEF HandshakeFails, AfterClose
      <4> QED
        BY <3>3, <3>5, <4>2 DEF Seen, LinkSocket
    <3> QED
      BY <3>1, <3>2, <3>4, <3>5 DEF LInv, IInv, SocketsInv, CurrentSocket
  <2>2. CASE call[id].method = "call"
    BY <1>1, <2>2 DEF RequestTimeout, Seen, LinkSocket
  <2> QED
    BY <1>1, <2>1, <2>2 DEF RequestTimeout
<1>2. CASE TimerFires
  <2>1. CASE phase # "ready" /\ connectPromise = 0
    <3>1. CASE NewSocket(attempt > 0 \/ phase = "reconnecting", readyState, promise)
      BY <2>1, <3>1, NewSocketDials DEF LinkView!LinkNext
    <3>2. CASE NoSocket(socket, readyState, promise)
      BY <2>1, <3>2 DEF NoSocket, Seen, LinkSocket
    <3> QED
      BY <1>2, <2>1, <3>1, <3>2 DEF TimerFires, Connecting
  <2>2. CASE ~(phase # "ready" /\ connectPromise = 0)
    BY <1>2, <2>2 DEF TimerFires, Seen, LinkSocket
  <2> QED
    BY <2>1, <2>2
<1>3. CASE GoOnline
  <2>1. CASE phase # "ready" /\ connectPromise = 0 /\ NewSocket(TRUE, readyState, promise)
    BY <2>1, NewSocketDials DEF LinkView!LinkNext
  <2>2. CASE /\ UNCHANGED <<opened, socket, readyState, promise>>
             /\ phase' = phase \/ (phase # "ready" /\ phase' = "reconnecting")
    BY <2>2 DEF Seen, LinkSocket
  <2> QED
    BY <1>3, <2>1, <2>2 DEF GoOnline
<1>4. CASE GoOffline
  <2>1. UNCHANGED <<opened, LinkSocket>>
    BY <1>4 DEF GoOffline, LinkSocket
  <2> QED
    BY <1>4, <2>1 DEF GoOffline, Seen, LinkView!GoesOffline, LinkView!LinkNext
<1> QED
  BY <1>1, <1>2, <1>3, <1>4 DEF TimeStep, LinkView!LinkNext

\* Seen from the store, every step of the client is a step of Link or none.
LEMMA StepLinks ==
    ASSUME LInv, [Next]_vars
    PROVE  [LinkView!LinkNext]_(LinkView!linkVars)
<1>1. CASE UNCHANGED vars
  BY <1>1 DEF vars, LinkView!linkVars, LinkSocket
<1>2. CASE Next
  BY <1>2, StoreLinks, SocketLinks, TimeLinks DEF Next, Seen, LinkView!linkVars
<1> QED
  BY <1>1, <1>2

\* The client is a Link: what the store's modules assume of its connections,
\* in every order of events, holds for every number of sockets and requests.
THEOREM LinkRefinement == Spec => ImplementsLink
<1>1. Init => LinkView!LinkInit
  BY DEF Init, LinkView!LinkInit, LinkSocket
<1>2. LInv /\ [Next]_vars => [LinkView!LinkNext]_(LinkView!linkVars)
  BY StepLinks
<1> QED
  BY <1>1, <1>2, LinkInvariant, PTL DEF Spec, ImplementsLink, LinkView!LinkSpec

-----------------------------------------------------------------------------
(* The choice of the server: the inductive invariant.                       *)

\* The client has no connection and makes none by itself.
Down == socket = 0 /\ ~timer /\ phase # "ready" /\ (created => manuallyClosed)

\* A client that is not created has done nothing.
Untouched ==
    ~created => phase = "idle" /\ socket = 0 /\ ~timer /\ opened = 0 /\ pending = {}

\* The gateway has dialed for every socket that opened, and for none to come.
Dialed ==
    \A s \in Sockets :
        /\ s > opened => leads[s] = Nowhere
        /\ readyState[s] = "open" \/ promise[s] = "resolved" => leads[s] # Nowhere

\* A free slot holds no request that could be carried out.
Blank == \A j \in Slots : Free(j) => setups[j].at # "asking"

\* Setups one at a time: while one is in progress the client is down, and
\* carrying it out leads to the server of the settings.
OneSetup ==
    /\ \A i, j \in Slots : ~Free(i) /\ ~Free(j) => i = j
    /\ \A j \in Slots : ~Free(j) => Down /\ setups[j].server = settings.server
    /\ \A j \in Slots : ~Free(j) /\ setups[j].at = "done" => upstream = settings.server

\* A client that is up is up after its setup was carried out.
SetUp ==
    ~Down => /\ upstream = settings.server /\ shown = settings.server
             /\ socket # 0 => leads[socket] \in {Nowhere, settings.server}

SetupInv ==
    SetupTypeOK /\ IInv /\ Untouched /\ Dialed /\ Blank /\ (alone => OneSetup /\ SetUp)

-----------------------------------------------------------------------------
(* What the client's own steps do to the sockets.                           *)

\* Calls of the store open no socket and complete no handshake.
LEMMA StoreOpensNone ==
    ASSUME IInv, UserDisconnect \/ Connect \/ ReconnectNow \/ UNCHANGED vars, NEW s \in Sockets
    PROVE  /\ opened \in Nat /\ opened' \in Nat /\ opened <= opened'
           /\ readyState'[s] = "open" => readyState[s] = "open"
           /\ promise'[s] = "resolved" => promise[s] = "resolved"
<1> USE DEF IInv, DataOK
<1>1. CASE UNCHANGED vars
  BY <1>1 DEF vars
<1>2. CASE UserDisconnect
  BY <1>2 DEF UserDisconnect, Disconnect, AfterClose, AfterReject
<1>3. CASE Connect
  BY <1>3 DEF Connect, Connecting, NewSocket, NoSocket
<1>4. CASE ReconnectNow
  <2>1. /\ AfterClose(socket)[s] = "open" => readyState[s] = "open"
        /\ AfterReject(Handshaking)[s] = "resolved" => promise[s] = "resolved"
        /\ AfterClose(socket) \in [Sockets -> ReadyStates]
        /\ AfterReject(Handshaking) \in [Sockets -> Promises]
    BY AfterCloseType, AfterRejectType DEF AfterClose, AfterReject
  <2>2. Connecting(0, TRUE, AfterClose(socket), AfterReject(Handshaking))
    BY <1>4 DEF ReconnectNow
  <2>3. CASE NoSocket(0, AfterClose(socket), AfterReject(Handshaking))
    BY <2>1, <2>3 DEF NoSocket
  <2>4. CASE NewSocket(TRUE, AfterClose(socket), AfterReject(Handshaking))
    BY <2>1, <2>4 DEF NewSocket
  <2> QED
    BY <2>2, <2>3, <2>4 DEF Connecting
<1> QED
  BY <1>1, <1>2, <1>3, <1>4

\* The steps of the client on its own open sockets for which the gateway has
\* dialed, and complete the handshake of open ones.
LEMMA ClientOpens ==
    ASSUME IInv, ClientSteps, NEW s \in Sockets
    PROVE  /\ opened \in Nat /\ opened' \in Nat /\ opened <= opened'
           /\ readyState'[s] = "open" => readyState[s] = "open" \/ leads[s] # Nowhere
           /\ promise'[s] = "resolved" => promise[s] = "resolved" \/ readyState[s] = "open"
<1> USE DEF IInv, DataOK
<1>1. ASSUME NEW t \in Sockets,
             \/ Open(t) /\ leads[t] # Nowhere
             \/ StaleOpen(t) \/ PeerClosing(t) \/ CloseEvent(t) \/ StaleCloseEvent(t)
      PROVE  /\ opened' = opened
             /\ readyState'[s] = "open" => readyState[s] = "open" \/ leads[s] # Nowhere
             /\ promise'[s] = "resolved" => promise[s] = "resolved"
  BY <1>1 DEF Open, StaleOpen, PeerClosing, CloseEvent, StaleCloseEvent, AfterReject
<1>2. ASSUME NEW t \in Sockets, NEW id \in Ids, Initialized(t, id) \/ InitializeRefused(t, id)
      PROVE  /\ opened' = opened
             /\ readyState'[s] = "open" => readyState[s] = "open"
             /\ promise'[s] = "resolved" => promise[s] = "resolved" \/ readyState[s] = "open"
  BY <1>2 DEF Initialized, InitializeRefused, Answers, HandshakeFails, AfterClose, AfterReject
<1>3. ASSUME NEW id \in Ids, RequestTimeout(id)
      PROVE  /\ opened' = opened
             /\ readyState'[s] = "open" => readyState[s] = "open"
             /\ promise'[s] = "resolved" => promise[s] = "resolved"
  BY <1>3 DEF RequestTimeout, HandshakeFails, AfterClose, AfterReject
<1>4. CASE TimerFires \/ GoOnline \/ GoOffline
  BY <1>4 DEF TimerFires, GoOnline, GoOffline, Connecting, NewSocket, NoSocket
<1> QED
  BY <1>1, <1>2, <1>3, <1>4 DEF ClientSteps

\* The socket a step leaves is the old one, none, or the next number.
LEMMA ClientSocket ==
    ASSUME IInv, ClientSteps
    PROVE  socket' = 0 \/ socket' = socket \/ (socket' = opened + 1 /\ opened + 1 \in Sockets)
<1>1. ASSUME NEW retrying, NEW ready, NEW prom, NewSocket(retrying, ready, prom)
      PROVE  socket' = opened + 1 /\ opened + 1 \in Sockets
  BY <1>1 DEF NewSocket, IInv, DataOK, Sockets
<1>2. CASE TimerFires
  BY <1>1, <1>2 DEF TimerFires, Connecting, NoSocket
<1>3. CASE GoOnline \/ GoOffline
  BY <1>1, <1>3 DEF GoOnline, GoOffline
<1>4. CASE UNCHANGED socket \/ socket' = 0
  BY <1>4
<1> QED
  BY <1>2, <1>3, <1>4 DEF ClientSteps, Open, StaleOpen, PeerClosing, CloseEvent, StaleCloseEvent,
     Initialized, InitializeRefused, RequestTimeout

\* A client that is down stays down.
LEMMA DownStays ==
    ASSUME Down, ClientSteps
    PROVE  Down'
<1> USE DEF Down
<1>1. \A t \in Sockets : t # 0
  BY DEF Sockets
<1>5. created' = created
  BY Zenon DEF ClientSteps, setupVars
<1>2. CASE TimerFires
  BY <1>2 DEF TimerFires
<1>3. CASE created /\ GoOnline
  <2>1. UNCHANGED <<phase, timer, socket>> /\ manuallyClosed' = manuallyClosed
    BY <1>3, Zenon DEF GoOnline
  <2> QED
    BY <1>3, <1>5, <2>1
<1>6. CASE GoOffline
  <2>1. (timer' = FALSE \/ timer' = timer) /\ phase' \in {phase, "offline"}
        /\ socket' = socket /\ manuallyClosed' = manuallyClosed
    BY <1>6, Zenon DEF GoOffline
  <2> QED
    BY <1>5, <2>1
<1>4. CASE UNCHANGED <<phase, timer, manuallyClosed, socket>>
  BY <1>4, <1>5
<1> QED
  BY <1>1, <1>2, <1>3, <1>4, <1>6 DEF ClientSteps, Open, StaleOpen, PeerClosing, CloseEvent,
     StaleCloseEvent, Initialized, InitializeRefused, RequestTimeout

-----------------------------------------------------------------------------
(* The client's part of the invariant.                                      *)

\* The steps of the page are steps of the client, but for the network's while
\* no client listens.
LEMMA ClientKeeps ==
    ASSUME TypeOK, IInv, SetupNext
    PROVE  TypeOK' /\ IInv'
<1>1. CASE [Next]_vars
  BY <1>1, InvariantStep, FlagsStep, DataStep DEF TypeOK, IInv
<1>2. CASE NetworkChanges
  <2>1. online' \in BOOLEAN
    BY <1>2, Zenon DEF NetworkChanges
  <2>2. UNCHANGED <<phase, attempt, timer, manuallyClosed, connectPromise, socket,
                    sequence, pending, listening, opened, readyState, promise, call>>
    BY <1>2 DEF NetworkChanges
  <2>3. TypeOK'
    BY <2>1, <2>2 DEF TypeOK, FlagsOK, DataOK
  <2>4. IInv'
    BY <2>2 DEF IInv, DataOK, RequestsInv, SocketsInv, PhaseInv, OneHandshake,
       PendingExact, NothingPendingWithoutSocket, FreshIds, FreshSockets, CurrentSocket,
       ConnectPromiseLive, TimerExclusive, ManualCloseHolds, ReadyIsInitialized
  <2> QED
    BY <2>3, <2>4
<1>3. ASSUME NEW next \in Settings, Save(next) PROVE [Next]_vars
  BY <1>3 DEF Save, Reconnect, StopForMissingToken, DisconnectClient, Next, StoreStep
<1>4. ASSUME NEW j \in Slots, Switch(j) \/ Refuse(j) \/ NotPrepared(j) \/ Dropped(j)
      PROVE  [Next]_vars
  BY <1>4 DEF Switch, Refuse, Carry, NotPrepared, Dropped
<1>5. ASSUME NEW j \in Slots, Prepared(j) PROVE [Next]_vars
  BY <1>5 DEF Prepared, JoinClient, Next, StoreStep
<1>6. CASE EnsureClient
  BY <1>1, <1>6 DEF EnsureClient
<1>8. ASSUME NEW s \in Sockets, DialUpstream(s) PROVE [Next]_vars
  BY <1>8 DEF DialUpstream
<1>7. CASE ClientSteps
  <2>1. ASSUME NEW t \in Sockets,
               Open(t) \/ StaleOpen(t) \/ PeerClosing(t) \/ CloseEvent(t) \/ StaleCloseEvent(t)
        PROVE  SocketStep
    BY <2>1 DEF SocketStep
  <2>2. ASSUME NEW t \in Sockets, NEW id \in Ids, Initialized(t, id) \/ InitializeRefused(t, id)
        PROVE  SocketStep
    BY <2>2, Zenon DEF SocketStep
  <2>3. ASSUME NEW id \in Ids, RequestTimeout(id)
        PROVE  TimeStep
    BY <2>3 DEF TimeStep
  <2>4. ASSUME TimerFires \/ GoOnline \/ GoOffline
        PROVE  TimeStep
    BY <2>4 DEF TimeStep
  <2>5. SocketStep \/ TimeStep
    BY <1>7, <2>1, <2>2, <2>3, <2>4 DEF ClientSteps
  <2> QED
    BY <1>1, <2>5 DEF Next
<1> QED
  BY <1>1, <1>2, <1>3, <1>4, <1>5, <1>6, <1>7, <1>8 DEF SetupNext

-----------------------------------------------------------------------------
(* The page's part: one lemma per kind of step.  What ClientKeeps says of   *)
(* the next state is a hypothesis of each.                                  *)

USE DEF SetupInv

\* Steps of the client on its own.
LEMMA ClientStepsKeep ==
    ASSUME SetupInv, ClientSteps, TypeOK', IInv'
    PROVE  SetupInv'
<1>1. UNCHANGED <<settings, shown, created, setups, upstream, leads, saves, alone>>
  BY Zenon DEF ClientSteps, setupVars
<1>2. SetupTypeOK'
  BY <1>1 DEF SetupTypeOK
<1>3. Untouched'
  <2> SUFFICES ASSUME ~created
               PROVE  phase' = "idle" /\ socket' = 0 /\ ~timer' /\ opened' = 0 /\ pending' = {}
    BY <1>1 DEF Untouched
  <2>1. phase = "idle" /\ socket = 0 /\ ~timer /\ opened = 0 /\ pending = {}
    BY DEF Untouched
  <2>2. \A s \in Sockets : s # 0 /\ readyState[s] = "unopened"
    BY <2>1 DEF IInv, SocketsInv, FreshSockets, Sockets
  <2> QED
    BY <2>1, <2>2 DEF ClientSteps, Open, StaleOpen, PeerClosing, CloseEvent, StaleCloseEvent,
       Initialized, InitializeRefused, Answers, RequestTimeout, TimerFires
<1>4. Dialed'
  BY <1>1, ClientOpens DEF Dialed, Sockets
<1>6. Blank'
  BY <1>1 DEF Blank, Free
<1>5. ASSUME alone PROVE OneSetup' /\ SetUp'
  <2>1. OneSetup /\ SetUp /\ (Down => Down')
    BY <1>5, DownStays
  <2>2. OneSetup'
    BY <1>1, <2>1 DEF OneSetup, Free
  <2>3. SetUp'
    <3> SUFFICES ASSUME ~Down'
                 PROVE  /\ upstream = settings.server /\ shown = settings.server
                        /\ socket' # 0 => leads[socket'] \in {Nowhere, settings.server}
      BY <1>1 DEF SetUp
    <3>1. /\ upstream = settings.server /\ shown = settings.server
          /\ socket # 0 => leads[socket] \in {Nowhere, settings.server}
      BY <2>1 DEF SetUp
    <3>2. ASSUME socket' = opened + 1, opened + 1 \in Sockets PROVE leads[socket'] = Nowhere
      BY <3>2 DEF Dialed, Sockets, IInv, DataOK
    <3> QED
      BY <3>1, <3>2, ClientSocket
  <2> QED
    BY <2>2, <2>3
<1> QED
  BY <1>1, <1>2, <1>3, <1>4, <1>5, <1>6

\* The network changes while no client listens.
LEMMA NetworkKeeps ==
    ASSUME SetupInv, NetworkChanges, TypeOK', IInv'
    PROVE  SetupInv'
<1>1. UNCHANGED <<settings, shown, created, setups, upstream, leads, saves, alone, phase,
                  timer, manuallyClosed, socket, pending, opened, readyState, promise>>
  BY Zenon DEF NetworkChanges, setupVars
<1>2. SetupTypeOK'
  BY <1>1 DEF SetupTypeOK
<1>3. Untouched' /\ Dialed' /\ Blank' /\ Down' = Down
  BY <1>1 DEF Untouched, Dialed, Blank, Free, Down
<1>4. (OneSetup => OneSetup') /\ (SetUp => SetUp')
  BY <1>1, <1>3 DEF OneSetup, Free, SetUp
<1> QED
  BY <1>1, <1>2, <1>3, <1>4

\* saveSettings and the retry button.
LEMMA SaveKeeps ==
    ASSUME SetupInv, NEW next \in Settings, Save(next), TypeOK', IInv'
    PROVE  SetupInv'
<1>1. settings' = next /\ saves' = saves + 1 /\ saves < MaxSaves /\ UNCHANGED <<shown, upstream, leads>>
  BY DEF Save
<1>2. CASE next.token
  <2>1. PICK j \in Slots : Reconnect(j)
    BY <1>2 DEF Save
  <2>2. /\ Free(j) /\ created' = TRUE /\ UserDisconnect /\ alone' = AllFree
        /\ setups' = [setups EXCEPT ![j] = Ask("reconnect", next.server)]
    BY <1>1, <2>1 DEF Reconnect
  <2>3. Ask("reconnect", next.server) \in Setups
    BY DEF Ask, Setups, Settings
  <2>4. created' \in BOOLEAN /\ alone' \in BOOLEAN
    BY <2>2, Zenon DEF AllFree, Free
  <2>5. SetupTypeOK'
    BY <1>1, <2>2, <2>3, <2>4 DEF SetupTypeOK
  <2>6. Down' /\ Untouched'
    BY <2>2 DEF Down, Untouched, UserDisconnect, Disconnect
  <2>7. Dialed'
    BY <1>1, <2>2, StoreOpensNone DEF Dialed, Sockets
  <2>9. Blank'
    BY <2>2, <2>3 DEF Blank, Free, Ask, SetupTypeOK
  <2>8. ASSUME AllFree PROVE OneSetup' /\ SetUp'
    <3>1. setups'[j] = Ask("reconnect", next.server)
      BY <2>2 DEF SetupTypeOK
    <3>2. \A i \in Slots : i # j => Free(i)'
      BY <2>2, <2>8 DEF AllFree, Free, SetupTypeOK
    <3> QED
      BY <1>1, <2>6, <3>1, <3>2 DEF OneSetup, SetUp, Ask
  <2> QED
    BY <2>2, <2>5, <2>6, <2>7, <2>8, <2>9
<1>3. CASE ~next.token
  <2>1. DisconnectClient /\ alone' = AllFree /\ UNCHANGED <<created, setups>>
    BY <1>3 DEF Save, StopForMissingToken
  <2>2. alone' \in BOOLEAN
    BY <2>1, Zenon DEF AllFree, Free
  <2>3. SetupTypeOK'
    BY <1>1, <2>1, <2>2 DEF SetupTypeOK
  <2>4. Down' /\ Untouched'
    <3>1. CASE created
      BY <2>1, <3>1 DEF DisconnectClient, Down, Untouched, UserDisconnect, Disconnect
    <3>2. CASE ~created
      BY <2>1, <3>2 DEF DisconnectClient, Down, Untouched, vars
    <3> QED
      BY <3>1, <3>2
  <2>5. Dialed'
    BY <1>1, <2>1, StoreOpensNone DEF Dialed, Sockets, DisconnectClient
  <2>6. ASSUME AllFree PROVE OneSetup' /\ SetUp'
    BY <2>1, <2>4, <2>6 DEF OneSetup, SetUp, AllFree, Free
  <2> QED
    BY <2>1, <2>3, <2>4, <2>5, <2>6 DEF Blank, Free
<1> QED
  BY <1>2, <1>3

\* A call of the store creates the client early.
LEMMA EnsureKeeps ==
    ASSUME SetupInv, EnsureClient, TypeOK', IInv'
    PROVE  SetupInv'
<1>1. created' \in BOOLEAN /\ alone' \in BOOLEAN /\ created' /\ ~alone'
  BY Zenon DEF EnsureClient
<1>2. UNCHANGED <<opened, readyState, promise, settings, shown, setups, upstream, leads, saves>>
  BY DEF EnsureClient, vars
<1>3. SetupTypeOK'
  BY <1>1, <1>2 DEF SetupTypeOK
<1> QED
  BY <1>1, <1>2, <1>3 DEF Untouched, Dialed, Blank, Free

\* The gateway carries a request out, or refuses it.
LEMMA CarryKeeps ==
    ASSUME SetupInv, NEW j \in Slots, Switch(j) \/ Refuse(j), TypeOK', IInv'
    PROVE  SetupInv'
<1>1. PICK result \in {"done", "refused"} :
          /\ Carry(j, result)
          /\ upstream' = IF result = "done" THEN setups[j].server ELSE upstream
  BY DEF Switch, Refuse
<1>2. UNCHANGED <<phase, timer, manuallyClosed, socket, pending, opened, readyState, promise,
                  settings, shown, created, leads, saves, alone>>
  BY <1>1, Zenon DEF Carry, vars
<1>3. /\ setups[j].at = "asking" /\ setups[j] \in Setups /\ ~Free(j)
      /\ setups' \in [Slots -> Setups]
      /\ setups'[j] = IF setups[j].of = "gone" THEN NoSetup ELSE [setups[j] EXCEPT !.at = result]
      /\ \A i \in Slots : i # j => setups'[i] = setups[i]
  BY <1>1 DEF Carry, SetupTypeOK, Setups, Settings, Servers, NoSetup, Blank, Free
<1>4. SetupTypeOK'
  BY <1>1, <1>2, <1>3 DEF SetupTypeOK, Setups
<1>5. Untouched' /\ Dialed' /\ Down' = Down
  BY <1>2 DEF Untouched, Dialed, Down
<1>6. Blank'
  BY <1>3 DEF Blank, Free, Setups, NoSetup
<1>7. ASSUME alone PROVE OneSetup' /\ SetUp'
  <2>1. OneSetup /\ SetUp /\ Down
    BY <1>3, <1>7 DEF OneSetup
  <2>2. SetUp'
    BY <1>5, <2>1 DEF SetUp
  <2>3. \A i \in Slots : ~Free(i)' => i = j
    BY <1>3, <2>1 DEF OneSetup, Free
  <2>4. setups[j].server = settings.server
    BY <1>3, <2>1 DEF OneSetup
  <2>5. ~Free(j)' => /\ setups'[j].server = setups[j].server
                     /\ setups'[j].at = result
    BY <1>3 DEF Free, NoSetup, Setups
  <2> QED
    BY <1>1, <1>2, <1>5, <2>1, <2>2, <2>3, <2>4, <2>5 DEF OneSetup
<1> QED
  BY <1>2, <1>4, <1>5, <1>6, <1>7

\* The page stops waiting, or the request comes to nothing.
LEMMA GiveUpKeeps ==
    ASSUME SetupInv, NEW j \in Slots, NotPrepared(j) \/ Dropped(j), TypeOK', IInv'
    PROVE  SetupInv'
<1>1. UNCHANGED <<phase, timer, manuallyClosed, socket, pending, opened, readyState, promise,
                  settings, shown, created, upstream, leads, saves, alone>>
  BY Zenon DEF NotPrepared, Dropped, vars
<1>2. /\ setups[j] \in Setups /\ ~Free(j)
      /\ setups' \in [Slots -> Setups]
      /\ setups'[j] = NoSetup \/ (/\ setups[j].at = "asking"
                                  /\ setups'[j] = [setups[j] EXCEPT !.of = "gone"])
      /\ \A i \in Slots : i # j => setups'[i] = setups[i]
  BY DEF NotPrepared, Dropped, Waiting, SetupTypeOK, Setups, Settings, Servers, NoSetup, Free
<1>3. SetupTypeOK'
  BY <1>1, <1>2 DEF SetupTypeOK
<1>4. Untouched' /\ Dialed' /\ Down' = Down
  BY <1>1 DEF Untouched, Dialed, Down
<1>5. Blank'
  BY <1>2 DEF Blank, Free, Setups, NoSetup
<1>6. ASSUME alone PROVE OneSetup' /\ SetUp'
  <2>1. OneSetup /\ SetUp /\ Down
    BY <1>2, <1>6 DEF OneSetup
  <2>2. SetUp'
    BY <1>4, <2>1 DEF SetUp
  <2>3. \A i \in Slots : ~Free(i)' => i = j
    BY <1>2, <2>1 DEF OneSetup, Free
  <2>4. ~Free(j)' => setups'[j].server = setups[j].server /\ setups'[j].at = "asking"
    BY <1>2 DEF Free, NoSetup, Setups
  <2> QED
    BY <1>1, <1>2, <1>4, <2>1, <2>2, <2>3, <2>4 DEF OneSetup
<1> QED
  BY <1>1, <1>3, <1>4, <1>5, <1>6

\* The page has its answer: it shows the server, and connects.
LEMMA PreparedKeeps ==
    ASSUME SetupInv, NEW j \in Slots, Prepared(j), TypeOK', IInv'
    PROVE  SetupInv'
<1>1. /\ ~Free(j) /\ setups[j].at = "done"
      /\ setups' = [setups EXCEPT ![j] = NoSetup]
      /\ shown' = setups[j].server /\ created' = TRUE
      /\ UNCHANGED <<settings, upstream, leads, saves, alone>>
  BY DEF Prepared, Waiting, Free
<1>2. UserDisconnect \/ Connect \/ ReconnectNow \/ UNCHANGED vars
  BY DEF Prepared, JoinClient
<1>3. NoSetup \in Setups /\ setups[j] \in Setups
  BY DEF NoSetup, Setups, Servers, SetupTypeOK
<1>4. SetupTypeOK'
  <2>1. created' \in BOOLEAN /\ alone' \in BOOLEAN
    BY <1>1, Zenon DEF SetupTypeOK
  <2> QED
    BY <1>1, <1>3, <2>1 DEF SetupTypeOK, Setups
<1>5. Untouched' /\ Dialed'
  BY <1>1, <1>2, StoreOpensNone DEF Untouched, Dialed, Sockets
<1>6. /\ setups'[j] = NoSetup
      /\ \A i \in Slots : i # j => setups'[i] = setups[i]
  BY <1>1 DEF SetupTypeOK
<1>7. Blank'
  BY <1>6 DEF Blank, Free, NoSetup
<1>8. ASSUME alone PROVE OneSetup' /\ SetUp'
  <2>1. OneSetup /\ Down
    BY <1>1, <1>8 DEF OneSetup
  <2>2. \A i \in Slots : Free(i)'
    BY <1>1, <1>6, <2>1 DEF OneSetup, Free, NoSetup
  <2>3. /\ upstream' = settings'.server /\ shown' = settings'.server
    BY <1>1, <2>1 DEF OneSetup
  <2>4. socket' = 0 \/ (socket' = opened + 1 /\ opened + 1 \in Sockets)
    <3>1. CASE UNCHANGED vars
      BY <2>1, <3>1 DEF vars, Down
    <3>2. CASE UserDisconnect
      BY <3>2 DEF UserDisconnect, Disconnect
    <3>3. CASE Connect
      BY <2>1, <3>3 DEF Connect, Connecting, NewSocket, NoSocket, Down, IInv, DataOK, Sockets
    <3>4. CASE ReconnectNow
      BY <2>1, <3>4 DEF ReconnectNow, Connecting, NewSocket, NoSocket, Down, IInv, DataOK, Sockets
    <3> QED
      BY <1>2, <3>1, <3>2, <3>3, <3>4
  <2>5. socket' # 0 => leads'[socket'] = Nowhere
    BY <1>1, <2>4 DEF Dialed, Sockets, IInv, DataOK
  <2> QED
    BY <2>2, <2>3, <2>5 DEF OneSetup, SetUp
<1> QED
  BY <1>1, <1>4, <1>5, <1>7, <1>8

\* The gateway dials its upstream for a socket.
LEMMA DialKeeps ==
    ASSUME SetupInv, NEW s \in Sockets, DialUpstream(s), TypeOK', IInv'
    PROVE  SetupInv'
<1>1. UNCHANGED <<phase, timer, manuallyClosed, socket, pending, opened, readyState, promise,
                  settings, shown, created, setups, upstream, saves, alone>>
  BY Zenon DEF DialUpstream, vars
<1>2. /\ readyState[s] = "connecting" /\ upstream \in Servers
      /\ leads' = [leads EXCEPT ![s] = upstream]
  BY DEF DialUpstream, SetupTypeOK
<1>3. SetupTypeOK'
  BY <1>1, <1>2 DEF SetupTypeOK
<1>4. s <= opened
  BY <1>2 DEF IInv, SocketsInv, FreshSockets, DataOK, Sockets
<1>5. /\ leads'[s] = upstream /\ upstream # Nowhere
      /\ \A t \in Sockets : t # s => leads'[t] = leads[t]
  BY <1>2 DEF SetupTypeOK, Servers
<1>6. Dialed'
  BY <1>1, <1>4, <1>5 DEF Dialed, Sockets, IInv, DataOK
<1>7. Untouched' /\ Blank' /\ Down' = Down
  BY <1>1 DEF Untouched, Blank, Free, Down
<1>8. ASSUME alone PROVE OneSetup' /\ SetUp'
  <2>1. OneSetup /\ SetUp
    BY <1>8
  <2>2. OneSetup'
    BY <1>1, <1>7, <2>1 DEF OneSetup, Free
  <2>3. socket # 0 => socket \in Sockets
    BY DEF IInv, DataOK, Sockets
  <2>4. SetUp'
    BY <1>1, <1>5, <1>7, <2>1, <2>3 DEF SetUp
  <2> QED
    BY <2>2, <2>4
<1> QED
  BY <1>1, <1>3, <1>6, <1>7, <1>8

\* A step of the page preserves the invariant.
LEMMA SetupStep ==
    ASSUME SetupInv, [SetupNext]_allVars
    PROVE  SetupInv'
<1>1. CASE SetupNext
  <2>1. TypeOK' /\ IInv'
    BY <1>1, ClientKeeps DEF SetupTypeOK
  <2>2. ASSUME NEW next \in Settings, Save(next) PROVE SetupInv'
    BY <2>1, <2>2, SaveKeeps
  <2>3. CASE EnsureClient
    BY <2>1, <2>3, EnsureKeeps
  <2>4. ASSUME NEW j \in Slots, Switch(j) \/ Refuse(j) PROVE SetupInv'
    BY <2>1, <2>4, CarryKeeps
  <2>5. ASSUME NEW j \in Slots, Prepared(j) PROVE SetupInv'
    BY <2>1, <2>5, PreparedKeeps
  <2>6. ASSUME NEW j \in Slots, NotPrepared(j) \/ Dropped(j) PROVE SetupInv'
    BY <2>1, <2>6, GiveUpKeeps
  <2>7. ASSUME NEW s \in Sockets, DialUpstream(s) PROVE SetupInv'
    BY <2>1, <2>7, DialKeeps
  <2>8. CASE ClientSteps
    BY <2>1, <2>8, ClientStepsKeep
  <2>9. CASE NetworkChanges
    BY <2>1, <2>9, NetworkKeeps
  <2> QED
    BY <1>1, <2>2, <2>3, <2>4, <2>5, <2>6, <2>7, <2>8, <2>9 DEF SetupNext
<1>2. CASE UNCHANGED allVars
  <2>1. UNCHANGED vars
    BY <1>2, Zenon DEF allVars
  <2>2. UNCHANGED <<settings, shown, created, setups, upstream, leads, saves, alone>>
    BY <1>2, Zenon DEF allVars, setupVars
  <2>3. UNCHANGED <<phase, timer, manuallyClosed, socket, pending, opened, readyState, promise>>
    BY <2>1, Zenon DEF vars
  <2>4. IInv'
    BY <2>1, InvariantStep
  <2>5. TypeOK'
    BY <2>1, FlagsStep, DataStep DEF TypeOK, SetupTypeOK
  <2>6. SetupTypeOK'
    BY <2>2, <2>5 DEF SetupTypeOK
  <2>7. Untouched' /\ Dialed' /\ Blank' /\ Down' = Down
    BY <2>2, <2>3 DEF Untouched, Dialed, Blank, Free, Down
  <2>8. (OneSetup => OneSetup') /\ (SetUp => SetUp')
    BY <2>2, <2>3, <2>7 DEF OneSetup, Free, SetUp
  <2> QED
    BY <2>2, <2>4, <2>6, <2>7, <2>8
<1> QED
  BY <1>1, <1>2

\* The page starts with no client, and with at most the setup it begins.
LEMMA SetupStarts ==
    ASSUME SetupInit
    PROVE  SetupInv
<1>1. FlagsOK
  BY Zenon DEF SetupInit, Init, FlagsOK
<1>2. DataOK
  BY DEF SetupInit, Init, DataOK, Phases, ReadyStates, Promises, Calls, NoCall
<1>3. IInv
  BY <1>2, InvariantInit DEF SetupInit
<1>4. created \in BOOLEAN /\ alone \in BOOLEAN
  BY Zenon DEF SetupInit
<1>5. NoSetup \in Setups /\ \A x \in Settings : Ask("connect", x.server) \in Setups
  BY DEF NoSetup, Ask, Setups, Settings, Servers
<1>6. setups \in [Slots -> Setups]
  BY <1>5 DEF SetupInit
<1>7. SetupTypeOK
  BY <1>1, <1>2, <1>4, <1>6 DEF SetupInit, SetupTypeOK, TypeOK
<1>8. Untouched /\ Dialed /\ Down
  BY DEF SetupInit, Init, Untouched, Dialed, Down
<1>9. Blank /\ OneSetup /\ SetUp
  <2>1. CASE settings.token
    <3>1. PICK j \in Slots :
              setups = [i \in Slots |->
                           IF i = j THEN Ask("connect", settings.server) ELSE NoSetup]
      BY <2>1 DEF SetupInit
    <3>2. /\ \A i \in Slots : i # j => Free(i) /\ setups[i].at = "refused"
          /\ setups[j].server = settings.server /\ setups[j].at = "asking" /\ ~Free(j)
      BY <3>1 DEF Ask, NoSetup, Free
    <3> QED
      BY <1>8, <3>2 DEF Blank, OneSetup, SetUp
  <2>2. CASE ~settings.token
    BY <1>8, <2>2 DEF SetupInit, NoSetup, Blank, OneSetup, Free, SetUp
  <2> QED
    BY <2>1, <2>2
<1> QED
  BY <1>3, <1>7, <1>8, <1>9

\* However saves, retries, failed and lost control requests and the client's
\* own reconnections interleave, the page and its connection fit together.
THEOREM SetupInductive == SetupSpec => []SetupInv
<1>1. SetupInit => SetupInv
  BY SetupStarts
<1>2. SetupInv /\ [SetupNext]_allVars => SetupInv'
  BY SetupStep
<1> QED
  BY <1>1, <1>2, PTL DEF SetupSpec

\* While reconnect() waits for the gateway there is no socket, and nothing
\* will open one to the old server.
THEOREM ServersChosenInOrder == SetupSpec => []SwitchesInOrder
<1>1. SetupInv => SwitchesInOrder
  BY DEF SwitchesInOrder, OneSetup, Down, Free
<1> QED
  BY <1>1, SetupInductive, PTL

\* A connection that is ready leads to the server of the settings.
THEOREM ConnectedToTheRightServer == SetupSpec => []RightServer
<1>1. ASSUME SetupInv, alone, phase = "ready"
      PROVE  leads[socket] = settings.server /\ shown = settings.server
  <2>1. socket \in Sockets /\ socket # 0 /\ promise[socket] = "resolved"
    BY <1>1 DEF IInv, PhaseInv, ReadyIsInitialized, DataOK, Sockets
  <2>2. leads[socket] # Nowhere
    BY <1>1, <2>1 DEF Dialed
  <2> QED
    BY <1>1, <2>1, <2>2 DEF SetUp, Down
<1>2. SetupInv => RightServer
  BY <1>1 DEF RightServer
<1> QED
  BY <1>2, SetupInductive, PTL
=============================================================================
