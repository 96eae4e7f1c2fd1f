------------------------------ MODULE RpcClient ------------------------------
(***************************************************************************)
(* The browser's JSON-RPC client: src/frontend/src/rpc/JsonRpcClient.ts.   *)
(*                                                                         *)
(* One action is one macrotask of the page (an API call by the store, a    *)
(* WebSocket event, a timer, a network event) together with the microtasks *)
(* it queues: promise continuations run before the next macrotask, so      *)
(* rejecting an `initialize' request also settles the connection promise   *)
(* of its socket and clears `connectPromise' in the same step.             *)
(*                                                                         *)
(* Sockets are numbered in the order openSocket constructs them and 0      *)
(* stands for null.  A message whose handler changes no state of the       *)
(* client (an answer nobody waits for, a message on a replaced socket, a   *)
(* request refused with "not connected") is a stuttering step.             *)
(***************************************************************************)
EXTENDS Integers, FiniteSets

CONSTANTS
    MaxSockets,         \* bound: WebSockets constructed in a behaviour
    MaxRequests,        \* bound: request ids issued in a behaviour
    MaxAttempts,        \* reconnectMaxAttempts of the configuration
    ReservedCodeThrows  \* TRUE: close(1011) throws InvalidAccessError, as
                        \* browsers do for codes other than 1000, 3000-4999;
                        \* FALSE: it closes, as an injected socketFactory's may

ASSUME ConstantsAssumption ==
    /\ MaxSockets \in Nat
    /\ MaxRequests \in Nat
    /\ MaxAttempts \in Nat
    /\ ReservedCodeThrows \in BOOLEAN

Sockets == 1..MaxSockets
Ids == 1..MaxRequests
Phases == {"idle", "connecting", "initializing", "ready", "reconnecting",
           "offline", "closed"}
ReadyStates == {"unopened", "connecting", "open", "closing", "closed"}
Promises == {"none", "pending", "resolved", "rejected"}
Calls == [sock : Sockets \cup {0}, method : {"none", "initialize", "call"},
          timed : BOOLEAN, outcome : {"unissued", "waiting", "ok", "rejected"}]
NoCall == [sock |-> 0, method |-> "none", timed |-> FALSE, outcome |-> "unissued"]

VARIABLES
    phase,          \* snapshot.phase
    attempt,        \* snapshot.attempt
    timer,          \* reconnectTimer # null
    manuallyClosed,
    connectPromise, \* the socket whose openSocket promise it holds, or 0
    socket,         \* this.socket
    sequence,       \* the last request id
    pending,        \* keys of the pending map
    online,         \* navigator.onLine
    listening,      \* the window listeners are installed (until destroy)
    opened,         \* sockets constructed so far
    readyState,     \* of each WebSocket
    promise,        \* the promise inside openSocket, of each socket
    call            \* what became of each request's promise

vars == <<phase, attempt, timer, manuallyClosed, connectPromise, socket,
          sequence, pending, online, listening, opened, readyState, promise, call>>

Init ==
    /\ phase = "idle"
    /\ attempt = 0
    /\ timer = FALSE
    /\ manuallyClosed = FALSE
    /\ connectPromise = 0
    /\ socket = 0
    /\ sequence = 0
    /\ pending = {}
    /\ online \in BOOLEAN
    /\ listening = TRUE
    /\ opened = 0
    /\ readyState = [s \in Sockets |-> "unopened"]
    /\ promise = [s \in Sockets |-> "none"]
    /\ call = [id \in Ids |-> NoCall]

-----------------------------------------------------------------------------
(* Helpers: the pieces several handlers share.                              *)

\* socket.close(): the close event follows in a later task.
AfterClose(s) ==
    [t \in Sockets |-> IF t = s /\ readyState[t] \in {"connecting", "open"}
                       THEN "closing" ELSE readyState[t]]

\* rejectIfUnsettled on the sockets of S.
AfterReject(S) ==
    [s \in Sockets |-> IF s \in S /\ promise[s] = "pending"
                       THEN "rejected" ELSE promise[s]]

\* Mutant: connectPromise is left as it was.
KeepConnection(S) == S \subseteq Sockets /\ UNCHANGED connectPromise

\* clearCurrentConnection, run when the promises of S have settled.
ClearConnection(S) ==
    connectPromise' = IF connectPromise \in S THEN 0 ELSE connectPromise

\* Sockets whose initialize request is still waiting for its answer.
Handshaking == {call[id].sock : id \in {i \in pending : call[i].method = "initialize"}}

\* Mutant: the entries go without a rejection.
ClearPending == pending' = {} /\ UNCHANGED call

RejectPending ==
    /\ pending' = {}
    /\ call' = [id \in Ids |-> IF id \in pending
                               THEN [call[id] EXCEPT !.outcome = "rejected"]
                               ELSE call[id]]

\* request(): the next id, its pending entry and the frame on the socket.
Send(method, timed) ==
    /\ socket # 0
    /\ readyState[socket] = "open"
    /\ sequence < MaxRequests
    /\ sequence' = sequence + 1
    /\ pending' = pending \cup {sequence + 1}
    /\ call' = [call EXCEPT ![sequence + 1] =
                   [sock |-> socket, method |-> method, timed |-> timed,
                    outcome |-> "waiting"]]

Settle(id, outcome) ==
    /\ pending' = pending \ {id}
    /\ call' = [call EXCEPT ![id].outcome = outcome]

\* openSocket online: a new WebSocket becomes this.socket.  `retrying' is
\* isRetry; ready and prom are the readyState and promise maps on entry.
NewSocket(retrying, ready, prom) ==
    /\ opened < MaxSockets
    /\ phase' = IF retrying THEN "reconnecting" ELSE "connecting"
    /\ opened' = opened + 1
    /\ socket' = opened + 1
    /\ connectPromise' = opened + 1
    /\ readyState' = [ready EXCEPT ![opened + 1] = "connecting"]
    /\ promise' = [prom EXCEPT ![opened + 1] = "pending"]

\* openSocket offline returns at once, its promise fulfilled without a
\* socket; `current' is this.socket on entry.
NoSocket(current, ready, prom) ==
    /\ phase' = "offline"
    /\ socket' = current
    /\ connectPromise' = 0
    /\ readyState' = ready
    /\ promise' = prom
    /\ UNCHANGED opened

\* Mutants: the retry timer stays armed; the manual close is not forgotten.
ConnectingKeepsTimer(current, retrying, ready, prom) ==
    /\ manuallyClosed' = FALSE
    /\ timer' = timer
    /\ \/ ~online /\ NoSocket(current, ready, prom)
       \/ online /\ NewSocket(retrying, ready, prom)
ConnectingStaysClosed(current, retrying, ready, prom) ==
    /\ manuallyClosed' = manuallyClosed
    /\ timer' = FALSE
    /\ \/ ~online /\ NoSocket(current, ready, prom)
       \/ online /\ NewSocket(retrying, ready, prom)

\* connect() past its early returns.
Connecting(current, retrying, ready, prom) ==
    /\ manuallyClosed' = FALSE
    /\ timer' = FALSE
    /\ \/ ~online /\ NoSocket(current, ready, prom)
       \/ online /\ NewSocket(retrying, ready, prom)

\* The catch after initialize(): a current socket is closed with code 1011
\* and the promise rejected, unless that close throws first.
HandshakeFails(s) ==
    IF s = socket /\ ReservedCodeThrows
    THEN UNCHANGED <<readyState, promise, connectPromise>>
    ELSE /\ readyState' = IF s = socket THEN AfterClose(s) ELSE readyState
         /\ promise' = AfterReject({s})
         /\ ClearConnection({s})

\* Mutants: one retry too many; the timer is not armed.
ScheduleOneMore ==
    IF attempt > MaxAttempts
    THEN phase' = "closed" /\ attempt' = MaxAttempts /\ timer' = FALSE
    ELSE phase' = "reconnecting" /\ attempt' = attempt + 1 /\ timer' = TRUE
ScheduleWithoutTimer ==
    /\ timer' = FALSE
    /\ IF attempt + 1 > MaxAttempts
       THEN phase' = "closed" /\ attempt' = MaxAttempts
       ELSE phase' = "reconnecting" /\ attempt' = attempt + 1

\* scheduleReconnect(): pause after MaxAttempts, else arm the timer.
ScheduleReconnect ==
    IF attempt + 1 > MaxAttempts
    THEN /\ phase' = "closed"
         /\ attempt' = MaxAttempts
         /\ timer' = FALSE
    ELSE /\ phase' = "reconnecting"
         /\ attempt' = attempt + 1
         /\ timer' = TRUE

-----------------------------------------------------------------------------
(* Calls made by the store.  Its client is dropped once destroyed.          *)

\* Mutant: an attempt under way is not shared.
ConnectAgain ==
    /\ listening
    /\ phase # "ready"
    /\ Connecting(socket, attempt > 0 \/ phase = "reconnecting", readyState, promise)
    /\ UNCHANGED <<attempt, sequence, pending, online, listening, call>>

Connect ==
    /\ listening
    /\ phase # "ready"
    /\ connectPromise = 0
    /\ Connecting(socket, attempt > 0 \/ phase = "reconnecting", readyState, promise)
    /\ UNCHANGED <<attempt, sequence, pending, online, listening, call>>

Disconnect ==
    /\ manuallyClosed' = TRUE
    /\ timer' = FALSE
    /\ RejectPending
    /\ readyState' = AfterClose(socket)
    /\ socket' = 0
    /\ phase' = "closed"
    /\ promise' = AfterReject(Handshaking)
    /\ ClearConnection(Handshaking)
    /\ UNCHANGED <<attempt, sequence, online, opened>>

UserDisconnect ==
    /\ listening
    /\ Disconnect
    /\ UNCHANGED listening

Destroy ==
    /\ listening
    /\ Disconnect
    /\ listening' = FALSE

ReconnectNow ==
    /\ listening
    /\ attempt' = 0
    /\ RejectPending
    /\ Connecting(0, TRUE, AfterClose(socket), AfterReject(Handshaking))
    /\ UNCHANGED <<sequence, online, listening>>

Request(timed) ==
    /\ listening
    /\ Send("call", timed)
    /\ UNCHANGED <<phase, attempt, timer, manuallyClosed, connectPromise, socket,
                   online, listening, opened, readyState, promise>>

-----------------------------------------------------------------------------
(* WebSocket events.                                                        *)

\* Mutant: each connection numbers its requests from one again.
OpenRestartsIds(s) ==
    /\ readyState[s] = "connecting"
    /\ s = socket
    /\ phase' = "initializing"
    /\ readyState' = [readyState EXCEPT ![s] = "open"]
    /\ sequence' = 1
    /\ pending' = pending \cup {1}
    /\ call' = [call EXCEPT ![1] =
                   [sock |-> s, method |-> "initialize", timed |-> TRUE,
                    outcome |-> "waiting"]]
    /\ UNCHANGED <<attempt, timer, manuallyClosed, connectPromise, socket,
                   online, listening, opened, promise>>

\* `open' on the current socket: initialize() sends its request.
Open(s) ==
    /\ readyState[s] = "connecting"
    /\ s = socket
    /\ sequence < MaxRequests
    /\ phase' = "initializing"
    /\ readyState' = [readyState EXCEPT ![s] = "open"]
    /\ sequence' = sequence + 1
    /\ pending' = pending \cup {sequence + 1}
    /\ call' = [call EXCEPT ![sequence + 1] =
                   [sock |-> s, method |-> "initialize", timed |-> TRUE,
                    outcome |-> "waiting"]]
    /\ UNCHANGED <<attempt, timer, manuallyClosed, connectPromise, socket,
                   online, listening, opened, promise>>

\* `open' queued before its socket was replaced: closed again at once.
StaleOpen(s) ==
    /\ readyState[s] = "closing"
    /\ promise[s] = "pending"
    /\ s # socket
    /\ promise' = AfterReject({s})
    /\ ClearConnection({s})
    /\ UNCHANGED <<phase, attempt, timer, manuallyClosed, socket, sequence,
                   pending, online, listening, opened, readyState, call>>

\* The server answers, on the connection that carried it, a request.
Answers(s, id) ==
    /\ readyState[s] = "open"
    /\ call[id].sock = s

\* Mutant: messages of replaced sockets are handled.
ResponseFromAnySocket(s, id, outcome) ==
    /\ Answers(s, id)
    /\ call[id].method = "call"
    /\ id \in pending
    /\ Settle(id, outcome)
    /\ UNCHANGED <<phase, attempt, timer, manuallyClosed, connectPromise, socket,
                   sequence, online, listening, opened, readyState, promise>>

\* handleMessage of the answer to a call.
Response(s, id, outcome) ==
    /\ Answers(s, id)
    /\ call[id].method = "call"
    /\ s = socket
    /\ id \in pending
    /\ Settle(id, outcome)
    /\ UNCHANGED <<phase, attempt, timer, manuallyClosed, connectPromise, socket,
                   sequence, online, listening, opened, readyState, promise>>

\* handleMessage of the initialize result: `initialized' is sent and the
\* connection is ready.
Initialized(s, id) ==
    /\ Answers(s, id)
    /\ call[id].method = "initialize"
    /\ s = socket
    /\ id \in pending
    /\ Settle(id, "ok")
    /\ phase' = "ready"
    /\ attempt' = 0
    /\ promise' = [promise EXCEPT ![s] = "resolved"]
    /\ ClearConnection({s})
    /\ UNCHANGED <<timer, manuallyClosed, socket, sequence, online, listening,
                   opened, readyState>>

\* handleMessage of an initialize error.
InitializeRefused(s, id) ==
    /\ Answers(s, id)
    /\ call[id].method = "initialize"
    /\ s = socket
    /\ id \in pending
    /\ Settle(id, "rejected")
    /\ HandshakeFails(s)
    /\ UNCHANGED <<phase, attempt, timer, manuallyClosed, socket, sequence,
                   online, listening, opened>>

\* The peer starts the closing handshake; the close event comes later.
PeerClosing(s) ==
    /\ readyState[s] = "open"
    /\ readyState' = [readyState EXCEPT ![s] = "closing"]
    /\ UNCHANGED <<phase, attempt, timer, manuallyClosed, connectPromise, socket,
                   sequence, pending, online, listening, opened, promise, call>>

\* `close' on the current socket.
CloseEvent(s) ==
    /\ readyState[s] \in {"connecting", "open", "closing"}
    /\ s = socket
    /\ readyState' = [readyState EXCEPT ![s] = "closed"]
    /\ socket' = 0
    /\ RejectPending
    /\ promise' = AfterReject(Handshaking \cup {s})
    /\ ClearConnection(Handshaking \cup {s})
    /\ IF manuallyClosed THEN UNCHANGED <<phase, attempt, timer>>
                         ELSE ScheduleReconnect
    /\ UNCHANGED <<manuallyClosed, sequence, online, listening, opened>>

\* Mutants: a replaced socket takes this.socket away; its promise is left.
StaleCloseTakesSocket(s) ==
    /\ readyState[s] \in {"connecting", "open", "closing"}
    /\ s # socket
    /\ readyState' = [readyState EXCEPT ![s] = "closed"]
    /\ socket' = 0
    /\ UNCHANGED <<phase, attempt, timer, manuallyClosed, connectPromise, sequence,
                   pending, online, listening, opened, promise, call>>
StaleCloseIgnored(s) ==
    /\ readyState[s] \in {"connecting", "open", "closing"}
    /\ s # socket
    /\ readyState' = [readyState EXCEPT ![s] = "closed"]
    /\ UNCHANGED <<phase, attempt, timer, manuallyClosed, connectPromise, socket,
                   sequence, pending, online, listening, opened, promise, call>>

\* `close' on a replaced socket: only its own promise is rejected.
StaleCloseEvent(s) ==
    /\ readyState[s] \in {"connecting", "open", "closing"}
    /\ s # socket
    /\ readyState' = [readyState EXCEPT ![s] = "closed"]
    /\ promise' = AfterReject({s})
    /\ ClearConnection({s})
    /\ UNCHANGED <<phase, attempt, timer, manuallyClosed, socket, sequence,
                   pending, online, listening, opened, call>>

-----------------------------------------------------------------------------
(* Timers and network events.                                               *)

RequestTimeout(id) ==
    /\ id \in pending
    /\ call[id].timed
    /\ Settle(id, "rejected")
    /\ \/ call[id].method = "initialize" /\ HandshakeFails(call[id].sock)
       \/ call[id].method = "call" /\ UNCHANGED <<readyState, promise, connectPromise>>
    /\ UNCHANGED <<phase, attempt, timer, manuallyClosed, socket, sequence,
                   online, listening, opened>>

TimerFires ==
    /\ timer
    /\ IF phase # "ready" /\ connectPromise = 0
       THEN Connecting(socket, attempt > 0 \/ phase = "reconnecting", readyState, promise)
       ELSE /\ timer' = FALSE
            /\ UNCHANGED <<phase, manuallyClosed, connectPromise, socket, opened,
                           readyState, promise>>
    /\ UNCHANGED <<attempt, sequence, pending, online, listening, call>>

\* navigator.onLine turns true; handleOnline runs while it is installed.
GoOnline ==
    /\ ~online
    /\ online' = TRUE
    /\ \/ /\ ~listening \/ manuallyClosed \/ phase = "ready"
          /\ UNCHANGED <<phase, timer, connectPromise, socket, opened, readyState, promise>>
       \/ /\ listening /\ ~manuallyClosed /\ phase # "ready"
          /\ connectPromise # 0
          /\ phase' = "reconnecting"
          /\ UNCHANGED <<timer, connectPromise, socket, opened, readyState, promise>>
       \/ /\ listening /\ ~manuallyClosed /\ phase # "ready"
          /\ connectPromise = 0
          /\ timer' = FALSE
          /\ NewSocket(TRUE, readyState, promise)
    /\ UNCHANGED <<attempt, manuallyClosed, sequence, pending, listening, call>>

GoOffline ==
    /\ online
    /\ online' = FALSE
    /\ \/ /\ listening
          /\ timer' = FALSE
          /\ phase' = "offline"
       \/ /\ ~listening
          /\ UNCHANGED <<timer, phase>>
    /\ UNCHANGED <<attempt, manuallyClosed, connectPromise, socket, sequence,
                   pending, listening, opened, readyState, promise, call>>

-----------------------------------------------------------------------------
StoreStep ==
    \/ Connect \/ UserDisconnect \/ Destroy \/ ReconnectNow
    \/ \E timed \in BOOLEAN : Request(timed)

SocketStep ==
    \/ \E s \in Sockets : Open(s) \/ StaleOpen(s) \/ PeerClosing(s)
                          \/ CloseEvent(s) \/ StaleCloseEvent(s)
    \/ \E s \in Sockets, id \in Ids :
          \/ \E outcome \in {"ok", "rejected"} : Response(s, id, outcome)
          \/ Initialized(s, id)
          \/ InitializeRefused(s, id)

TimeStep ==
    \/ \E id \in Ids : RequestTimeout(id)
    \/ TimerFires \/ GoOnline \/ GoOffline

Next == StoreStep \/ SocketStep \/ TimeStep

Spec == Init /\ [][Next]_vars

\* The browser settles every connection attempt and every closing socket and
\* runs its timers; nothing obliges the server to answer or the user to act.
SocketSettles(s) ==
    /\ readyState[s] \in {"connecting", "closing"}
    /\ Open(s) \/ CloseEvent(s) \/ StaleCloseEvent(s)

Fairness ==
    /\ \A s \in Sockets : WF_vars(SocketSettles(s))
    /\ \A id \in Ids : WF_vars(RequestTimeout(id))
    /\ WF_vars(TimerFires)

FairSpec == Spec /\ Fairness

-----------------------------------------------------------------------------
(* Properties.                                                              *)

FlagsOK ==
    /\ timer \in BOOLEAN
    /\ manuallyClosed \in BOOLEAN
    /\ online \in BOOLEAN
    /\ listening \in BOOLEAN

DataOK ==
    /\ phase \in Phases
    /\ attempt \in 0..MaxAttempts
    /\ connectPromise \in 0..opened
    /\ socket \in 0..opened
    /\ sequence \in 0..MaxRequests
    /\ pending \in SUBSET (1..sequence)
    /\ opened \in 0..MaxSockets
    /\ readyState \in [Sockets -> ReadyStates]
    /\ promise \in [Sockets -> Promises]
    /\ call \in [Ids -> Calls]

\* Every variable keeps its type; retries never pass MaxAttempts, request ids
\* and socket numbers never pass the ones handed out.
TypeOK == FlagsOK /\ DataOK

\* No request is forgotten: the promise of a request is unsettled exactly
\* while the pending map still holds its resolvers (request, handleMessage,
\* rejectPending, the timeout callback).
PendingExact ==
    \A id \in Ids : id \in pending <=> call[id].outcome = "waiting"

\* A client without a socket waits for no answer: disconnect and the close
\* event reject everything pending before this.socket stays null.  (A part of
\* the inductive invariant of ConnectionProofs.)
NothingPendingWithoutSocket == socket = 0 => pending = {}

\* While the retry timer is armed no socket exists, no connection attempt is
\* under way and the user has not disconnected.
TimerExclusive ==
    timer => /\ phase = "reconnecting"
             /\ socket = 0
             /\ connectPromise = 0
             /\ ~manuallyClosed

\* "ready" tells the truth: the current socket has completed the handshake.
ReadyIsInitialized ==
    phase = "ready" => socket # 0 /\ promise[socket] = "resolved"

\* connect() hands out connectPromise to later callers, so it must never hold
\* a promise that has already settled.
ConnectPromiseLive ==
    connectPromise # 0 => promise[connectPromise] = "pending"

\* After disconnect() nothing reconnects on its own: while manuallyClosed no
\* socket is current.
ManualCloseHolds == manuallyClosed => socket = 0 /\ ~timer

\* There is one reconnect loop, whatever the user, the retry timer and network
\* events start: the timer never races the socket it would replace, an attempt
\* that has settled is not handed out again, and disconnect() ends it all.
OneLoop == TimerExclusive /\ ConnectPromiseLive /\ ManualCloseHolds

FreshIds == \A id \in Ids : id > sequence => call[id] = NoCall

FreshSockets ==
    \A s \in Sockets : s > opened => readyState[s] = "unopened" /\ promise[s] = "none"

CurrentSocket ==
    socket # 0 => /\ readyState[socket] \in {"connecting", "open", "closing"}
                  /\ connectPromise \in {0, socket}
                  /\ readyState[socket] = "connecting" => connectPromise = socket

OneHandshake ==
    \A id \in pending : call[id].method = "initialize" =>
        /\ call[id].sock = socket
        /\ call[id].sock = connectPromise
        /\ readyState[socket] # "connecting"
        /\ \A other \in pending : call[other].method = "initialize" => other = id

\* What ties the connection together, needed by the induction: numbers not yet
\* used are blank, connectPromise belongs to the current socket, and at most
\* one initialize request waits, on that socket and for that promise: the
\* handshake of a replaced socket can never complete the new connection.
ConnectionInv == FreshIds /\ FreshSockets /\ CurrentSocket /\ OneHandshake

\* Answers of a replaced connection have no effect: a request is fulfilled
\* only by the connection that carried it, while it is the current one.
OnlyCurrentAnswers ==
    [][\A id \in Ids :
          call[id].outcome = "waiting" /\ call'[id].outcome = "ok"
             => call[id].sock = socket]_vars

\* A request settles once, and its id stands for no other request afterwards,
\* over any number of connections; a connection promise settles once.
SettledOnce ==
    [][/\ \A id \in Ids : call[id].outcome \in {"ok", "rejected"} => call'[id] = call[id]
       /\ \A s \in Sockets : promise[s] \in {"resolved", "rejected"}
                                => promise'[s] = promise[s]]_vars

\* Nobody hangs on the client: every connect() the store awaits settles, and
\* every request with a timeout (browser timers and sockets permitting).
CallersReturn ==
    /\ \A s \in Sockets : promise[s] = "pending" ~> promise[s] # "pending"
    /\ \A id \in Ids :
          call[id].outcome = "waiting" /\ call[id].timed ~> call[id].outcome # "waiting"

\* Recovery ends: a client that is connecting, initializing or waiting to
\* retry becomes ready, pauses, or goes offline (unless the bound on sockets
\* of this instance is used up).
RecoveryEnds ==
    phase \in {"connecting", "initializing", "reconnecting"}
        ~> (phase \in {"ready", "closed", "offline"} \/ opened = MaxSockets)

\* JsonRpcClient.test.ts ("pauses after repeated failures"): a handshake that
\* fails ends, in a retry or in a pause the user can act on.
InitializationEnds == phase = "initializing" ~> phase # "initializing"

\* docs/PROTOCOL_COMPATIBILITY.md: on each connection `initialized' precedes
\* every other request.
HandshakeFirst ==
    [][\A id \in Ids :
          call[id].outcome = "unissued" /\ call'[id].method = "call"
             => promise[socket] = "resolved"]_vars

\* The client implements the abstract contract of RpcContract.
Contract == INSTANCE RpcContract WITH
    Connections <- Sockets,
    current <- socket,
    used <- opened,
    issued <- sequence,
    on <- [id \in Ids |-> call[id].sock],
    outcome <- [id \in Ids |-> call[id].outcome]

\* Every behaviour of the client, seen through the mapping above, is one of
\* the contract: whatever sockets, timers and network events do.
ImplementsContract == Contract!Spec

\* How far this.socket is, in the terms of Link.
LinkSocket ==
    IF socket = 0 THEN "none"
    ELSE IF readyState[socket] # "open" THEN readyState[socket]
    ELSE IF promise[socket] = "resolved" THEN "established" ELSE "initializing"

LinkView == INSTANCE Link WITH
    MaxLinks <- MaxSockets,
    link <- opened,
    socket <- LinkSocket,
    ready <- phase = "ready"

\* What the store relies on: seen from the store, the client does only what
\* Link allows, so the properties of the modules built on Link hold over it.
ImplementsLink == LinkView!LinkSpec
=============================================================================
