# Verification of Pocket Agent

Pocket Agent is a phone-friendly web client for the Codex app-server. A browser page speaks JSON-RPC
over one WebSocket to a gateway process; the gateway relays every frame to an app-server, which runs
on the gateway's machine or, through a managed `ssh -L` process, on another one. This directory holds
TLA+ models of the parts of that system that have state and run concurrently, the TLC runs that check
them, and TLAPS proofs, for all values of the constants, of the safety properties of every
component. Paths below are relative to `src/`.

Every model is written from the code. Documents and tests are used only as the source of promises
that the code is then held to (see *Findings*).

## 1. The system

```
 views ── store (useCodexSession.ts) ── JSON-RPC client ══ /ws ══ relay ══ app-server (local)
              │                          (JsonRpcClient.ts)        │  └══ ssh tunnel ══ app-server (remote)
              └── control client ── POST /api/ssh/* ──── SSH session manager (ssh.rs)
                  (SshGatewayClient.ts)                  gateway life cycle (main.rs, app_server.rs)
```

| part | state it keeps | operations | talks to |
|---|---|---|---|
| JSON-RPC client, `frontend/src/rpc/JsonRpcClient.ts` | phase, attempt, current socket, connection promise, retry timer, pending map, next id, manual-close flag | connect, disconnect, reconnectNow, destroy, call, request, respond; handlers of open, message, close, timeout, retry, online, offline | WebSocket, timers, window events; listeners of the store |
| Store, `frontend/src/stores/useCodexSession.ts` | settings, threads, active thread and turn, prompts, terminal, files, lists | connect, saveSettings, openThread, startThread, sendMessage, respond..., runTerminal, ...; handlers of notifications, server requests, state and ready | the JSON-RPC client, the control client |
| Control client, `frontend/src/gateway/SshGatewayClient.ts` | none | configureGatewayConnection | the gateway's HTTP API |
| Relay, `backend/src/proxy.rs` | per request: the two sockets, the frame being sent | upgrade, select loop, close | AppState's upstream and shutdown channel |
| SSH session manager, `backend/src/ssh.rs` | session slot (mutex), upstream (rwlock), ssh processes, ports | connect, disconnect, status | ssh, the relay (through the upstream) |
| Gateway life cycle, `backend/src/main.rs`, `app_server.rs`, `lib.rs` | where main is, the managed app-server | start, serve, shut down | all of the backend |
| Authentication, configuration, paths, encodings, guards, slash commands | none | pure functions | - |
| Views (`App.vue`, `components/`) | local form state | render, call the store | the store |

What is hard in it, and to be correct about:

* **JSON-RPC client.** Events of sockets that have been replaced arrive late. Three sources (the user,
  the retry timer, the online event) start connections. Requests end by an answer, a timeout, a close,
  a disconnect or a replacement. *Correct*: each request and each connection promise settles, once,
  and is fulfilled only by the connection that carried it; one reconnect loop; "ready" is true;
  recovery ends.
* **Store across connections.** Prompts and the restore belong to one connection, but live in page
  state. *Correct*: a prompt is answered where it was asked, none that can be answered is hidden, every
  connection is restored.
* **Store, terminal.** Output, the end of a command, writes to it, its termination and the loss of its
  connection come in any order, and the user may have run another command by then. *Correct*: the output
  and the exit code shown are those of the command shown, complete and in order; it is shown as running
  while it runs, and can be stopped.
* **Store, threads and turns.** Answers come in any order, the user goes on meanwhile, other clients
  use the same threads. *Correct*: the last thread asked for wins, the loading indicator is
  truthful, the page shows the turns the server has.
* **Store, conversation.** The text of a thread comes as a snapshot and as notifications that start,
  extend, patch and complete items; the page may open the thread, leave it or lose its connection at any
  moment of them. *Correct*: no text has a hole or a repetition, what is finished stays, and in the end
  the page shows what the server has.
* **Store, files and messages.** Listings, uploads, openings and messages await each other's state: a
  directory, the attachments, the open thread. *Correct*: files go where the user was when picking
  them, a message goes to its thread with what is attached, the busy signs are truthful.
* **Store, choice of the server.** A switch is a disconnect, an HTTP request and a connect, and the
  network may change in between. *Correct*: the old server is not dialed during a switch, and a ready
  connection leads to the server of the settings.
* **SSH session manager.** Handlers interleave at every await, and are dropped at any of them when
  their client goes away. Slot and upstream have different locks. *Correct*: each ssh process has one
  owner, the slot's session is nobody else's, the upstream follows the slot, every request ends.
* **Gateway life cycle.** Signals at any time, app-servers that never get ready, requests in progress
  at shutdown. *Correct*: nothing the gateway started outlives it; startup and shutdown end.
* **Relay.** Two streams in one loop, with Close frames, broken connections, full buffers and shutdown.
  *Correct*: nothing lost, duplicated or reordered; an end on one side ends the other.

`PROJECT.json` lists the hazards one by one, each at the line where it bites, with the properties
that cover it or the reason why none does.

## 2. Modules

```
 RpcContract          Link ◄──(implements)── RpcClient ──(implements)──► RpcContract
                       ▲                      ▲
          Workspace, Terminal      ConnectionSetup ◄── ConnectionProofs

 SshSessions ◄── Gateway ◄── GatewayProofs      Files ◄── Composer ◄── PanelProofs ──► Terminal
 Lists ◄── Workspace, Relay, ThreadSession, Transcript, Terminal
 Lists ◄── ListProofs ◄── WorkspaceProofs, RelayProofs, ThreadProofs, TranscriptProofs, PanelProofs
                          (each also extends its component)
```

An arrow `A ◄── B` reads "B extends A"; every component also has an `MC` module for TLC.

**Lists** has JavaScript's `filter` as a recursive function with a set in place of the test. The
library's `SelectSeq` computes the same, but the provers cannot reason about an operator as a parameter.

**RpcClient** (`JsonRpcClient.ts`). One action is one macrotask together with the microtasks it queues:
JavaScript runs promise continuations before the next event, so `rejectPending` and what the rejected
awaits then do are one step. Each variable is a field of the class, except `readyState` (of each
WebSocket), `promise` (of each `openSocket`) and `call` (of each request), which record what the
outside sees. Replaced sockets stay in the model and may still deliver `open`, `message` and `close`.
`ReservedCodeThrows` is a constant: browsers throw `InvalidAccessError` for `close(1011)`, an injected
`socketFactory` may not. Delays, message text and URL building are left out.

**RpcContract** is what the client promises its callers: connections one after the other, requests
settled at most once, fulfilled by the connection that carried them. **Link** is the client as the
store sees it. RpcClient implements both (`ImplementsContract`, `ImplementsLink`), so a module that
extends Link's actions sees every order of events the real client can produce.

**Workspace** (`createClient`, `restoreWorkspace`, `handleServerRequest`, `respond*`), on Link. Server
request ids start again on each connection. `calls` are the calls a running restore
awaits; `Answered` and `Failed` are the ways a call ends. The history variable `disturbed` separates the
connections that simply follow one another from those that overlap after an offline report.

**Terminal** (`runTerminal`, `writeTerminal`, `terminateTerminal`, the case `command/exec/outputDelta`),
on Link. The n-th command has processId n; `running` is the socket that carries its `command/exec`.
The host is external: a process writes, exits (with an answer, well or not), may write a rest after
that, and is terminated; its messages are in order on `wire`. Answers to writes and terminations may come
in any order. Every command writes the same bytes 1, 2, ..., some of which (`Wide`) begin a character
of two, so that the output shown can be compared with what was written, and `Decode` is
`decodeBase64Utf8` applied to each delta by itself (`Begins` are the bytes at which it finds a character
to begin). `replaced` is a history variable: `connect()` has
replaced a socket without rejecting its calls.

**ConnectionSetup** (`connect`, `reconnect`, `saveSettings`, `stopForMissingToken`,
`prepareGatewayConnection`, `configureGatewayConnection`), on RpcClient: its client steps *are* RpcClient's
actions. The gateway is reduced to where its upstream leads; a control request is carried out or
refused, and may be carried out after the page gave up on it. `DialUpstream` is the moment `/ws` reads
the upstream. The history variable `alone` says that setups have not overlapped.

**ThreadSession** (`openThread`, `startThread`, `sendMessage`, `reviewActiveThread`, `turn/started`,
`turn/completed`) against a model of the app-server: each thread has its turns, a connection gets the
notifications of the threads it resumed or started, and what is sent on a connection arrives in order,
while the page's calls are served in any order. Other clients start turns too.

**Transcript** (`handleNotification`, `upsertTurn`, `upsertItem`, `appendItemString`,
`appendIndexedString`, `mergeLifecycleItem`, and the snapshots of `openThread`) has what ThreadSession
leaves out: the items of one thread. `log` is what the app-server wrote, `view` is
`activeThread.turns`. A text is the sequence of its deltas, and a completed one ends in 0, so a
hole, a repetition and a text that is not final can be told apart. The repository does not have the
server's code, and its types leave open what a server puts into its objects; `dialect` is therefore any
combination of three choices: whether the turn of `turn/completed` carries its items or an empty list,
whether the turns of a snapshot contain items in progress, and whether `thread/resume` returns turns at
all (`openThread` falls back to the older answer of `thread/read` if not). Two history variables state
when the page can be expected to be complete: `synced`, it shows a snapshot taken on this
connection; `gap`, that what it shows may lack something no notification will bring: the snapshot is
older than the subscription, or `thread/resume` was carried out and its answer did not arrive, so that
notifications come for a page that still shows what an earlier connection brought.

**Files** (`readDirectory`, `openFileEntry`, `goParentDirectory`, `uploadFiles`, `attachBrowserImage`,
`attachHostPath`, `addAttachment`, `removeAttachment`). Each call of the page is a job that ends, by an
answer or an error, at any time; a batch upload is one job that goes from file to file and ends with a
listing. `files.path` (`path`) and `files.entries` (`listed`, the directory the entries belong to) are
apart, because `openThread` sets the one and not the other.

**Composer** (`sendMessage`, `startThread`, `openThread`) extends Files with what the attachments are
for. A message records the thread that was meant (`home`) and the one that gets it (`dest`). With no
thread open `sendMessage` awaits `startThread` between the capture of the attachments and their
removal, and reads the open thread only then; `muddled` has the attachments that change in between.

**SshSessions** (`ssh.rs`). Each handler has a location `pc`: the await where it is. Steps of different
handlers interleave there, and `Cancel` drops a handler at any of them, with the process it owns
(`kill_on_drop`). `mutex` is the slot's mutex where it is kept across an await. A process
number is used again once its process is dead and nobody keeps it. Two history variables say whose turn
it is to write the upstream: `changer`, the handler that changed the slot last and has not written yet, and
`late`, that an earlier changer has written after it, or that it was dropped before it could.

**Gateway** (`main.rs`, `app_server.rs`) extends it with the life of the process. Main is one more
handler, because its shutdown calls `stop_managed_ssh`.

**Relay** (`proxy.rs`): one `/ws` request, from the dial to the end of its task. `holding` is the frame
whose send is awaited; while there is one, the loop reads neither side nor the shutdown channel.

## 3. Runs

| run | what it explores | bounds |
|---|---|---|
| `rpc` | RpcClient with all its properties, fairness included | 3 sockets, 3 requests, 1 retry |
| `rpc_init_stuck` | finding: a failed handshake in a browser | 2 sockets, 2 requests, 1 retry |
| `setup` | ConnectionSetup | 3 sockets, 3 requests, 1 retry, 2 servers, 2 control requests at a time, a page load and 1 save |
| `ssh_ownership` | two concurrent control requests, dropped at any await | 2 handlers, 2 ports, 2 processes at a time |
| `ssh_race` | finding: connect against disconnect | the same, none dropped |
| `gateway` | startup, serving with one control request, signal, shutdown | 1 handler and main, 2 ports, 2 processes |
| `relay` | one relay, both directions, shutdown at any time | 2 frames each way, buffers of 2 |
| `workspace` | prompts and restore over several connections | 3 connections, 2 server requests each |
| `terminal` | commands, their output, writes and termination over connections that get lost | 2 commands of 3 bytes, 2 connections, 1 write and 1 termination, 2 messages under way |
| `thread_session` | threads and turns with reconnection and other clients | 2 threads and 1 new, 2 turns, 2 calls at a time, 1 loss |
| `transcript` | the text of one thread over openings, losses and all server dialects | 2 turns, 2 items, 2 deltas, 2 messages under way, 1 loss |
| `composer` | files, attachments and messages with calls in any order | 2 file calls, 3 calls in all at a time, 2 openings, 2 messages, 2 uploads, 2 directories |

Why the bounds are enough for what the properties say:

* *Three sockets* are one that is replaced, its replacement, and one more for a retry or a second
  replacement, so a late event can meet both a current socket that is connecting and one that is ready;
  *three requests* are two handshakes and a call. One retry reaches the pause. `rpc` sets
  `ReservedCodeThrows = FALSE`, since with TRUE the liveness properties fail
  (that is `rpc_init_stuck`); the safety properties are proved for both values.
* *Setup*: the page load is one control request and the save another, so they may overlap; the third
  socket is a retry after the switch. Symmetry is used on the slots of control requests, which no
  definition tells apart. The run has only invariants.
* *SSH*: races of the slot and the upstream are between two handlers; with two processes one can be
  replaced while it is being stopped, and with two ports a port can be the same or another. Both handlers
  may be dropped. The gateway run has one control request at a time, none dropped: what it is about is
  the request in progress at shutdown, and requests that meet are the subject of `ssh_ownership`.
* *Relay*: two frames show reordering and duplication. A buffer of two holds a frame and the Close
  behind it.
* *Workspace*: three connections are the one before, the current one, and one that comes while the
  restore of the current one is running; two prompts give one to keep and one to remove.
* *Terminal*: two commands are one that is shown and one that writes, or whose write fails, late. Of three
  bytes the second and third are one character, so a delta may have a whole character or a half. The
  write is to the first command and the termination of the second. Two connections are one that is lost
  or replaced and the next.
* *ThreadSession*: two existing threads for a switch, a new one for `thread/start`, two calls for
  answers out of order, two turns for one that ends while another starts. Threads and slots are
  symmetric; there are only invariants.

* *Transcript*: two items are one that is complete while the other is written; two deltas are a
  prefix the page may miss and a rest it gets; two turns are one that is over. With two messages under
  way an answer of `thread/resume` can be behind a notification and before another. One loss gives a
  page that goes on showing what an earlier connection brought.
* *Composer*: three calls at a time are a listing or an upload, an opening, and a message; two openings
  are the one a message waits for and one that supersedes it. One uploaded file is an image (attached by
  itself), the other is not. The jobs are symmetric; there are only invariants and action
  properties.

`CHECK_DEADLOCK FALSE` is set where the system may stop: a relay that has ended, and models whose
bounds (connections, turns, saves) are used up.

The properties, by run:

* **rpc.** `PendingExact`, `SettledOnce`, `OnlyCurrentAnswers` and `CallersReturn` are about requests:
  none forgotten, none settled twice, none fulfilled by another connection, none hanging.
  `OneLoop`, `ReadyIsInitialized` and `ConnectionInv` are about the one reconnect loop.
  `RecoveryEnds` says that it ends.
* **setup.** `SwitchesInOrder`: while `reconnect()` waits for the gateway no event opens a socket.
  `RightServer`: a ready connection leads to the server of the settings, and the page shows that
  server, through failed and lost control requests, retries and network changes.
* **ssh_ownership.** `OneOwner`. `UpstreamFollowsSlot`: once the handler that changed the slot last has
  written the upstream, it leads to the slot's session, whatever the other handler does; the exceptions are
  a late write and a dropped one, until the slot changes again. `HandlersFinish`: a request that has
  begun ends. (A disconnect or status that waits for the mutex has done nothing yet and is idle in the
  model, so among those that wait it speaks of connects.)
* **gateway.** `ShutdownStopsChildren`, `StartupEnds`, `ShutdownEnds`.
* **relay.** `NothingLost` while it runs, `Faithful` however it ends, `EndPropagates`, `Delivered`,
  `ShutdownEndsRelay`. The last three assume that a side that has not gone away reads what arrives
  (`PeerReceives`): the code has no timeout for a send, so a peer that stops reading holds the relay
  until it goes away or the process exits.
* **workspace.** `PromptsAreCurrent`, `NothingHidden`, `CleanHandOver`, `RestoreEnds`.
* **terminal.** `TerminalTruthful` has three parts. `OutputFaithful`: the output shown is that of the command
  shown, from its start, without
  gap or repetition; a character that is split over two deltas is not readable, since each delta is
  decoded by itself. `Verdict`: a command that is over shows an exit code or an error; with the exit code
  all its output is there. A write or a termination that fails after its command has ended puts its error
  beside the next one: the property names the case. `RunningTruthful`: a command is shown as running
  only while it runs, on the current connection. `TerminateEnds`: stopping it has an end. The last two
  except a socket that `connect()` has replaced: a PTY command on it is shown as running until
  the next close event, because its call is neither rejected nor timed.
* **thread_session.** `LoadingTruthful`, `LatestOpenWins`, `MirrorsServer`.
* **transcript.** `NoHoles`: at any moment, the text shown of an item is a stretch of what the server
  wrote. `FinishedItemsStay`: a finished item is not touched again. `Converges`: once everything sent has
  been handled, each finished item is there, once and in its turn. Where `turn/completed` comes
  with an empty list the page drops the items of that turn (`upsertTurn` replaces the turn as a
  whole), so the last two speak of such a server only as long as the turn lasts; the `itemsView` field
  of `Turn` (`types.ts:62`) suggests that such turns exist, and the store does not read it.
* **composer.** `MessagesAccounted`: a message goes to the thread that was open, or to the one started
  for it, or its failure is shown, unless a later opening superseded that start: then it goes
  elsewhere, or is dropped in silence, and the model has both. `SendsWhatIsShown`, with the
  exception of what changes while a message waits for its thread. `FilesLand`: the directory of an
  upload is the one shown when it was picked, whatever is listed or opened meanwhile; what gets
  attached exists, since the path shown is that of the entries shown in whatever order listings are
  answered, until `openThread` sets the path alone. `BusyTruthful`: the signs end with what they are
  about; of listings that overlap the first to end takes the sign away.

Every module with state has a type invariant (`TypeOK`, `SetupTypeOK`, `SshTypeOK`). That of RpcClient is
checked by `rpc` and is a theorem of its own; those of SshSessions, Gateway, Relay, Workspace,
ConnectionSetup and ThreadSession are proved as parts of the inductive invariants (section 4), and
`TerminalTypeOK` is a theorem of its own.

Each property of a passing run has a mutant in `PROJECT.json`: an operator of the module that changes a
modelled definition the way a plausible bug would, under which the run reports that property violated.

### Fairness

Fairness is stated only where the code or its runtime guarantees progress.

* *RpcClient*: a browser settles every connection attempt and every closing socket, and runs its timers.
  Nothing obliges the server to answer or the user to act.
* *SshSessions, Gateway*: a handler that is not dropped goes on. Taking the mutex is strongly fair,
  because tokio's `Mutex` is first-in first-out. Reaching the deadline of the readiness loop is
  strongly fair, because the deadline passes whatever the probes do. Signals and processes owe nothing.
* *Relay*: the loop is polled again and again, and `tokio::select!` picks a ready branch at random, so a
  branch that is ready again and again is taken (strong fairness). Both peers go on reading
  (`PeerReceives`), as browsers and the app-server do: without it a send may wait for ever, which is a
  limit of the design and listed as a hazard.
* *Workspace*: a call ends by its timeout if by nothing else.
* *Terminal*: what is on the wire arrives, calls of `writeTerminal` and `terminateTerminal` have a
  timeout, a process that is terminated exits, and a socket that is closing gets its close event (the
  browser gives up on the peer's Close by itself). Nothing is assumed of a command that is not
  terminated: with a PTY it has no timeout and may run for ever.

## 4. Proofs

Everything below holds for all values of the constants that satisfy the assumptions of the modules
(`ConstantsAssumption`, `SetupAssumption`, `SshAssumption`, `GatewayAssumption`, `RelayAssumption`,
`LinkAssumption`, `WorkspaceAssumption`, `ThreadAssumption`, `TranscriptAssumption`, `ComposerAssumption`, `FilesAssumption`,
`TerminalAssumption`),
which give their types and say that special values are no others. The bounds only cut
behaviours off, so a proof for every bound is one for runs of every length.

| module | theorem | what it establishes |
|---|---|---|
| ConnectionProofs | `TypeCorrect` | `TypeOK` |
| | `NoRequestForgotten` | `PendingExact` |
| | `OneReconnectLoop` | `OneLoop` (the timer, `connectPromise` and the manual close) |
| | `ReadyIsTruthful` | `ReadyIsInitialized` |
| | `HandshakesExclusive` | `ConnectionInv` |
| | `StaleAnswersIgnored` | `OnlyCurrentAnswers` |
| | `NothingSettlesTwice` | `SettledOnce` |
| | `Refinement` | `ImplementsContract` |
| | `LinkRefinement` | `ImplementsLink` |
| | `ServersChosenInOrder` | `SwitchesInOrder` |
| | `ConnectedToTheRightServer` | `RightServer` |
| GatewayProofs | `OneOwnerHolds` | `OneOwner` |
| | `StopsAreExclusive` | two handlers are never both inside `stop_managed_ssh`'s critical section |
| | `GatewayImplementsSsh` | `Spec => SshSpec`: the gateway implements the session manager |
| | `ShutdownStopsAll` | `ShutdownStopsChildren` |
| | `UpstreamHolds` | `UpstreamFollowsSlot`, of SshSpec; `GatewayUpstreamHolds` says it of the gateway |
| RelayProofs | `NothingIsLost` | `NothingLost` |
| | `RelayIsFaithful` | `Faithful` |
| WorkspaceProofs | `PromptsCurrent` | `PromptsAreCurrent` |
| | `NothingIsHidden` | `NothingHidden` |
| | `HandOverIsClean` | `CleanHandOver` |
| ThreadProofs | `LoadingIsTruthful` | `LoadingTruthful` |
| | `LatestIsShown` | `LatestOpenWins` |
| | `PageMirrorsServer` | `MirrorsServer` |
| TranscriptProofs | `TranscriptCorrect` | the inductive invariant `TranscriptInv` |
| | `ShownWithoutHoles` | `NoHoles` |
| | `PageConverges` | `Converges` |
| | `FinishedStay` | `FinishedItemsStay` |
| PanelProofs | `MessagesGoWhereMeant` | `MessagesAccounted` |
| | `SignsAreTruthful` | `BusyTruthful` |
| | `FilesLandWhereShown` | `FilesLand` |
| | `MessagesCarryWhatIsShown` | `SendsWhatIsShown` |
| | `TerminalTells` | `TerminalTruthful` |
| | `TerminalTyped` | `TerminalTypeOK` |

Hardly any of these properties is inductive alone. The rest of this section says what each needs.

**The client.** Types come first (`FlagsStep`, `DataStep`: one step per action, resting on a typing
lemma for each shared helper). That the timer
excludes a socket needs to know when `connectPromise` is cleared, which needs to know which socket the
one waiting `initialize` belongs to. The inductive invariant is

    IInv == DataOK /\ RequestsInv /\ SocketsInv /\ PhaseInv /\ OneHandshake

where `RequestsInv` ties the pending map to the promises of requests (and says that a client without a
socket waits for nothing), `SocketsInv` ties `connectPromise` to the
current socket, `PhaseInv` is about the timer, the manual close and "ready", and `OneHandshake` says
that at most one `initialize` waits, on the current socket and for its promise. Each action has a lemma
`...Keeps`, with one step for each part. The two action properties and the refinement of RpcContract
follow from IInv step by step. The refinement of Link needs one fact more, that a socket which is open
and not yet established still has its handshake pending or has failed it (`HandshakeHeld`);
`LInv == IInv /\ HandshakeHeld` is proved inductive as well.

**The choice of the server.** The steps of ConnectionSetup are steps of the client, so `SetupInv` stands on
IInv. It adds that the gateway has dialed for exactly the sockets that opened (`Dialed`), that a client
that was not created has done nothing (`Untouched`), and, while setups have not overlapped, the two
facts the properties rest on: a setup in progress means that the client is down and will stay down
(`OneSetup`: no socket, no timer, closed by hand), and a client that is up was set up (`SetUp`: the
upstream, the page and the current socket are at the server of the settings).

**The session manager and the gateway.** That a process has one owner is a matter of where each handler
awaits. `SshInv` says which processes a location keeps (`KeepsByLocation`), that no process is
kept twice (`KeptOnce`, including dead ones: a process number can be used again), that none that lives
is unknown (`NoneLeaks`), and who holds the mutex (`MutexHeld`). With it every await and every drop of
a handler is one case. The gateway implements SshSpec (`GatewayImplementsSsh`): main's shutdown takes
the steps of one more handler. `GatewayInv` adds when handlers can be at work at all (`Quiet`)
and who keeps the app-server (`CodexKept`), from which it follows that nothing is alive when main returns.
`UpstreamHolds` is about any handlers, dropped or not. It rests on `InStep`: a handler that starts a session
knows its port (`KnowsPort`, which needs `KeptOnce`: nobody else's spawn changes the port of a
process that is kept), and what the last change left in the slot is what its handler is about to write
(`InTurn`), also when other handlers write before it does. What a handler writes
out of its turn is where the property stops, as `ssh_race` shows. `GatewayUpstreamHolds` follows from
the refinement.

**The relay.** `InOrder` is the invariant behind both properties: for each direction, what the other
side got, what is in its buffer, what is being sent and what is on the wire make up, in this order, what
was sent. `CloseLast` says that nothing follows a Close frame. After the loop has ended only the
beginning of that is there (`Begins`), and each way to end has to keep a beginning. `Data` drops the Close frames
with `Keep`.

**Prompts and restore.** The three properties are inductive together with `NotReadyYet` (a connection
that is not established has asked nothing), `PromptsArePast` (no prompt is from a connection to come)
and `PhaseTells` (while connections do not overlap, the phase decides whether there are prompts and
calls at all).

**Threads and turns.** There are two invariants. `OpenInv` is about what is awaited: each answer on its
way has its call (`AnswersOK`), and the call with the latest generation, while there is one, opens
what the user wants (`OpenerOK`). It makes `LoadingTruthful` and `LatestOpenWins` inductive.
`MirrorInv` is about what is shown. The page lags behind the server by what is in the inbox, so it says that
the notifications that are still there are all that has happened to a thread since it was last shown,
in the order of its turns (`EventsOK`); that a snapshot on its way shows the thread as it was when the
snapshot was sent (`SnapshotsOK`); that the notification of a turn follows directly on the answer to
`turn/start`, unless no snapshot has been sent yet (`TurnAnswersOK`); and that the page shows its thread as of the
last message it has handled, or one message ahead, since that answer already shows the turn
(`PageOK`). TLC checked `MirrorInv` on the instance of `thread_session` before it was proved. With the
inbox empty `PageOK` is `MirrorsServer`. The lemmas are about what one message makes of a view
(`Shows`) and about what a longer inbox changes for the messages before (`Longer`, `Quiet`).

**The text of a thread.** What the server does is taken as a set of events that only grows (`Happened`: a
turn begins or ends, an item begins, gets its n-th delta, or is completed). Every message tells of
one event or is an answer, so what a page knows before it handles the i-th message is what has
happened without what that message and the later ones tell (`Known`). No part of the invariant
mentions the server's log, only these sets:

    TranscriptInv == Typed /\ InboxInv /\ OpeningInv /\ PageInv

`InboxInv` says that each message is right of what was known when it was sent, and that what was known
then was a consistent past (`Causal`, and `Before`: no completed item was written to since).
`OpeningInv` places the answers of `thread/read` and `thread/resume`. `PageInv` says that a page in step with
the server shows exactly what it knows (`Shows`, `HasAllDone`), that every item it shows complete is so
in what it knows, also where the page lacks others (`AllFinishedOK`), and that what an earlier
connection brought has no holes (`AllWhole`). The step that matters is one lemma: handling a
message that is right leaves a page that shows what it then knows (`AppliedShows`). With nothing
under way all is known, and `PageInv` is `Converges`; `FinishedItemsStay` compares two pages that
both show what they know. TLC checked `TranscriptInv` on two instances before it was proved. The attempt
to prove an earlier form of it showed that the model was wrong: `Lost` reset `gap` although the
page goes on showing what it lacked, which takes three deltas of an item to see, one more than the run has.

**Files and messages.** When `thread/start` is answered, that the message goes to
the thread started for it rests on what has been true since it was written. `WaitersOK` says it: every
opening has a generation of its own, the message that waits for one is still "starting" and meant for
it, and while that opening is the latest no thread is open. What is attached is left arbitrary (`MessagesOK`), so nothing about files is needed.
`FilesInv` is about the jobs: one batch at most, one listing unless two have met, the signs as they
say (`Signs`), and each file still to be written was picked in the directory it goes to (`Landing`).
`SendInv` is the invariant of the messages with one addition: what a message that waits has captured
is what is attached, but for what has changed since (`Captured`).

**The terminal.** Three lemmas are about the text. What `Decode` makes of the bytes from one to another is a
`Chain`: its characters follow each other from the first of these bytes to the last (`DecodeChain`, which
rests on `KeepInOrder`). A chain goes on where another one ends (`ChainConcat`), and one from the
first byte on has every byte in one of its characters (`ChainCovers`). The inductive invariant is

    TerminalInv == TypedT /\ LinkOK /\ HostOK /\ OutputOK /\ VerdictOK /\ RunningOK

Its core is `OutputOK`: the output shown is the chain of the first n bytes, and while the
connection of an interactive command is there, the messages under way lead from n to what its process has
written (`Pending`). A `Trail` says how far the output is when each of them has arrived: each delta starts
where the one before it ended, and at the answer it is at what had been written by the exit, so that the
exit code is not shown before that. What the host does is one lemma (`HostStep`): a trail is
extended at its end, and what the page handles is taken from its beginning (`PendingTail`). `HostOK` says
that nothing is under way of a command that is not there yet, or on a connection that is over, so
that a new command starts with an empty trail. TLC checked the invariant on the instance of
`terminal` before it was proved. The type invariant needs three bounds besides (`BoundsOK`).

**Lists.** What a recursive function computes for every input is usually shown by induction, and the
induction theorems of the library cannot be used, because an operator is their parameter.
`ListProofs` argues with the least counterexample instead, whose existence (`WFMin`) is
a theorem without such a parameter. `KeepMembers` and `KeepInOrder` are what the others cite:
`Keep` has exactly the members it should, in the order they had.

Only model-checked is liveness (`CallersReturn`, `RecoveryEnds`, `HandlersFinish`, `StartupEnds`, `ShutdownEnds`,
`EndPropagates`, `Delivered`, `ShutdownEndsRelay`, `RestoreEnds`, `TerminateEnds`): it rests on
fairness, which contains ENABLED, and that the prover does not reach.

## 5. Findings

Each is a run with an expected violation: a sentence of the repository that the code does not keep.

1. `rpc_init_stuck`: in a browser a failed `initialize` leaves the client in "initializing" for ever,
   because `close(1011)` throws before the promise is rejected (`JsonRpcClient.ts:240`).
2. `ssh_race`: a disconnect between the two writes of a connect leaves the upstream at a dead tunnel
   with an empty slot (`ssh.rs:222`; `docs/SSH.md:51-52`).

Other disagreements were met and have no run; the models have the behaviours, and the properties name
them as exceptions.

* Requests that cross leave `/ws` elsewhere than the connected session (`docs/SSH.md:3-6` says that the
  remote WebSocket is forwarded and the browser uses the same `/ws`). `status` finds the process dead
  and takes it out (`ssh.rs:354`); a connect puts its session in and writes its upstream; then `status`
  resets the upstream (`ssh.rs:359`), and a tunnel that is up is not used. Two connects whose upstream writes
  come in the other order (`ssh.rs:222`) leave it at the tunnel that was just replaced and killed. A
  request dropped between the two writes has the same effect. Each is a behaviour of SshSessions with
  two handlers; `UpstreamFollowsSlot` excepts them by `late`.
* A signal before the handlers are installed leaves the spawned app-server alive (`main.rs:27`;
  `docs/SSH.md:53` says that shutdown stops it). Gateway has it as `EarlySignal`.
* A prompt shown while the phase is "offline" can be answered on the connection that follows
  (`useCodexSession.ts:736`; the comment at 329 says that a dead socket's cannot). `CleanHandOver` excludes
  connections that overlap after an offline report for that reason.
* A connection that becomes ready while the restore of the previous one still waits, because an online
  event replaced its socket without rejecting its calls, is not restored (`useCodexSession.ts:327`;
  `README.md:157-159` says that a new connection reads and resumes the active thread). It is the same
  exception of `CleanHandOver`.
* A message written with no task open goes to an existing task, or is dropped without a word, if the user
  opens or starts another before `thread/start` is answered; the welcome page (`App.vue:115`) says that a
  message creates a task. `MessagesAccounted` names the case.
* `request()` lets a call through before `initialized` (`HandshakeFirst` states the rule of
  `docs/PROTOCOL_COMPATIBILITY.md:22-29`); whether it happens depends on the views.

## 6. What is not modelled

* Lists that a refresh replaces as a whole (models, skills, apps, servers), diffs and plans: nothing else
  depends on them, and a property of them would restate one assignment. Steering,
  interrupting and compacting, which change no state of the page.
* What the app-server puts into its objects beyond the choices of `dialect`, and a server that changes
  its dialect. The reasoning parts of an item (`appendIndexedString`) are one text, like the others.
* The list of protocol events, and what is typed into the terminal.
* Attachments that are not files of the tree: skills, and paths the user types. File names that
  collide. A directory changed by a save of the settings.
* A failed restore of one list, and the texts of errors: every failed call is caught, and only the fact
  that it ended matters to the properties.
* Tokens: a request with a wrong token returns before any state changes.
* Pure helpers (guards, ssh arguments, the encodings other than `decodeBase64Utf8`), the rendering of the views, scripts, TLS and HTTP.
* More than one page on a gateway. The upstream is one for all of them, so pages move each other;
  `RightServer` speaks of one page only.
* ConnectionSetup keeps a tunnel up once it is there: what becomes of one that dies is the subject of
  SshSessions.

## 7. Plan

Done, in this order: RpcClient with its contract and proofs; SshSessions, Gateway; Relay; Link and
Workspace; ThreadSession; ConnectionSetup; Transcript; Files and Composer; Terminal. Then the proofs
of section 4, component by component.

Next: an abstract specification of the relay (two reliable queues that end together) and one of the session
manager (which server is chosen), with Relay and SshSessions shown to implement them.
