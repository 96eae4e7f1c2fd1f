----------------------------- MODULE SshSessions -----------------------------
(***************************************************************************)
(* The gateway's managed SSH sessions: src/backend/src/ssh.rs, with the    *)
(* session slot and the upstream target of AppState (lib.rs).              *)
(*                                                                         *)
(* Request handlers run concurrently on a multi-threaded runtime.  A       *)
(* handler's step ends where it awaits (a lock, a readiness probe, a       *)
(* sleep, the death of a process), so others run between its steps.  A     *)
(* handler whose HTTP client goes away is dropped at an await, and what it *)
(* owns is dropped with it (children are spawned with kill_on_drop).       *)
(***************************************************************************)
EXTENDS Integers, FiniteSets

CONSTANTS
    Handlers,     \* HTTP handlers that may run at the same time
    Ports,        \* loopback ports the operating system may hand out
    Local,        \* the configured local upstream; not a port
    None,         \* no handler holds the session mutex
    MaxChildren,  \* bound: ssh processes somebody keeps at the same time
    Cancellable   \* whether HTTP clients may go away before the response

ASSUME SshAssumption ==
    /\ Local \notin Ports
    /\ None \notin Handlers
    /\ MaxChildren \in Nat
    /\ Cancellable \in BOOLEAN

Children == 1..MaxChildren

Locations == {"idle",
    "polling", "probing", "ready", "installed", "replacing",  \* start_session
    "resetting", "killing",                                   \* stop_managed_ssh
    "stale", "staleReset"}                                    \* current_status

VARIABLES
    pc,        \* where each handler awaits
    mine,      \* the child a start_session owns, or 0
    addr,      \* the forwarding port it reserved
    taken,     \* the session a handler took out of the slot, or 0
    session,   \* AppState.ssh_session: a child, or 0
    mutex,     \* the handler holding the slot's mutex across awaits
    upstream,  \* AppState.upstream: a port, or Local
    child,     \* state of each ssh process; the number of one that has
               \* exited and that nobody keeps is used again
    port,      \* the port each forwards
    changer,   \* history: the handler that changed the slot last, while it
               \* still has to write the upstream; None once it has
    late       \* history: since then an earlier changer has written the
               \* upstream, or the last one was dropped before it wrote

handlerVars == <<pc, mine, addr, taken>>
history == <<changer, late>>
sshVars == <<pc, mine, addr, taken, session, mutex, upstream, child, port, history>>

Alive(c) == child[c] \in {"connecting", "up"}
Bound(p) == \E c \in Children : child[c] = "up" /\ port[c] = p

\* Who would stop the process c when it is done with it.
Owners(c) ==
    {<<"starts", h>> : h \in {g \in Handlers : mine[g] = c}}
        \cup {<<"stops", h>> : h \in {g \in Handlers : taken[g] = c}}
        \cup {<<"slot", h>> : h \in {g \in {None} : session = c}}

SshInit ==
    /\ pc = [h \in Handlers |-> "idle"]
    /\ mine = [h \in Handlers |-> 0]
    /\ addr = [h \in Handlers |-> Local]
    /\ taken = [h \in Handlers |-> 0]
    /\ session = 0
    /\ mutex = None
    /\ upstream = Local
    /\ child = [c \in Children |-> "exited"]
    /\ port = [c \in Children |-> Local]
    /\ changer = None /\ late = FALSE

\* Killing a process, or dropping the Child of one.
Kill(S) == child' = [c \in Children |-> IF c \in S THEN "exited" ELSE child[c]]

Goto(h, from, to) == pc[h] = from /\ pc' = [pc EXCEPT ![h] = to]

\* What a change of the slot and a write of the upstream by h mean for the
\* history.
ChangesSlot(h) == changer' = h /\ late' = FALSE
WritesUpstream(h) ==
    /\ late' = (changer # h)
    /\ changer' = IF changer = h THEN None ELSE changer

-----------------------------------------------------------------------------
(* start_session                                                            *)

\* Reserve a port that is free now, release it and spawn ssh on it.
Spawn(h, p, c) ==
    /\ Goto(h, "idle", "polling")
    /\ ~Bound(p)
    /\ ~Alive(c) /\ Owners(c) = {}
    /\ child' = [child EXCEPT ![c] = "connecting"]
    /\ port' = [port EXCEPT ![c] = p]
    /\ mine' = [mine EXCEPT ![h] = c]
    /\ addr' = [addr EXCEPT ![h] = p]
    /\ UNCHANGED <<taken, session, mutex, upstream, history>>

\* try_wait finds the child gone: report the error.
PollExited(h) ==
    /\ Goto(h, "polling", "idle")
    /\ ~Alive(mine[h])
    /\ mine' = [mine EXCEPT ![h] = 0]
    /\ UNCHANGED <<addr, taken, session, mutex, upstream, child, port, history>>

\* try_wait finds it running: probe the port (up to three 750 ms awaits).
PollAlive(h) ==
    /\ Goto(h, "polling", "probing")
    /\ Alive(mine[h])
    /\ UNCHANGED <<mine, addr, taken, session, mutex, upstream, child, port, history>>

\* Whoever listens on the port answers /readyz.
ProbeReady(h) ==
    /\ Goto(h, "probing", "ready")
    /\ Bound(addr[h])
    /\ UNCHANGED <<mine, addr, taken, session, mutex, upstream, child, port, history>>

\* No answer (yet): sleep and go round the loop.
ProbeFails(h) ==
    /\ Goto(h, "probing", "polling")
    /\ UNCHANGED <<mine, addr, taken, session, mutex, upstream, child, port, history>>

\* No answer and ssh_start_timeout has elapsed.
TimedOut(h) ==
    /\ Goto(h, "probing", "idle")
    /\ Kill({mine[h]})
    /\ mine' = [mine EXCEPT ![h] = 0]
    /\ UNCHANGED <<addr, taken, session, mutex, upstream, port, history>>

\* Put the session into the slot and keep the previous one; the guard is
\* released before the upstream is written.
Replace(h) ==
    /\ Goto(h, "ready", "installed")
    /\ mutex = None
    /\ session' = mine[h]
    /\ mine' = [mine EXCEPT ![h] = 0]
    /\ taken' = [taken EXCEPT ![h] = session]
    /\ ChangesSlot(h)
    /\ UNCHANGED <<addr, mutex, upstream, child, port>>

WriteUpstream(h) ==
    /\ Goto(h, "installed", IF taken[h] = 0 THEN "idle" ELSE "replacing")
    /\ upstream' = addr[h]
    /\ WritesUpstream(h)
    /\ UNCHANGED <<mine, addr, taken, session, mutex, child, port>>

StopPrevious(h) ==
    /\ Goto(h, "replacing", "idle")
    /\ Kill({taken[h]})
    /\ taken' = [taken EXCEPT ![h] = 0]
    /\ UNCHANGED <<mine, addr, session, mutex, upstream, port, history>>

-----------------------------------------------------------------------------
(* stop_managed_ssh: the mutex guard lives to the end of the `if let'.  An  *)
(* empty slot is left as it is, and so is the upstream.                     *)

\* Mutant: the session stays in the slot while it is being stopped.
PeekSession(h) ==
    /\ Goto(h, "idle", "resetting")
    /\ mutex = None
    /\ session # 0
    /\ mutex' = h
    /\ taken' = [taken EXCEPT ![h] = session]
    /\ ChangesSlot(h)
    /\ UNCHANGED <<mine, addr, session, upstream, child, port>>

TakeSession(h) ==
    /\ Goto(h, "idle", "resetting")
    /\ mutex = None
    /\ session # 0
    /\ mutex' = h
    /\ taken' = [taken EXCEPT ![h] = session]
    /\ session' = 0
    /\ ChangesSlot(h)
    /\ UNCHANGED <<mine, addr, upstream, child, port>>

ResetUpstream(h) ==
    /\ Goto(h, "resetting", "killing")
    /\ upstream' = Local
    /\ WritesUpstream(h)
    /\ UNCHANGED <<mine, addr, taken, session, mutex, child, port>>

\* Mutant: the mutex is never released.
StopSessionKeepsMutex(h) ==
    /\ Goto(h, "killing", "idle")
    /\ Kill({taken[h]})
    /\ taken' = [taken EXCEPT ![h] = 0]
    /\ UNCHANGED <<mine, addr, session, mutex, upstream, port, history>>

StopSession(h) ==
    /\ Goto(h, "killing", "idle")
    /\ Kill({taken[h]})
    /\ taken' = [taken EXCEPT ![h] = 0]
    /\ mutex' = None
    /\ UNCHANGED <<mine, addr, session, upstream, port, history>>

-----------------------------------------------------------------------------
(* current_status: a session whose process is gone is removed, with the     *)
(* mutex released before it is stopped and the upstream reset.              *)

TakeStale(h) ==
    /\ Goto(h, "idle", "stale")
    /\ mutex = None
    /\ session # 0
    /\ ~Alive(session)
    /\ taken' = [taken EXCEPT ![h] = session]
    /\ session' = 0
    /\ ChangesSlot(h)
    /\ UNCHANGED <<mine, addr, mutex, upstream, child, port>>

\* Mutant: the dead session is dropped and the upstream stays.
StopStaleOnly(h) ==
    /\ Goto(h, "stale", "idle")
    /\ Kill({taken[h]})
    /\ taken' = [taken EXCEPT ![h] = 0]
    /\ UNCHANGED <<mine, addr, session, mutex, upstream, port, history>>

StopStale(h) ==
    /\ Goto(h, "stale", "staleReset")
    /\ Kill({taken[h]})
    /\ taken' = [taken EXCEPT ![h] = 0]
    /\ UNCHANGED <<mine, addr, session, mutex, upstream, port, history>>

ResetStale(h) ==
    /\ Goto(h, "staleReset", "idle")
    /\ upstream' = Local
    /\ WritesUpstream(h)
    /\ UNCHANGED <<mine, addr, taken, session, mutex, child, port>>

-----------------------------------------------------------------------------
(* Dropped handlers and ssh processes.                                      *)

\* Mutant: children are spawned without kill_on_drop.
CancelLeaksChild(h) ==
    /\ Cancellable
    /\ pc[h] # "idle"
    /\ pc' = [pc EXCEPT ![h] = "idle"]
    /\ mine' = [mine EXCEPT ![h] = 0]
    /\ taken' = [taken EXCEPT ![h] = 0]
    /\ mutex' = IF mutex = h THEN None ELSE mutex
    /\ changer' = IF changer = h THEN None ELSE changer
    /\ late' = (late \/ changer = h)
    /\ UNCHANGED <<addr, session, upstream, child, port>>

\* The HTTP client goes away: the handler's future is dropped, with the
\* child, the session and the mutex guard it holds.
Cancel(h) ==
    /\ Cancellable
    /\ pc[h] # "idle"
    /\ pc' = [pc EXCEPT ![h] = "idle"]
    /\ Kill({mine[h], taken[h]})
    /\ mine' = [mine EXCEPT ![h] = 0]
    /\ taken' = [taken EXCEPT ![h] = 0]
    /\ mutex' = IF mutex = h THEN None ELSE mutex
    /\ changer' = IF changer = h THEN None ELSE changer
    /\ late' = (late \/ changer = h)
    /\ UNCHANGED <<addr, session, upstream, port>>

\* ssh binds its port and the remote app-server answers through it.
TunnelUp(c) ==
    /\ child[c] = "connecting"
    /\ ~Bound(port[c])
    /\ child' = [child EXCEPT ![c] = "up"]
    /\ UNCHANGED <<pc, mine, addr, taken, session, mutex, upstream, port, history>>

\* ssh exits: login refused, the port taken (ExitOnForwardFailure), the
\* connection lost.
ChildExits(c) ==
    /\ Alive(c)
    /\ Kill({c})
    /\ UNCHANGED <<pc, mine, addr, taken, session, mutex, upstream, port, history>>

-----------------------------------------------------------------------------
Connect(h) ==
    \/ \E p \in Ports, c \in Children : Spawn(h, p, c)
    \/ PollExited(h) \/ PollAlive(h) \/ ProbeReady(h) \/ ProbeFails(h) \/ TimedOut(h)
    \/ Replace(h) \/ WriteUpstream(h) \/ StopPrevious(h)
Disconnect(h) == TakeSession(h) \/ ResetUpstream(h) \/ StopSession(h)
Status(h) == TakeStale(h) \/ StopStale(h) \/ ResetStale(h)
Processes == \E c \in Children : TunnelUp(c) \/ ChildExits(c)

SshNext ==
    \/ \E h \in Handlers : Connect(h) \/ Disconnect(h) \/ Status(h) \/ Cancel(h)
    \/ Processes

SshSpec == SshInit /\ [][SshNext]_sshVars

\* The runtime polls every handler; the tokio mutex is FIFO, so a handler
\* that waits for it gets it; the clock reaches the start timeout.
HandlerSteps(h) ==
    \/ PollExited(h) \/ PollAlive(h) \/ ProbeReady(h) \/ ProbeFails(h)
    \/ WriteUpstream(h) \/ StopPrevious(h)
    \/ ResetUpstream(h) \/ StopSession(h) \/ StopStale(h) \/ ResetStale(h)

SshFairness ==
    \A h \in Handlers :
        /\ WF_sshVars(HandlerSteps(h))
        /\ SF_sshVars(Replace(h))
        /\ SF_sshVars(TimedOut(h))

FairSshSpec == SshSpec /\ SshFairness

-----------------------------------------------------------------------------
(* Properties.                                                              *)

SshTypeOK ==
    /\ pc \in [Handlers -> Locations]
    /\ mine \in [Handlers -> Children \cup {0}]
    /\ addr \in [Handlers -> Ports \cup {Local}]
    /\ taken \in [Handlers -> Children \cup {0}]
    /\ session \in Children \cup {0}
    /\ mutex \in Handlers \cup {None}
    /\ upstream \in Ports \cup {Local}
    /\ child \in [Children -> {"connecting", "up", "exited"}]
    /\ port \in [Children -> Ports \cup {Local}]
    /\ changer \in Handlers \cup {None}
    /\ late \in BOOLEAN

\* No ssh process leaks, none is stopped by two handlers, and none that serves
\* is about to be stopped: while a process lives exactly one owner has it
\* (start_session, the slot, or the handler that took it out), and the session
\* in the slot is nobody else's, through replacements, crashes and requests
\* dropped at any await.
OneOwner ==
    /\ \A c \in Children : Alive(c) => Cardinality(Owners(c)) = 1
    /\ session # 0 => \A h \in Handlers : session \notin {mine[h], taken[h]}

AtRest == \A h \in Handlers : pc[h] = "idle"

\* docs/SSH.md: switching back to the local machine returns /ws to the local
\* upstream.  Once every request has finished, an empty slot means the local
\* upstream.
EmptySlotMeansLocal == AtRest /\ session = 0 => upstream = Local

\* /ws goes where the session in the slot listens, and to the local upstream
\* when there is none, once the handler that changed the slot last has had its
\* turn at the upstream, whatever other handlers are doing and whichever of
\* them were dropped.  There are two ways to fail: a handler that changed the
\* slot before writes the upstream after it (connect, ssh.rs:222, or status,
\* ssh.rs:359), or its request is dropped in between.  Either lasts only until
\* the slot changes again.
Settled == \A h \in Handlers :
    changer = h => pc[h] \notin {"installed", "resetting", "stale", "staleReset"}
UpstreamFollowsSlot ==
    Settled /\ ~late => upstream = IF session = 0 THEN Local ELSE port[session]

\* Every request finishes: no handler waits forever for a lock or a tunnel.
HandlersFinish == \A h \in Handlers : pc[h] # "idle" ~> pc[h] = "idle"
=============================================================================
