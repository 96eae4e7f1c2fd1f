---------------------------- MODULE GatewayProofs ----------------------------
(***************************************************************************)
(* Proofs about the SSH sessions and the life of the gateway, for every    *)
(* number of handlers, ports and ssh processes.                            *)
(***************************************************************************)
EXTENDS Gateway, FiniteSetTheorems, TLAPS

USE SshAssumption DEF SshAssumption, Children

-----------------------------------------------------------------------------
(* The inductive invariant of SshSessions.                                  *)

\* Where a handler awaits decides what it keeps.
KeepsByLocation ==
    \A h \in Handlers :
        /\ mine[h] # 0 <=> pc[h] \in {"polling", "probing", "ready"}
        /\ taken[h] # 0 =>
              pc[h] \in {"installed", "replacing", "resetting", "killing", "stale"}

\* No two of the handlers and the slot keep the same process, dead or alive.
KeptOnce ==
    /\ \A h, g \in Handlers :
          /\ h # g => /\ mine[h] # 0 => mine[h] # mine[g]
                      /\ taken[h] # 0 => taken[h] # taken[g]
          /\ mine[h] # 0 => mine[h] # taken[g]
    /\ session # 0 => \A h \in Handlers : session # mine[h] /\ session # taken[h]

\* A process that lives is kept by somebody.
NoneLeaks ==
    \A c \in Children :
        Alive(c) => session = c \/ \E h \in Handlers : mine[h] = c \/ taken[h] = c

\* The mutex is held by the handler inside stop_managed_ssh and by no other.
MutexHeld ==
    \A h \in Handlers : mutex = h <=> pc[h] \in {"resetting", "killing"}

SshInv == SshTypeOK /\ KeepsByLocation /\ KeptOnce /\ NoneLeaks /\ MutexHeld

\* Two handlers are never inside stop_managed_ssh at the same time, so that a
\* session is stopped and the upstream reset by one of them only.
OneStopsAtATime ==
    \A h, g \in Handlers :
        {pc[h], pc[g]} \subseteq {"resetting", "killing"} => h = g

-----------------------------------------------------------------------------
(* What main() relies on.                                                   *)

\* No request runs before the gateway serves or after it has drained; main
\* itself runs a handler's steps only while it stops the SSH session.
Quiet ==
    /\ life # "stoppingSsh" => pc[Main] = "idle"
    /\ life \in Starting \cup {"stoppingSsh", "stoppingCodex", "stopped"} =>
          \A h \in Handlers \ {Main} : pc[h] = "idle"
    /\ life \in Starting \cup {"stoppingCodex", "stopped"} => session = 0

\* The app-server is known to the launch in progress or to codex_process.
CodexKept ==
    /\ CodexAlive => held \/ life \in {"launching", "probing", "killed"}
    /\ life = "stopped" => ~CodexAlive

GatewayInv == TypeOK /\ SshInv /\ Quiet /\ CodexKept

-----------------------------------------------------------------------------
(* The upstream and the slot.                                               *)

\* A handler that starts a session knows the port of its process.
KnowsPort == \A h \in Handlers : mine[h] # 0 => addr[h] = port[mine[h]]

\* What the last change of the slot left in it is what its handler is about to
\* write; once it has written, and no other has since, the two agree.
InTurn ==
    /\ \A h \in Handlers : changer = h =>
          /\ pc[h] \in {"installed", "resetting", "stale", "staleReset"}
          /\ IF pc[h] = "installed" THEN session # 0 /\ addr[h] = port[session]
                                    ELSE session = 0
    /\ changer = None /\ ~late => upstream = IF session = 0 THEN Local ELSE port[session]

InStep == KnowsPort /\ InTurn

-----------------------------------------------------------------------------
(* Every step of SshSessions keeps SshInv.                                  *)

\* Initially nothing is kept and nothing lives.
LEMMA SshInitInv == SshInit => SshInv
<1> SUFFICES ASSUME SshInit PROVE SshInv
  OBVIOUS
<1>1. SshTypeOK
  BY DEF SshInit, SshTypeOK, Locations
<1>2. KeepsByLocation /\ KeptOnce
  BY DEF SshInit, KeepsByLocation, KeptOnce
<1>3. NoneLeaks /\ MutexHeld
  BY DEF SshInit, NoneLeaks, Alive, MutexHeld
<1> QED
  BY <1>1, <1>2, <1>3 DEF SshInv

\* Nobody keeps a process without owners.
LEMMA Unowned ==
    ASSUME NEW c, Owners(c) = {}
    PROVE  session # c /\ \A g \in Handlers : mine[g] # c /\ taken[g] # c
BY DEF Owners

\* Spawning: the process is new, so nobody else keeps it.
LEMMA SpawnKeeps ==
    ASSUME SshInv, NEW h \in Handlers, NEW p \in Ports, NEW c \in Children, Spawn(h, p, c)
    PROVE  SshInv'
<1> USE DEF SshInv, Spawn, Goto, history
<1>1. SshTypeOK'
  BY DEF SshTypeOK, Locations
<1>2. session # c /\ \A g \in Handlers : mine[g] # c /\ taken[g] # c
  BY Unowned
<1>3. KeepsByLocation' /\ KeptOnce'
  BY <1>2 DEF SshTypeOK, KeepsByLocation, KeptOnce
<1>4. NoneLeaks'
  <2>1. /\ mine' = [mine EXCEPT ![h] = c] /\ child' = [child EXCEPT ![c] = "connecting"]
        /\ mine[h] = 0
        /\ UNCHANGED <<taken, session>>
    BY DEF SshTypeOK, KeepsByLocation
  <2>2. mine'[h] = c /\ \A d \in Children \ {c} : Alive(d)' => Alive(d)
    BY <2>1 DEF SshTypeOK, Alive
  <2>3. \A d \in Children, g \in Handlers : mine[g] = d => mine'[g] = d
    BY <2>1 DEF SshTypeOK
  <2> QED
    BY <2>1, <2>2, <2>3 DEF NoneLeaks
<1>5. MutexHeld'
  BY DEF SshTypeOK, MutexHeld
<1> QED
  BY <1>1, <1>3, <1>4, <1>5

\* The awaits of a handler that change only where it is and the upstream.
Waits(h) ==
    \/ PollAlive(h) \/ ProbeReady(h) \/ ProbeFails(h) \/ WriteUpstream(h)
    \/ ResetUpstream(h) \/ ResetStale(h)

\* These steps keep the invariant of the sessions.
LEMMA WaitsKeeps ==
    ASSUME SshInv, NEW h \in Handlers, Waits(h)
    PROVE  SshInv'
<1> USE DEF SshInv, Waits, PollAlive, ProbeReady, ProbeFails, WriteUpstream, ResetUpstream,
            ResetStale, WritesUpstream, Goto, history
<1>1. SshTypeOK'
  <2>1. late' \in BOOLEAN
    BY DEF SshTypeOK
  <2> QED
    BY <2>1 DEF SshTypeOK, Locations
<1>2. KeepsByLocation' /\ KeptOnce'
  BY DEF SshTypeOK, KeepsByLocation, KeptOnce
<1>3. NoneLeaks' /\ MutexHeld'
  BY DEF SshTypeOK, NoneLeaks, Alive, MutexHeld
<1> QED
  BY <1>1, <1>2, <1>3

\* The steps by which a handler is done with what it keeps.
Releases(h) ==
    \/ PollExited(h) \/ TimedOut(h) \/ StopPrevious(h)
    \/ StopSession(h) \/ StopStale(h) \/ Cancel(h)

\* These steps keep it too.
LEMMA ReleasesKeeps ==
    ASSUME SshInv, NEW h \in Handlers, Releases(h)
    PROVE  SshInv'
<1> USE DEF SshInv, Releases, PollExited, TimedOut, StopPrevious, StopSession, StopStale,
            Cancel, Kill, Goto, history
<1>1. SshTypeOK'
  BY DEF SshTypeOK, Locations
<1>2. KeepsByLocation'
  BY DEF SshTypeOK, KeepsByLocation
<1>3. KeptOnce'
  <2>1. /\ mine' \in {mine, [mine EXCEPT ![h] = 0]}
        /\ taken' \in {taken, [taken EXCEPT ![h] = 0]}
        /\ session' = session
    OBVIOUS
  <2> QED
    BY <2>1 DEF SshTypeOK, KeptOnce
<1>4. NoneLeaks'
  BY DEF SshTypeOK, KeepsByLocation, NoneLeaks, Alive
<1>5. MutexHeld'
  BY DEF SshTypeOK, MutexHeld
<1> QED
  BY <1>1, <1>2, <1>3, <1>4, <1>5

\* The new session goes into the slot, the previous one to the handler.
LEMMA ReplaceKeeps ==
    ASSUME SshInv, NEW h \in Handlers, Replace(h)
    PROVE  SshInv'
<1> USE DEF SshInv
<1>1. /\ pc[h] = "ready" /\ mine[h] \in Children /\ taken[h] = 0
      /\ session # mine[h] /\ mutex = None
  BY DEF Replace, Goto, SshTypeOK, KeepsByLocation, KeptOnce
<1>2. /\ pc' = [pc EXCEPT ![h] = "installed"]
      /\ mine' = [mine EXCEPT ![h] = 0]
      /\ taken' = [taken EXCEPT ![h] = session]
      /\ session' = mine[h]
      /\ UNCHANGED <<addr, mutex, upstream, child, port>>
      /\ changer' = h /\ late' = FALSE
  BY DEF Replace, Goto, ChangesSlot
<1>3. SshTypeOK'
  BY <1>1, <1>2 DEF SshTypeOK, Locations
<1>4. KeepsByLocation'
  BY <1>1, <1>2 DEF SshTypeOK, KeepsByLocation
<1>5. KeptOnce'
  <2>1. \A g \in Handlers : /\ mine'[g] = IF g = h THEN 0 ELSE mine[g]
                            /\ taken'[g] = IF g = h THEN session ELSE taken[g]
    BY <1>2 DEF SshTypeOK
  <2> QED
    BY <1>1, <1>2, <2>1 DEF KeptOnce
<1>6. NoneLeaks'
  BY <1>1, <1>2 DEF SshTypeOK, NoneLeaks, Alive
<1>7. MutexHeld'
  BY <1>1, <1>2 DEF SshTypeOK, MutexHeld
<1> QED
  BY <1>3, <1>4, <1>5, <1>6, <1>7

\* stop_managed_ssh and current_status take the session out of the slot.
LEMMA TakeKeeps ==
    ASSUME SshInv, NEW h \in Handlers, TakeSession(h) \/ TakeStale(h)
    PROVE  SshInv'
<1> USE DEF SshInv
<1>1. /\ pc[h] = "idle" /\ mine[h] = 0 /\ taken[h] = 0
      /\ session # 0 /\ mutex = None
  BY DEF TakeSession, TakeStale, Goto, SshTypeOK, KeepsByLocation
<1>2. /\ \/ pc' = [pc EXCEPT ![h] = "resetting"] /\ mutex' = h
         \/ pc' = [pc EXCEPT ![h] = "stale"] /\ mutex' = mutex
      /\ taken' = [taken EXCEPT ![h] = session]
      /\ session' = 0
      /\ UNCHANGED <<mine, addr, upstream, child, port>>
      /\ changer' = h /\ late' = FALSE
  BY DEF TakeSession, TakeStale, Goto, ChangesSlot
<1>3. SshTypeOK'
  BY <1>1, <1>2 DEF SshTypeOK, Locations
<1>4. KeepsByLocation'
  BY <1>1, <1>2 DEF SshTypeOK, KeepsByLocation
<1>5. KeptOnce'
  <2>1. \A g \in Handlers : taken'[g] = IF g = h THEN session ELSE taken[g]
    BY <1>2 DEF SshTypeOK
  <2> QED
    BY <1>1, <1>2, <2>1 DEF KeptOnce
<1>6. NoneLeaks'
  BY <1>1, <1>2 DEF SshTypeOK, NoneLeaks, Alive
<1>7. MutexHeld'
  BY <1>1, <1>2 DEF SshTypeOK, MutexHeld
<1> QED
  BY <1>3, <1>4, <1>5, <1>6, <1>7

\* A tunnel that comes up, or a process that exits.
LEMMA ProcessesKeep ==
    ASSUME SshInv, Processes
    PROVE  SshInv'
<1> USE DEF SshInv, Processes, TunnelUp, ChildExits, Kill, history
<1>1. SshTypeOK'
  BY DEF SshTypeOK
<1>2. KeepsByLocation' /\ KeptOnce' /\ MutexHeld'
  BY DEF KeepsByLocation, KeptOnce, MutexHeld
<1>3. NoneLeaks'
  BY DEF SshTypeOK, NoneLeaks, Alive
<1> QED
  BY <1>1, <1>2, <1>3

\* A step of one handler.
LEMMA HandlerKeeps ==
    ASSUME SshInv, NEW h \in Handlers,
           Connect(h) \/ Disconnect(h) \/ Status(h) \/ Cancel(h)
    PROVE  SshInv'
<1>1. CASE \E p \in Ports, c \in Children : Spawn(h, p, c)
  BY <1>1, SpawnKeeps
<1>2. CASE Waits(h)
  BY <1>2, WaitsKeeps
<1>3. CASE Releases(h)
  BY <1>3, ReleasesKeeps
<1>4. CASE Replace(h)
  BY <1>4, ReplaceKeeps
<1>5. CASE TakeSession(h) \/ TakeStale(h)
  BY <1>5, TakeKeeps
<1> QED
  BY <1>1, <1>2, <1>3, <1>4, <1>5 DEF Connect, Disconnect, Status, Waits, Releases

\* A step that changes nothing of the sessions.
LEMMA StutterKeeps ==
    ASSUME SshInv, UNCHANGED sshVars
    PROVE  SshInv'
BY DEF SshInv, sshVars, history, SshTypeOK, KeepsByLocation, KeptOnce, NoneLeaks, Alive, MutexHeld

\* SshInv holds in every behaviour of the session manager.
THEOREM SshInductive == SshSpec => []SshInv
<1>1. SshInv /\ [SshNext]_sshVars => SshInv'
  BY HandlerKeeps, ProcessesKeep, StutterKeeps DEF SshNext
<1> QED
  BY SshInitInv, <1>1, PTL DEF SshSpec

-----------------------------------------------------------------------------
(* What SshInv says about who owns a process.                               *)

\* KeptOnce and NoneLeaks, counted.
LEMMA OwnedOnce == SshInv => OneOwner
<1> SUFFICES ASSUME SshInv PROVE OneOwner
  OBVIOUS
<1> USE DEF SshInv
<1>1. ASSUME NEW c \in Children, Alive(c)
      PROVE  Cardinality(Owners(c)) = 1
  <2>1. c # 0
    OBVIOUS
  <2>2. \E x : Owners(c) = {x}
    <3>1. CASE session = c
      <4>1. Owners(c) = {<<"slot", None>>}
        BY <2>1, <3>1 DEF KeptOnce, Owners
      <4> QED
        BY <4>1
    <3>2. ASSUME NEW h \in Handlers, mine[h] = c
          PROVE  \E x : Owners(c) = {x}
      <4>1. Owners(c) = {<<"starts", h>>}
        BY <2>1, <3>2 DEF KeptOnce, Owners
      <4> QED
        BY <4>1
    <3>3. ASSUME NEW h \in Handlers, taken[h] = c
          PROVE  \E x : Owners(c) = {x}
      <4>1. Owners(c) = {<<"stops", h>>}
        BY <2>1, <3>3 DEF KeptOnce, Owners
      <4> QED
        BY <4>1
    <3> QED
      BY <1>1, <3>1, <3>2, <3>3 DEF NoneLeaks
  <2> QED
    BY <2>2, FS_Singleton
<1>2. session # 0 => \A h \in Handlers : session \notin {mine[h], taken[h]}
  BY DEF KeptOnce
<1> QED
  BY <1>1, <1>2 DEF OneOwner

\* ssh.rs, AppState.ssh_session: every living ssh process has exactly one owner
\* that will stop it, and the session in the slot is nobody else's.
THEOREM OneOwnerHolds == SshSpec => []OneOwner
BY SshInductive, OwnedOnce, PTL

\* ssh.rs, stop_managed_ssh: the guard that lives to the end of the `if let'
\* keeps two handlers from stopping a session at the same time.
THEOREM StopsAreExclusive == SshSpec => []OneStopsAtATime
<1>1. SshInv => OneStopsAtATime
  BY DEF SshInv, MutexHeld, OneStopsAtATime
<1> QED
  BY SshInductive, <1>1, PTL

-----------------------------------------------------------------------------
(* Every step of the gateway keeps GatewayInv.                              *)

USE GatewayAssumption DEF GatewayAssumption

\* A handler's step moves no other handler.
LEMMA OthersStay ==
    ASSUME SshTypeOK, NEW h \in Handlers,
           Connect(h) \/ Disconnect(h) \/ Status(h) \/ Cancel(h)
    PROVE  \A g \in Handlers \ {h} : pc'[g] = pc[g]
BY DEF SshTypeOK, Connect, Disconnect, Status, Spawn, PollExited, PollAlive, ProbeReady,
       ProbeFails, TimedOut, Replace, WriteUpstream, StopPrevious, TakeSession, ResetUpstream,
       StopSession, TakeStale, StopStale, ResetStale, Cancel, Goto

\* The steps of main() that leave the sessions alone.
MainSteps ==
    \/ Startup \/ LaunchTimedOut \/ Signal \/ EarlySignal
    \/ Drained \/ SshStopped \/ StopCodex
    \/ CodexUp \/ CodexExits \/ ExternalChanges

\* These steps keep the invariant of the gateway.
LEMMA MainKeeps ==
    ASSUME GatewayInv, MainSteps
    PROVE  GatewayInv'
<1>1. UNCHANGED sshVars
  BY DEF MainSteps, Startup, UseExisting, Launch, LaunchExited, LaunchAlive, LaunchReady,
         LaunchNotReady, LaunchTimedOut, Bind, BindFails, Signal, EarlySignal, Drained,
         SshStopped, StopCodex, CodexUp, CodexExits, ExternalChanges
<1>2. SshInv'
  BY <1>1, StutterKeeps DEF GatewayInv
<1>3. TypeOK'
  BY <1>2 DEF GatewayInv, TypeOK, SshInv, Lives, Starting, Stopping, CodexAlive, MainSteps,
         Startup, UseExisting, Launch, LaunchExited, LaunchAlive, LaunchReady,
         LaunchNotReady, LaunchTimedOut, Bind, BindFails, Signal, EarlySignal, Drained,
         SshStopped, StopCodex, CodexUp, CodexExits, ExternalChanges, Phase
<1>4. Quiet'
  BY <1>1 DEF GatewayInv, Quiet, Starting, sshVars, AtRest, MainSteps,
         Startup, UseExisting, Launch, LaunchExited, LaunchAlive, LaunchReady,
         LaunchNotReady, LaunchTimedOut, Bind, BindFails, Signal, EarlySignal, Drained,
         SshStopped, StopCodex, CodexUp, CodexExits, ExternalChanges, Phase
<1>5. CodexKept'
  BY DEF GatewayInv, CodexKept, CodexAlive, Starting, MainSteps,
         Startup, UseExisting, Launch, LaunchExited, LaunchAlive, LaunchReady,
         LaunchNotReady, LaunchTimedOut, Bind, BindFails, Signal, EarlySignal, Drained,
         SshStopped, StopCodex, CodexUp, CodexExits, ExternalChanges, Phase
<1> QED
  BY <1>2, <1>3, <1>4, <1>5 DEF GatewayInv

\* A request's step, or one of stop_managed_ssh called by main.
LEMMA RequestKeeps ==
    ASSUME GatewayInv, StopSsh \/ \E h \in Handlers \ {Main} : Serve(h)
    PROVE  GatewayInv'
<1>1. PICK h \in Handlers :
          /\ Connect(h) \/ Disconnect(h) \/ Status(h) \/ Cancel(h)
          /\ IF h = Main THEN life = "stoppingSsh" ELSE life \in {"serving", "draining"}
          /\ UNCHANGED gatewayVars
  BY DEF StopSsh, Serve
<1>2. SshInv'
  BY <1>1, HandlerKeeps DEF GatewayInv
<1>3. TypeOK' /\ CodexKept'
  BY <1>1, <1>2 DEF GatewayInv, TypeOK, SshInv, CodexKept, CodexAlive, gatewayVars
<1>4. Quiet'
  BY <1>1, OthersStay DEF GatewayInv, SshInv, Quiet, Starting, gatewayVars
<1> QED
  BY <1>2, <1>3, <1>4 DEF GatewayInv

\* A process of a request changes.
LEMMA SshProcessKeeps ==
    ASSUME GatewayInv, Processes, UNCHANGED gatewayVars
    PROVE  GatewayInv'
<1>1. SshInv'
  BY ProcessesKeep DEF GatewayInv
<1>2. UNCHANGED <<pc, session>>
  BY DEF Processes, TunnelUp, ChildExits
<1> QED
  BY <1>1, <1>2 DEF GatewayInv, TypeOK, SshInv, Quiet, CodexKept, CodexAlive, gatewayVars

\* main.rs, ssh.rs: what main and the requests do to the sessions is what the
\* session manager allows: the gateway implements SshSpec, so that whatever
\* holds of the sessions alone holds of them inside the gateway.
THEOREM GatewayImplementsSsh == Spec => SshSpec
<1>1. Init => SshInit
  BY DEF Init
<1>2. [Next]_vars => [SshNext]_sshVars
  BY DEF Next, vars, SshNext, StopSsh, Serve, Shutdown, Startup, UseExisting, Launch,
     LaunchExited, LaunchAlive, LaunchReady, LaunchNotReady, LaunchTimedOut, Bind, BindFails,
     Signal, EarlySignal, Drained, SshStopped, StopCodex, CodexUp, CodexExits, ExternalChanges
<1> QED
  BY <1>1, <1>2, PTL DEF Spec, SshSpec

\* GatewayInv holds in every behaviour of the gateway.
THEOREM GatewayInductive == Spec => []GatewayInv
<1>1. Init => GatewayInv
  BY SshInitInv DEF Init, SshInit, GatewayInv, TypeOK, SshInv, Quiet, CodexKept, CodexAlive,
     Lives, Starting
<1>2. GatewayInv /\ [Next]_vars => GatewayInv'
  <2> SUFFICES ASSUME GatewayInv, [Next]_vars PROVE GatewayInv'
    OBVIOUS
  <2>1. CASE MainSteps
    BY <2>1, MainKeeps
  <2>2. CASE StopSsh \/ \E h \in Handlers \ {Main} : Serve(h)
    BY <2>2, RequestKeeps
  <2>3. CASE Processes /\ UNCHANGED gatewayVars
    BY <2>3, SshProcessKeeps
  <2>4. CASE UNCHANGED vars
    BY <2>4, StutterKeeps DEF vars, gatewayVars, sshVars, GatewayInv, TypeOK, SshInv, Quiet,
       CodexKept, CodexAlive
  <2> QED
    BY <2>1, <2>2, <2>3, <2>4 DEF Next, Shutdown, MainSteps
<1> QED
  BY <1>1, <1>2, PTL DEF Spec

\* docs/SSH.md, gateway shutdown: when main returns nothing that it or a
\* request started is alive, and until then the app-server is kept by the
\* launch or by codex_process.
THEOREM ShutdownStopsAll == Spec => []ShutdownStopsChildren
<1>1. GatewayInv => ShutdownStopsChildren
  <2> SUFFICES ASSUME GatewayInv PROVE ShutdownStopsChildren
    OBVIOUS
  <2>1. ASSUME life = "stopped", NEW c \in Children
        PROVE  ~Alive(c)
    <3>1. session = 0 /\ \A h \in Handlers : pc[h] = "idle"
      BY <2>1 DEF GatewayInv, Quiet
    <3>2. \A h \in Handlers : mine[h] = 0 /\ taken[h] = 0
      BY <3>1 DEF GatewayInv, SshInv, KeepsByLocation
    <3> QED
      BY <3>1, <3>2 DEF GatewayInv, SshInv, NoneLeaks
  <2> QED
    BY <2>1 DEF GatewayInv, CodexKept, ShutdownStopsChildren
<1> QED
  BY <1>1, GatewayInductive, PTL

-----------------------------------------------------------------------------
(* The upstream follows the slot.                                           *)

\* The steps of a handler that change neither the slot nor the upstream, and
\* start nothing.
Apart(h) ==
    \/ PollExited(h) \/ PollAlive(h) \/ ProbeReady(h) \/ ProbeFails(h) \/ TimedOut(h)
    \/ StopPrevious(h) \/ StopSession(h) \/ StopStale(h)

\* Spawning changes no port that the slot or another handler relies on.
LEMMA SpawnInStep ==
    ASSUME SshInv, InStep, NEW h \in Handlers, NEW p \in Ports, NEW c \in Children, Spawn(h, p, c)
    PROVE  InStep'
<1> USE DEF SshInv, SshTypeOK, InStep
<1>1. session # c /\ \A g \in Handlers : mine[g] # c
  BY Unowned DEF Spawn
<1>2. /\ port' = [port EXCEPT ![c] = p] /\ mine' = [mine EXCEPT ![h] = c]
      /\ addr' = [addr EXCEPT ![h] = p] /\ pc' = [pc EXCEPT ![h] = "polling"]
      /\ pc[h] = "idle"
      /\ UNCHANGED <<session, upstream>> /\ changer' = changer /\ late' = late
  BY DEF Spawn, Goto, history
<1>3. KnowsPort'
  BY <1>1, <1>2 DEF KnowsPort
<1>4. session # 0 => port'[session] = port[session]
  BY <1>1, <1>2
<1>5. changer # h
  BY <1>2 DEF InTurn
<1>6. InTurn'
  BY <1>2, <1>4, <1>5 DEF InTurn
<1> QED
  BY <1>3, <1>6

\* Steps apart from the slot and the upstream.
LEMMA ApartInStep ==
    ASSUME SshInv, InStep, NEW h \in Handlers, Apart(h)
    PROVE  InStep'
<1> USE DEF SshInv, SshTypeOK, InStep
<1>1. /\ mine' \in {mine, [mine EXCEPT ![h] = 0]}
      /\ UNCHANGED <<addr, session, upstream, port>> /\ changer' = changer /\ late' = late
  BY DEF Apart, PollExited, PollAlive, ProbeReady, ProbeFails, TimedOut, StopPrevious,
         StopSession, StopStale, history
<1>2. \E to \in Locations :
          /\ pc' = [pc EXCEPT ![h] = to]
          /\ pc[h] \in {"installed", "resetting", "stale", "staleReset"} =>
                pc[h] = "stale" /\ to = "staleReset"
  BY DEF Apart, PollExited, PollAlive, ProbeReady, ProbeFails, TimedOut, StopPrevious,
         StopSession, StopStale, Goto, Locations
<1>3. KnowsPort'
  BY <1>1 DEF KnowsPort
<1>4. InTurn'
  BY <1>1, <1>2 DEF InTurn
<1> QED
  BY <1>3, <1>4

\* A change of the slot: what it leaves is what its handler will write.
LEMMA SlotChangeInStep ==
    ASSUME SshInv, InStep, NEW h \in Handlers, Replace(h) \/ TakeSession(h) \/ TakeStale(h)
    PROVE  InStep'
<1> USE DEF SshInv, SshTypeOK, InStep
<1>1. UNCHANGED <<addr, port>> /\ mine' \in {mine, [mine EXCEPT ![h] = 0]} /\ changer' = h
  BY DEF Replace, TakeSession, TakeStale, ChangesSlot
<1>2. h # None
  BY DEF SshAssumption
<1>3. KnowsPort'
  BY <1>1 DEF KnowsPort
<1>4. /\ pc'[h] \in {"installed", "resetting", "stale", "staleReset"}
      /\ IF pc'[h] = "installed" THEN session' # 0 /\ addr[h] = port[session']
                                 ELSE session' = 0
  BY DEF Replace, TakeSession, TakeStale, Goto, KnowsPort, KeepsByLocation
<1>5. InTurn'
  BY <1>1, <1>2, <1>4 DEF InTurn
<1> QED
  BY <1>3, <1>5

\* A write of the upstream, in its turn or late.
LEMMA WriteInStep ==
    ASSUME SshInv, InStep, NEW h \in Handlers,
           WriteUpstream(h) \/ ResetUpstream(h) \/ ResetStale(h)
    PROVE  InStep'
<1> USE DEF SshInv, SshTypeOK, InStep
<1>1. /\ UNCHANGED <<mine, addr, session, port>> /\ WritesUpstream(h)
      /\ pc[h] \in {"installed", "resetting", "staleReset"}
      /\ upstream' = IF pc[h] = "installed" THEN addr[h] ELSE Local
      /\ \A g \in Handlers \ {h} : pc'[g] = pc[g]
  BY DEF WriteUpstream, ResetUpstream, ResetStale, Goto
<1>2. KnowsPort'
  BY <1>1 DEF KnowsPort
<1>3. CASE changer = h
  <2>1. changer' = None /\ upstream' = IF session = 0 THEN Local ELSE port[session]
    BY <1>1, <1>3 DEF WritesUpstream, InTurn
  <2> QED
    BY <1>1, <1>2, <2>1 DEF InTurn, SshAssumption
<1>4. CASE changer # h
  <2>1. changer' = changer /\ late'
    BY <1>1, <1>4 DEF WritesUpstream
  <2> QED
    BY <1>1, <1>2, <1>4, <2>1 DEF InTurn
<1> QED
  BY <1>3, <1>4

\* A dropped request owes nothing any more; if it was its turn, that is lost.
LEMMA CancelInStep ==
    ASSUME SshInv, InStep, NEW h \in Handlers, Cancel(h)
    PROVE  InStep'
<1> USE DEF SshInv, SshTypeOK, InStep
<1>1. /\ UNCHANGED <<addr, session, upstream, port>> /\ mine' = [mine EXCEPT ![h] = 0]
      /\ \A g \in Handlers \ {h} : pc'[g] = pc[g]
  BY DEF Cancel
<1>2. KnowsPort'
  BY <1>1 DEF KnowsPort
<1>3. CASE changer = h
  <2>1. changer' = None /\ late'
    BY <1>3 DEF Cancel
  <2> QED
    BY <1>2, <2>1 DEF InTurn, SshAssumption
<1>4. CASE changer # h
  <2>1. changer' = changer /\ late' = late
    BY <1>4 DEF Cancel
  <2> QED
    BY <1>1, <1>2, <1>4, <2>1 DEF InTurn
<1> QED
  BY <1>3, <1>4

\* lib.rs, AppState; docs/SSH.md: whatever requests, crashes of ssh and dropped
\* connections come together, /ws goes where the session in the slot listens
\* once the handler that changed the slot last has written the upstream, unless
\* an earlier one wrote it afterwards or the last one was dropped before.
THEOREM UpstreamHolds == SshSpec => []UpstreamFollowsSlot
<1>1. SshInit => InStep
  BY DEF SshInit, InStep, KnowsPort, InTurn
<1>2. SshInv /\ InStep /\ [SshNext]_sshVars => InStep'
  <2> SUFFICES ASSUME SshInv, InStep, [SshNext]_sshVars PROVE InStep'
    OBVIOUS
  <2>1. ASSUME NEW h \in Handlers, Connect(h) \/ Disconnect(h) \/ Status(h) \/ Cancel(h)
        PROVE  InStep'
    <3>1. CASE \E p \in Ports, c \in Children : Spawn(h, p, c)
      BY <3>1, SpawnInStep
    <3>2. CASE Apart(h)
      BY <3>2, ApartInStep
    <3>3. CASE Replace(h) \/ TakeSession(h) \/ TakeStale(h)
      BY <3>3, SlotChangeInStep
    <3>4. CASE WriteUpstream(h) \/ ResetUpstream(h) \/ ResetStale(h)
      BY <3>4, WriteInStep
    <3>5. CASE Cancel(h)
      BY <3>5, CancelInStep
    <3> QED
      BY <2>1, <3>1, <3>2, <3>3, <3>4, <3>5 DEF Connect, Disconnect, Status, Apart
  <2>2. CASE Processes \/ UNCHANGED sshVars
    BY <2>2 DEF Processes, TunnelUp, ChildExits, sshVars, history, InStep, KnowsPort, InTurn
  <2> QED
    BY <2>1, <2>2 DEF SshNext
<1>3. SshInv /\ InStep => UpstreamFollowsSlot
  <2> SUFFICES ASSUME SshInv, InStep, Settled, ~late
               PROVE  upstream = IF session = 0 THEN Local ELSE port[session]
    BY DEF UpstreamFollowsSlot
  <2>1. changer = None
    BY DEF SshInv, SshTypeOK, InStep, InTurn, Settled
  <2> QED
    BY <2>1 DEF InStep, InTurn
<1> QED
  BY <1>1, <1>2, <1>3, SshInductive, PTL DEF SshSpec

\* The same inside the gateway, from startup to the end of the shutdown.
THEOREM GatewayUpstreamHolds == Spec => []UpstreamFollowsSlot
BY GatewayImplementsSsh, UpstreamHolds, PTL

=============================================================================
