------------------------------- MODULE Gateway -------------------------------
(***************************************************************************)
(* The life of the gateway process: src/backend/src/main.rs with the       *)
(* managed Codex app-server (app_server.rs) and the SSH sessions           *)
(* (SshSessions).  main starts or finds an app-server, serves, and after a *)
(* termination signal lets the requests in progress finish and stops what  *)
(* it manages.  Main is the task that runs main(); it calls                *)
(* stop_managed_ssh as the disconnect handler does.                        *)
(***************************************************************************)
EXTENDS SshSessions

CONSTANTS
    Main,       \* the main task, one of Handlers
    AutoStart   \* config.auto_start_codex

ASSUME GatewayAssumption == Main \in Handlers /\ AutoStart \in BOOLEAN

VARIABLES
    life,      \* where main() is
    codex,     \* the app-server process that the gateway spawned
    held,      \* codex_process holds it
    external   \* an app-server started by someone else listens

gatewayVars == <<life, codex, held, external>>
vars == <<sshVars, gatewayVars>>

Starting == {"checking", "launching", "probing", "binding"}
Stopping == {"draining", "stoppingSsh", "stoppingCodex"}
Lives == Starting \cup {"serving"} \cup Stopping \cup {"stopped", "killed"}

Init ==
    /\ SshInit
    /\ life = "checking"
    /\ codex = "none"
    /\ held = FALSE
    /\ external \in BOOLEAN

CodexAlive == codex \in {"starting", "up"}
CodexReady == external \/ codex = "up"
Phase(from, to) == life = from /\ life' = to

-----------------------------------------------------------------------------
(* ensure_codex_available                                                   *)

\* An app-server is there already, or starting one is disabled: serve.
UseExisting ==
    /\ Phase("checking", "binding")
    /\ external \/ ~AutoStart
    /\ UNCHANGED <<sshVars, codex, held, external>>

Launch ==
    /\ Phase("checking", "launching")
    /\ ~external /\ AutoStart
    /\ codex' = "starting"
    /\ UNCHANGED <<sshVars, held, external>>

LaunchExited ==
    /\ Phase("launching", "binding")
    /\ ~CodexAlive
    /\ UNCHANGED <<sshVars, codex, held, external>>

LaunchAlive ==
    /\ Phase("launching", "probing")
    /\ CodexAlive
    /\ UNCHANGED <<sshVars, codex, held, external>>

\* Mutant: the process is not kept.
LaunchReadyForgets ==
    /\ Phase("probing", "binding")
    /\ CodexReady
    /\ UNCHANGED <<sshVars, codex, held, external>>

LaunchReady ==
    /\ Phase("probing", "binding")
    /\ CodexReady
    /\ held' = TRUE
    /\ UNCHANGED <<sshVars, codex, external>>

LaunchNotReady ==
    /\ Phase("probing", "launching")
    /\ UNCHANGED <<sshVars, codex, held, external>>

\* Mutant: the timeout only ends the probe.
LaunchNeverTimesOut ==
    /\ Phase("probing", "launching")
    /\ UNCHANGED <<sshVars, codex, held, external>>

LaunchTimedOut ==
    /\ Phase("probing", "binding")
    /\ codex' = "exited"
    /\ UNCHANGED <<sshVars, held, external>>

-----------------------------------------------------------------------------
(* Serving and shutting down.                                               *)

Bind ==
    /\ Phase("binding", "serving")
    /\ UNCHANGED <<sshVars, codex, held, external>>

\* bind fails: main returns, and dropping the state kills the app-server.
BindFails ==
    /\ Phase("binding", "stopped")
    /\ codex' = IF CodexAlive THEN "exited" ELSE codex
    /\ held' = FALSE
    /\ UNCHANGED <<sshVars, external>>

\* Ctrl+C or SIGTERM: begin_shutdown, and no further request is accepted.
Signal ==
    /\ Phase("serving", "draining")
    /\ UNCHANGED <<sshVars, codex, held, external>>

\* A signal before axum polls shutdown_signal finds no handler installed:
\* the process dies at once and drops nothing.
EarlySignal ==
    /\ life \in Starting
    /\ life' = "killed"
    /\ UNCHANGED <<sshVars, codex, held, external>>

\* Mutant: main goes on while requests are in progress.
DrainedAtOnce ==
    /\ Phase("draining", "stoppingSsh")
    /\ UNCHANGED <<sshVars, codex, held, external>>

\* with_graceful_shutdown returns when every request has been answered.
Drained ==
    /\ Phase("draining", "stoppingSsh")
    /\ AtRest
    /\ UNCHANGED <<sshVars, codex, held, external>>

\* stop_managed_ssh, called by main.
StopSsh ==
    /\ life = "stoppingSsh"
    /\ Disconnect(Main)
    /\ UNCHANGED gatewayVars

SshStopped ==
    /\ Phase("stoppingSsh", "stoppingCodex")
    /\ pc[Main] = "idle" /\ session = 0
    /\ UNCHANGED <<sshVars, codex, held, external>>

\* stop_managed_codex; main returns.
StopCodex ==
    /\ Phase("stoppingCodex", "stopped")
    /\ codex' = IF held /\ CodexAlive THEN "exited" ELSE codex
    /\ held' = FALSE
    /\ UNCHANGED <<sshVars, external>>

-----------------------------------------------------------------------------
(* Requests and processes.                                                  *)

\* A control request starts while the gateway serves, and one in progress
\* also runs on while it drains.
Serve(h) ==
    /\ life = "serving" \/ (life = "draining" /\ pc[h] # "idle")
    /\ Connect(h) \/ Disconnect(h) \/ Status(h) \/ Cancel(h)
    /\ UNCHANGED gatewayVars

\* The managed app-server listens, unless another one has the port.
CodexUp ==
    /\ codex = "starting"
    /\ ~external
    /\ codex' = "up"
    /\ UNCHANGED <<sshVars, life, held, external>>

CodexExits ==
    /\ CodexAlive
    /\ codex' = "exited"
    /\ UNCHANGED <<sshVars, life, held, external>>

\* Somebody starts or stops an app-server of their own.
ExternalChanges ==
    /\ codex # "up"
    /\ external' = ~external
    /\ UNCHANGED <<sshVars, life, codex, held>>

-----------------------------------------------------------------------------
Startup ==
    \/ UseExisting \/ Launch \/ LaunchExited \/ LaunchAlive
    \/ LaunchReady \/ LaunchNotReady \/ Bind \/ BindFails
Shutdown == Drained \/ StopSsh \/ SshStopped \/ StopCodex

Next ==
    \/ Startup \/ LaunchTimedOut \/ Signal \/ EarlySignal \/ Shutdown
    \/ \E h \in Handlers \ {Main} : Serve(h)
    \/ Processes /\ UNCHANGED gatewayVars
    \/ CodexUp \/ CodexExits \/ ExternalChanges

Spec == Init /\ [][Next]_vars

\* main runs until it returns, the start timeout elapses, and the requests
\* are scheduled as in SshFairness.  Signals and processes owe nothing.
Fairness ==
    /\ WF_vars(Startup) /\ SF_vars(LaunchTimedOut) /\ WF_vars(Shutdown)
    /\ \A h \in Handlers \ {Main} :
        /\ WF_vars(HandlerSteps(h) /\ UNCHANGED gatewayVars)
        /\ SF_vars(Replace(h) /\ UNCHANGED gatewayVars)
        /\ SF_vars(TimedOut(h) /\ UNCHANGED gatewayVars)

FairSpec == Spec /\ Fairness

-----------------------------------------------------------------------------
(* Properties.                                                              *)

TypeOK ==
    /\ SshTypeOK
    /\ life \in Lives
    /\ codex \in {"none", "starting", "up", "exited"}
    /\ held \in BOOLEAN
    /\ external \in BOOLEAN

\* docs/SSH.md: gateway shutdown stops the SSH session and any managed
\* app-server.  When main returns, no process that it or a request started
\* is alive, whatever was in progress when the signal came; until then the
\* app-server is known to the launch in progress or to codex_process.
\* (A signal that kills the process at once is not a shutdown.)
ShutdownStopsChildren ==
    /\ life = "stopped" => ~CodexAlive /\ \A c \in Children : ~Alive(c)
    /\ CodexAlive => held \/ life \in {"launching", "probing", "killed"}

\* Startup comes to an end, with an app-server or without.
StartupEnds == life = "checking" ~> life \in {"serving", "stopped", "killed"}

\* A shutdown comes to an end: no request, lock or tunnel holds it up.
ShutdownEnds == life = "draining" ~> life = "stopped"
=============================================================================
