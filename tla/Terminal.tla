------------------------------ MODULE Terminal ------------------------------
(***************************************************************************)
(* The terminal: runTerminal, writeTerminal, terminateTerminal and the     *)
(* output deltas (src/frontend/src/stores/useCodexSession.ts), over the    *)
(* connections of Link and a host that runs the commands.  The processId   *)
(* of the n-th command is n.  Every command writes the same bytes, of      *)
(* which some begin a character of two.                                    *)
(***************************************************************************)
EXTENDS Link, Lists, SequencesExt

CONSTANTS
    MaxRuns,  \* bound: commands run
    Length,   \* bound: bytes a command writes
    Calls,    \* bound: writes to commands and terminations, each made once
    MaxWire,  \* bound: messages on their way to the page
    Wide      \* bytes that begin a character of two bytes

ASSUME TerminalAssumption ==
    /\ MaxRuns \in Nat /\ Length \in Nat /\ MaxWire \in Nat
    /\ Calls \subseteq (1..MaxRuns) \X {"write", "terminate"}
    /\ Wide \subseteq 1..(Length - 1)
    /\ \A b \in Wide : b + 1 \notin Wide

Runs == 1..MaxRuns

VARIABLES
    run,       \* shell.processId, 0 before the first command
    running,   \* socket that carries the awaited command/exec, or 0
    output,    \* shell.output
    exitCode,  \* shell.exitCode: the command it is of, or 0
    error,     \* shell.error: the command whose call failed, or 0
    calls,     \* calls awaited by writeTerminal and terminateTerminal
    made,      \* those that have been made
    processes, \* host: of each command, the socket it came by, whether it is
               \* streamed (shell.interactive, while it runs), and how far it is
    wire,      \* from the host to the page, in order
    replaced   \* history: a socket that is not null was replaced by connect()

shellVars == <<run, running, output, exitCode, error>>
callVars == <<calls, made>>
hostVars == <<processes, wire>>
vars == <<linkVars, shellVars, callVars, hostVars, replaced>>

NoProcess == [on |-> 0, pty |-> FALSE, state |-> "none", written |-> 0, atExit |-> 0]

TerminalInit ==
    /\ LinkInit
    /\ run = 0 /\ running = 0 /\ output = <<>> /\ exitCode = 0 /\ error = 0
    /\ calls = {} /\ made = {}
    /\ processes = [r \in Runs |-> NoProcess] /\ wire = <<>>
    /\ replaced = FALSE

\* decodeBase64Utf8 of the bytes after `from', up to `to': a character of
\* which one half is missing is replaced.
Begins(from, to) == {b \in (from + 1)..to : b - 1 \notin Wide \/ b - 1 = from}
Decode(r, from, to) ==
    LET begins == Keep([b \in 1..Length |-> b], Begins(from, to))
        Character(b) == [of |-> r, at |-> b, whole |-> b - 1 \notin Wide /\ (b \in Wide => b < to)]
    IN  [i \in DOMAIN begins |-> Character(begins[i])]

-----------------------------------------------------------------------------
(* Connections.                                                             *)

\* rejectPending, in the order of the calls: the last error stays.
RejectPending ==
    LET Rejected == {r \in Runs : r = run /\ running # 0} \cup {c[1] : c \in calls}
    IN  /\ error' = IF Rejected = {} THEN error ELSE Max(Rejected)
        /\ running' = 0
        /\ calls' = {}

\* The host ends the processes of a connection with it.
NewConnection ==
    /\ wire' = <<>>
    /\ processes' = [r \in Runs |-> IF processes[r].state = "gone" THEN processes[r]
                                    ELSE [NoProcess EXCEPT !.pty = processes[r].pty]]
    /\ UNCHANGED <<run, output, exitCode, made>>

\* connect(): the calls of a socket it replaces are not rejected.
Connect ==
    /\ Dial /\ NewConnection
    /\ replaced' = (replaced \/ socket # "none")
    /\ UNCHANGED <<running, error, calls>>

\* reconnectNow(), the close event, disconnect().
Lost == (Reconnect \/ Drops) /\ NewConnection /\ RejectPending /\ UNCHANGED replaced

OtherEvent ==
    /\ Opens \/ BecomesReady \/ Closes \/ GoesOffline
    /\ UNCHANGED <<shellVars, callVars, hostVars, replaced>>

-----------------------------------------------------------------------------
(* The user.                                                                *)

\* runTerminal, for one command at a time, and in the view only while ready.
\* Without an open socket the call throws.
RunTerminal(pty) ==
    /\ ready /\ running = 0 /\ run < MaxRuns
    /\ run' = run + 1 /\ output' = <<>> /\ exitCode' = 0
    /\ IF IsOpen
       THEN /\ running' = link /\ error' = 0
            /\ processes' = [processes EXCEPT ![run'] =
                   [NoProcess EXCEPT !.on = link, !.pty = pty, !.state = "live"]]
       ELSE error' = run' /\ UNCHANGED <<running, processes>>
    /\ UNCHANGED <<linkVars, callVars, wire, replaced>>

\* writeTerminal, while the command is interactive, and terminateTerminal.
CallHost(op) ==
    /\ running # 0 /\ (op = "write" => processes[run].pty) /\ <<run, op>> \in Calls \ made
    /\ made' = made \cup {<<run, op>>}
    /\ IF IsOpen
       THEN calls' = calls \cup {<<run, op>>} /\ UNCHANGED error
       ELSE error' = run /\ UNCHANGED calls
    /\ UNCHANGED <<linkVars, run, running, output, exitCode, processes, wire, replaced>>

-----------------------------------------------------------------------------
(* The host (external).                                                     *)

Delta(r, from, to) == [is |-> "delta", of |-> r, from |-> from, to |-> to]
ExecAnswer(r, ok, to) == [is |-> IF ok THEN "exit" ELSE "error", of |-> r, from |-> 0, to |-> to]

Sends(message) ==
    /\ Len(wire) < MaxWire
    /\ wire' = Append(wire, message)

Reachable(r) == processes[r].on = link /\ socket = "established"

\* What is left to write may still come after the exit.
ProcessWrites(r, to) ==
    /\ Reachable(r) /\ processes[r].written < to
    /\ processes' = [processes EXCEPT ![r].written = to]
    /\ IF processes[r].pty
       THEN Sends(Delta(r, processes[r].written, to))
       ELSE processes[r].state # "gone" /\ UNCHANGED wire
    /\ UNCHANGED <<linkVars, shellVars, callVars, replaced>>

\* The answer to command/exec, well or not; without a PTY it has all of the
\* output.
Exits(r, ok) ==
    /\ Reachable(r) /\ processes[r].state \in {"live", "doomed"}
    /\ processes' = [processes EXCEPT ![r].state = "gone", ![r].atExit = processes[r].written]
    /\ Sends(ExecAnswer(r, ok, IF processes[r].pty THEN 0 ELSE processes[r].written))
    /\ UNCHANGED <<linkVars, shellVars, callVars, replaced>>

\* The host has received a termination, whether or not the page still waits.
Terminates(r) ==
    /\ Reachable(r) /\ processes[r].state = "live" /\ <<r, "terminate">> \in made
    /\ processes' = [processes EXCEPT ![r].state = "doomed"]
    /\ UNCHANGED <<linkVars, shellVars, callVars, wire, replaced>>

-----------------------------------------------------------------------------
(* What comes back.                                                         *)

Receives(message) ==
    /\ socket = "established" /\ wire # <<>> /\ message = Head(wire)
    /\ wire' = Tail(wire)
    /\ UNCHANGED <<linkVars, run, made, processes, replaced>>

\* Mutant: the output of every process is shown.
AnyProcess(r) == r \in Runs

IsShown(r) == r = run

OutputDelta(message) ==
    /\ Receives(message) /\ message.is = "delta"
    /\ output' = IF IsShown(message.of)
                 THEN output \o Decode(message.of, message.from, message.to) ELSE output
    /\ UNCHANGED <<running, exitCode, error, calls>>

\* The end of runTerminal, unless it has ended before.
ExecAnswered(message) ==
    /\ Receives(message) /\ message.is \in {"exit", "error"}
    /\ IF running # 0 /\ message.of = run
       THEN /\ running' = 0
            /\ IF message.is = "exit"
               THEN output' = output \o Decode(run, 0, message.to) /\ exitCode' = run /\ UNCHANGED error
               ELSE error' = run /\ UNCHANGED <<output, exitCode>>
       ELSE UNCHANGED <<running, output, exitCode, error>>
    /\ UNCHANGED calls

\* The buffered call has a timeout.
ExecTimesOut ==
    /\ running # 0 /\ ~processes[run].pty
    /\ running' = 0 /\ error' = run
    /\ UNCHANGED <<linkVars, run, output, exitCode, callVars, hostVars, replaced>>

CallAnswered(c) ==
    /\ c \in calls /\ socket = "established"
    /\ c[2] = "terminate" => processes[c[1]].state \in {"doomed", "gone"}
    /\ calls' = calls \ {c}
    /\ UNCHANGED <<linkVars, run, running, output, exitCode, error, made, hostVars, replaced>>

\* Mutant: the error is not shown.
FailsSilently(c) ==
    /\ c \in calls
    /\ calls' = calls \ {c}
    /\ UNCHANGED <<linkVars, run, running, output, exitCode, error, made, hostVars, replaced>>

\* An error answer, or a timeout: writeTerminal and terminateTerminal set the
\* error whatever runs by then.
CallFails(c) ==
    /\ c \in calls
    /\ calls' = calls \ {c} /\ error' = c[1]
    /\ UNCHANGED <<linkVars, run, running, output, exitCode, made, hostVars, replaced>>

-----------------------------------------------------------------------------
Connection == Connect \/ Lost \/ OtherEvent

TerminalUser == (\E pty \in BOOLEAN : RunTerminal(pty)) \/ \E op \in {"write", "terminate"} : CallHost(op)

Host ==
    \E r \in Runs :
        \/ \E ok \in BOOLEAN : Exits(r, ok)
        \/ Terminates(r)
        \/ \E to \in 1..Length : ProcessWrites(r, to)

Delivers == \E message \in Range(wire) : OutputDelta(message) \/ ExecAnswered(message)

HostOutcome == Delivers \/ ExecTimesOut \/ \E c \in Calls : CallAnswered(c) \/ CallFails(c)

TerminalNext == Connection \/ TerminalUser \/ Host \/ HostOutcome

TerminalSpec == TerminalInit /\ [][TerminalNext]_vars

\* What is on the wire arrives, a process that is terminated exits, calls with
\* a timeout end, and a socket that is closing gets its close event.
Fairness ==
    /\ WF_vars(Delivers)
    /\ \A r \in Runs : WF_vars(processes[r].state = "doomed" /\ \E ok \in BOOLEAN : Exits(r, ok))
    /\ \A c \in Calls : WF_vars(CallFails(c))
    /\ WF_vars(socket = "closing" /\ Lost)

FairSpec == TerminalSpec /\ Fairness

-----------------------------------------------------------------------------
(* Properties.                                                              *)

TerminalTypeOK ==
    /\ LinkTypeOK
    /\ run \in 0..MaxRuns /\ running \in 0..link /\ replaced \in BOOLEAN
    /\ {exitCode, error} \subseteq 0..run
    /\ output \in Seq([of : Runs, at : 1..Length, whole : BOOLEAN])
    /\ calls \subseteq made /\ made \subseteq Calls
    /\ processes \in [Runs -> [on : 0..link, pty : BOOLEAN, written : 0..Length, atExit : 0..Length,
                               state : {"none", "live", "doomed", "gone"}]]

\* The output shown: what the command shown has written, from the start and
\* in order, without a gap, a repetition, or the output of another command that
\* writes late.  Only a character that is split over two deltas is unreadable.
Follows(x, y) == y.at = x.at + (IF x.whole /\ x.at \in Wide THEN 2 ELSE 1)
OutputFaithful ==
    /\ \A i \in DOMAIN output : output[i].of = run
    /\ output # <<>> => output[1].at = 1
    /\ \A i \in 2..Len(output) : Follows(output[i - 1], output[i])

\* A command that is over shows an exit code or an error.  An exit code is its
\* own, and by then all it had written is shown.  The error of an earlier
\* command is shown only if a write to it or its termination has failed after
\* its end.
Verdict ==
    /\ run # 0 /\ running = 0 => exitCode # 0 \/ error # 0
    /\ exitCode # 0 =>
          /\ exitCode = run /\ running = 0 /\ processes[run].state = "gone"
          /\ \A b \in 1..processes[run].atExit :
                \E i \in DOMAIN output : output[i].at = b \/ (output[i].at = b - 1 /\ b - 1 \in Wide)
    /\ error \notin {0, run} => \E c \in made \ calls : c[1] = error

\* A command is shown as running only while it runs or its answer is on its
\* way, on the connection there is; unless connect() replaced a socket that was
\* not null, whose calls are not rejected.
RunningTruthful ==
    running # 0 =>
        \/ replaced
        \/ /\ running = link /\ socket # "none"
           /\ \/ processes[run].state \in {"live", "doomed"}
              \/ \E message \in Range(wire) : message.is # "delta" /\ message.of = run

\* TerminalPanel.vue: the output, the exit code or error below it and the sign
\* that the command runs are those of the command shown, in any order of
\* deltas, answers, lost connections and the user's next command.
TerminalTruthful == OutputFaithful /\ Verdict /\ RunningTruthful

\* The stop button: a termination ends the command in the page, or shows an
\* error, also when the connection is lost meanwhile.  Only under a socket that
\* connect() has replaced may the command go on for ever.
TerminateEnds ==
    \A r \in Runs :
        <<r, "terminate">> \in calls ~> (run # r \/ running = 0 \/ error = r \/ replaced)
=============================================================================
