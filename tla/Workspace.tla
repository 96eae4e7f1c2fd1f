------------------------------ MODULE Workspace ------------------------------
(***************************************************************************)
(* What the store carries from one connection to the next: the prompts of  *)
(* the app-server (approvals, questions) and the restore that follows each *)
(* connection (src/frontend/src/stores/useCodexSession.ts).  Connections   *)
(* are those of Link; calls end with an answer on the current socket, by   *)
(* their timeout, or when the client rejects everything pending.           *)
(***************************************************************************)
EXTENDS Link, Lists, SequencesExt

CONSTANT MaxPrompts  \* bound: requests one connection makes

ASSUME WorkspaceAssumption == MaxPrompts \in Nat

Links == 1..MaxLinks
\* Ids of server requests count anew on each connection.
Prompts == [link : Links, id : 1..MaxPrompts]
CallNames == {"thread/read", "thread/resume", "lists"}

VARIABLES
    remembered,  \* activeThreadId: the page has a thread to restore
    calls,       \* calls the running restoreWorkspace awaits; empty: not restoring
    restoredOn,  \* socket for which restoreWorkspace last ran, and its calls went
    prompts,     \* pendingRequests, in the order shown
    asked,       \* requests the current connection has made
    waiting,     \* those of them without an answer or resolution yet
    answered,    \* the latest answer: whose prompt it was, and the socket it took
    disturbed    \* history: the browser reported offline, or a socket that is
                 \* not null was replaced by connect()

restoreVars == <<remembered, calls, restoredOn>>
promptVars == <<prompts, asked, waiting, answered>>
vars == <<linkVars, restoreVars, promptVars, disturbed>>

Init ==
    /\ LinkInit
    /\ remembered \in BOOLEAN /\ calls = {} /\ restoredOn = 0
    /\ prompts = <<>> /\ asked = 0 /\ waiting = {}
    /\ answered = [of |-> 0, on |-> 0]
    /\ disturbed = FALSE

-----------------------------------------------------------------------------
(* Connections.                                                             *)

\* Mutant: the prompts survive the connection.
KeepPromptsOnLeave == IF ready THEN UNCHANGED prompts ELSE UNCHANGED prompts

\* The onState listener: leaving "ready" empties the prompts.
ClearPromptsOnLeave == prompts' = IF ready THEN <<>> ELSE prompts

\* Mutant: a call on a lost connection waits for its timeout.
KeepCalls == UNCHANGED calls

\* rejectPending: the awaits of restoreWorkspace throw, and it is over before
\* the next event.
RejectCalls == calls' = {}

\* What the old connection was asked is out of reach.
NewConnection == asked' = 0 /\ waiting' = {}

\* connect(), by the user, the retry timer or the online event.  Calls of a
\* socket it replaces are not rejected.
Connect ==
    /\ Dial
    /\ NewConnection
    /\ disturbed' = (disturbed \/ socket # "none")
    /\ UNCHANGED <<restoreVars, prompts, answered>>

\* reconnect() ends in reconnectNow().
ReconnectNow ==
    /\ Reconnect
    /\ NewConnection
    /\ ClearPromptsOnLeave
    /\ RejectCalls
    /\ UNCHANGED <<remembered, restoredOn, answered, disturbed>>

Handshake ==
    /\ Opens \/ Closes
    /\ UNCHANGED <<restoreVars, promptVars, disturbed>>

\* Mutant: the old prompts stay.
RestoreKeepsPrompts ==
    IF calls # {} THEN UNCHANGED <<calls, restoredOn, prompts>>
    ELSE /\ calls' = {"lists"} \cup (IF remembered THEN {"thread/read"} ELSE {})
         /\ restoredOn' = link
         /\ UNCHANGED prompts

\* restoreWorkspace up to its first await: nothing if one is running; else
\* drop all prompts and call thread/read (if a thread is remembered) and the
\* lists of models and threads.
RestoreWorkspace ==
    IF calls # {} THEN UNCHANGED <<calls, restoredOn, prompts>>
    ELSE /\ calls' = {"lists"} \cup (IF remembered THEN {"thread/read"} ELSE {})
         /\ restoredOn' = link
         /\ prompts' = <<>>

Ready ==
    /\ BecomesReady
    /\ RestoreWorkspace
    /\ UNCHANGED <<remembered, asked, waiting, answered, disturbed>>

\* The close event, or disconnect().
Lost ==
    /\ Drops
    /\ NewConnection
    /\ ClearPromptsOnLeave
    /\ RejectCalls
    /\ UNCHANGED <<remembered, restoredOn, answered, disturbed>>

Offline ==
    /\ GoesOffline
    /\ ClearPromptsOnLeave
    /\ disturbed' = TRUE
    /\ UNCHANGED <<restoreVars, asked, waiting, answered>>

-----------------------------------------------------------------------------
(* Calls of restoreWorkspace: each error is caught.                         *)

\* After thread/read, openThread calls thread/resume.
Answered(c) ==
    /\ c \in calls
    /\ socket = "established" /\ restoredOn = link
    /\ calls' = (calls \ {c}) \cup (IF c = "thread/read" THEN {"thread/resume"} ELSE {})
    /\ UNCHANGED <<linkVars, remembered, restoredOn, promptVars, disturbed>>

\* Mutant: only a connected client gives up on a call.
FailsConnected(c) ==
    /\ c \in calls
    /\ socket = "established"
    /\ calls' = calls \ {c}
    /\ UNCHANGED <<linkVars, remembered, restoredOn, promptVars, disturbed>>

\* An error answer, or the request timeout.
Failed(c) ==
    /\ c \in calls
    /\ calls' = calls \ {c}
    /\ UNCHANGED <<linkVars, remembered, restoredOn, promptVars, disturbed>>

-----------------------------------------------------------------------------
(* Prompts.                                                                 *)

\* handleServerRequest: the next request of the current connection is shown.
HandleServerRequest ==
    /\ socket = "established"
    /\ asked < MaxPrompts
    /\ asked' = asked + 1
    /\ waiting' = waiting \cup {asked + 1}
    /\ prompts' = Append(prompts, [link |-> link, id |-> asked + 1])
    /\ UNCHANGED <<linkVars, restoreVars, answered, disturbed>>

\* Mutant: the filter is inverted.
KeepResolvedRequest(id) ==
    /\ socket = "established"
    /\ id \in waiting
    /\ waiting' = waiting \ {id}
    /\ prompts' = Keep(prompts, {q \in Prompts : q.id = id})
    /\ UNCHANGED <<linkVars, restoreVars, asked, answered, disturbed>>

\* serverRequest/resolved: the prompts with that id go.
RemoveResolvedRequest(id) ==
    /\ socket = "established"
    /\ id \in waiting
    /\ waiting' = waiting \ {id}
    /\ prompts' = Keep(prompts, {q \in Prompts : q.id # id})
    /\ UNCHANGED <<linkVars, restoreVars, asked, answered, disturbed>>

\* respondApproval, respondUserInput, rejectUnsupportedRequest: the answer
\* goes out on the current socket, with the prompt's id.
Respond(i) ==
    /\ i \in DOMAIN prompts
    /\ IsOpen
    /\ answered' = [of |-> prompts[i].link, on |-> link]
    /\ waiting' = waiting \ {prompts[i].id}
    /\ prompts' = RemoveAt(prompts, i)
    /\ UNCHANGED <<linkVars, restoreVars, asked, disturbed>>

-----------------------------------------------------------------------------
Connection == Connect \/ ReconnectNow \/ Handshake \/ Ready \/ Lost \/ Offline
Restore == \E c \in CallNames : Answered(c) \/ Failed(c)
Prompting ==
    \/ HandleServerRequest
    \/ \E id \in waiting : RemoveResolvedRequest(id)
    \/ \E i \in DOMAIN prompts : Respond(i)

Next == Connection \/ Restore \/ Prompting

Spec == Init /\ [][Next]_vars

\* Calls with a timeout end.
Fairness == \A c \in CallNames : WF_vars(Failed(c))

FairSpec == Spec /\ Fairness

-----------------------------------------------------------------------------
(* Properties.                                                              *)

TypeOK ==
    /\ LinkTypeOK
    /\ remembered \in BOOLEAN /\ disturbed \in BOOLEAN
    /\ calls \subseteq CallNames
    /\ restoredOn \in 0..link
    /\ prompts \in Seq(Prompts)
    /\ asked \in 0..MaxPrompts /\ waiting \subseteq 1..asked
    /\ answered \in [of : 0..link, on : 0..link]

\* Once the restore for the current connection has begun, every prompt shown
\* is one the current app-server connection asked.
PromptsAreCurrent ==
    restoredOn = link => \A i \in DOMAIN prompts : prompts[i].link = link

\* While a connection is ready no unanswered request of it is hidden: the
\* clean-ups on leaving ready, on restore and on resolution take only what
\* can no longer be answered.
NothingHidden ==
    ready => \A id \in waiting :
                 \E i \in DOMAIN prompts : prompts[i] = [link |-> link, id |-> id]

\* While connections only follow one another through the close event,
\* disconnect() or reconnect() (no offline report, no connect() over a socket
\* that is not null), at any moment of them: answers go to the connection that
\* asked, and a connection that is ready has had its own restore.
\* (After an offline report an answer may go to the connection that follows.)
CleanHandOver ==
    ~disturbed =>
        /\ answered.on = answered.of
        /\ ready => restoredOn = link

\* A restore comes to an end, so that a later connection can be restored.
RestoreEnds == calls # {} ~> calls = {}
=============================================================================
