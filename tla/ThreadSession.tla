---------------------------- MODULE ThreadSession ----------------------------
(***************************************************************************)
(* The conversation in the store (openThread, startThread, sendMessage,    *)
(* reviewActiveThread and the turn notifications of                        *)
(* src/frontend/src/stores/useCodexSession.ts) against the app-server it   *)
(* mirrors.  Calls are answered in any order; what the server sends on one *)
(* connection arrives in the order sent; other clients use the same        *)
(* threads.  Of a turn the model keeps whether it is in progress; its      *)
(* items, and calls that change no state here (steering, interrupting,     *)
(* compacting), are left out.                                              *)
(***************************************************************************)
EXTENDS Lists, SequencesExt

CONSTANTS
    Threads,    \* threads that exist from the start
    Fresh,      \* threads that thread/start may create
    None,       \* no thread, no call
    MaxTurns,   \* bound: turns in a behaviour
    Slots,      \* bound: one for each call the page may await at a time
    MaxLosses   \* bound: connections lost

ASSUME ThreadAssumption ==
    /\ Threads \cap Fresh = {}
    /\ None \notin Threads \cup Fresh
    /\ None \notin Slots
    /\ MaxTurns \in Nat /\ MaxLosses \in Nat

AllThreads == Threads \cup Fresh
TurnIds == 1..MaxTurns
Ops == {"none", "read", "resume", "start", "turn"}
\* `ask': a message written while no thread was open waits for this call.
Calls == [op : Ops, thread : AllThreads \cup {None}, ask : BOOLEAN, served : BOOLEAN]
NoCall == [op |-> "none", thread |-> None, ask |-> FALSE, served |-> FALSE]
Views == Seq([id : TurnIds, live : BOOLEAN])

VARIABLES
    turns,       \* app-server: the turns of each thread, in order
    running,     \* app-server: the turn in progress of each thread, or 0
    lastTurn,    \* app-server: the latest turn id
    created,     \* app-server: the threads there are
    subscribed,  \* app-server: threads whose events this connection gets
    inbox,       \* sent on this connection and not yet handled by the page
    connected,   \* the page's connection is ready
    losses,      \* connections lost so far
    calls,       \* what the page awaits
    opener,      \* the call with the latest openThreadGeneration, or None
    loading,     \* loadingConversation
    active,      \* activeThreadId
    loaded,      \* activeThread is not null; its id is then activeThreadId
    view,        \* activeThread.turns
    activeTurn,  \* activeTurnId, or 0
    wanted,      \* history: what the user last asked to see, "new" for a new
                 \* thread, "any" once that has failed
    synced,      \* history: a thread was opened on this connection
    crossed      \* history: an answer came for another thread than the one
                 \* shown, or a new thread replaced one with a turn in progress

serverVars == <<turns, running, lastTurn, created, subscribed>>
linkVars == <<connected, losses>>
openVars == <<opener, loading, wanted>>
pageVars == <<active, loaded, view, activeTurn, synced, crossed>>
vars == <<serverVars, inbox, linkVars, calls, openVars, pageVars>>

\* A page load remembers a thread, or none.
Init ==
    /\ turns = [t \in AllThreads |-> <<>>] /\ running = [t \in AllThreads |-> 0]
    /\ lastTurn = 0 /\ created = Threads /\ subscribed = {} /\ inbox = <<>>
    /\ connected = FALSE /\ losses = 0
    /\ calls = [c \in Slots |-> NoCall]
    /\ opener = None /\ loading = FALSE /\ wanted = "any"
    /\ active \in Threads \cup {None}
    /\ loaded = FALSE /\ view = <<>> /\ activeTurn = 0
    /\ synced = FALSE /\ crossed = FALSE

-----------------------------------------------------------------------------
(* Helpers.                                                                 *)

\* A thread as the server reports it.
Report(t) ==
    [i \in DOMAIN turns[t] |->
        [id |-> turns[t][i], live |-> turns[t][i] = running[t]]]

\* findActiveTurn: the last turn in progress, or 0.
FindActiveTurn(v) ==
    LET live == Keep(v, {turn \in Range(v) : turn.live})
    IN  IF live = <<>> THEN 0 ELSE Last(live).id

\* upsertTurn, when a thread is loaded.
UpsertTurn(u, live) ==
    LET turn == [id |-> u, live |-> live]
        known == \E i \in DOMAIN view : view[i].id = u
    IN  view' = IF ~loaded THEN view
                ELSE IF known THEN [i \in DOMAIN view |->
                                       IF view[i].id = u THEN turn ELSE view[i]]
                ELSE Append(view, turn)

Free(c) == calls[c] = NoCall

\* Mutant: the generation is not compared.
AlwaysLatest(c) == c \in Slots

\* The generation check of openThread and startThread.
IsLatest(c) == c = opener

Await(op, t, ask) == [op |-> op, thread |-> t, ask |-> ask, served |-> FALSE]
Opening(c) == calls[c].op \in {"read", "resume", "start"}

Answer(c, t, u, v) == [kind |-> "answer", call |-> c, thread |-> t, turn |-> u, view |-> v]
Event(kind, t, u) == [kind |-> kind, call |-> None, thread |-> t, turn |-> u, view |-> <<>>]

\* Notifications go to the connections that resumed or started the thread.
Notify(kind, t, u) == IF t \in subscribed THEN <<Event(kind, t, u)>> ELSE <<>>

-----------------------------------------------------------------------------
(* The user.                                                                *)

\* openThread and startThread take the next generation and call.
Begin(c, op, t, ask, want) ==
    /\ Free(c)
    /\ calls' = [calls EXCEPT ![c] = Await(op, t, ask)]
    /\ opener' = c
    /\ loading' = TRUE
    /\ wanted' = want
    /\ UNCHANGED <<serverVars, inbox, pageVars>>

OpenThread(c, t) ==
    /\ connected /\ UNCHANGED linkVars
    /\ Begin(c, "read", t, FALSE, t)

StartThread(c) ==
    /\ connected /\ UNCHANGED linkVars
    /\ Begin(c, "start", None, FALSE, "new")

\* sendMessage with no thread open: start one first.
SendFirstMessage(c) ==
    /\ connected /\ UNCHANGED linkVars
    /\ active = None
    /\ Begin(c, "start", None, TRUE, "new")

\* sendMessage (no turn in progress; else it steers) and reviewActiveThread.
StartTurn(c) ==
    /\ connected
    /\ active # None
    /\ Free(c)
    /\ calls' = [calls EXCEPT ![c] = Await("turn", active, FALSE)]
    /\ UNCHANGED <<serverVars, inbox, linkVars, openVars, pageVars>>

-----------------------------------------------------------------------------
(* The app-server (external) and its other clients.                         *)

Serve(c, op) ==
    /\ calls[c].op = op /\ ~calls[c].served
    /\ calls' = [calls EXCEPT ![c].served = TRUE]
    /\ UNCHANGED <<linkVars, openVars, pageVars>>

\* thread/resume subscribes the connection and carries the turns; so the page
\* never falls back on those of thread/read, whose answer is not kept here.
ServeResume(c) ==
    LET t == calls[c].thread IN
    /\ Serve(c, "resume")
    /\ subscribed' = subscribed \cup {t}
    /\ inbox' = Append(inbox, Answer(c, t, 0, Report(t)))
    /\ UNCHANGED <<turns, running, lastTurn, created>>

ServeStart(c) ==
    \E t \in Fresh \ created :
        /\ Serve(c, "start")
        /\ created' = created \cup {t}
        /\ subscribed' = subscribed \cup {t}
        /\ inbox' = Append(inbox, Answer(c, t, 0, <<>>))
        /\ UNCHANGED <<turns, running, lastTurn>>

TurnStarts(t) ==
    /\ t \in created /\ running[t] = 0
    /\ lastTurn < MaxTurns
    /\ turns' = [turns EXCEPT ![t] = Append(@, lastTurn + 1)]
    /\ running' = [running EXCEPT ![t] = lastTurn + 1]
    /\ lastTurn' = lastTurn + 1
    /\ UNCHANGED <<created, subscribed>>

\* turn/start or review/start: the answer, then the notification.
ServeTurn(c) ==
    LET t == calls[c].thread
        u == lastTurn + 1
    IN  /\ Serve(c, "turn")
        /\ TurnStarts(t)
        /\ inbox' = inbox \o <<Answer(c, t, u, <<>>)>> \o Notify("turn/started", t, u)

TurnElsewhere(t) ==
    /\ TurnStarts(t)
    /\ inbox' = inbox \o Notify("turn/started", t, lastTurn + 1)
    /\ UNCHANGED <<linkVars, calls, openVars, pageVars>>

TurnEnds(t) ==
    /\ running[t] # 0
    /\ running' = [running EXCEPT ![t] = 0]
    /\ inbox' = inbox \o Notify("turn/completed", t, running[t])
    /\ UNCHANGED <<turns, lastTurn, created, subscribed, linkVars, calls, openVars, pageVars>>

-----------------------------------------------------------------------------
(* The page: what it does with the first message of the inbox.              *)

Receive(kind) ==
    /\ inbox # <<>>
    /\ Head(inbox).kind = kind
    /\ inbox' = Tail(inbox)
    /\ UNCHANGED <<serverVars, linkVars>>

AnswerTo(op) ==
    /\ Receive("answer")
    /\ calls[Head(inbox).call].op = op

\* openThread goes on from thread/read to thread/resume, whatever the
\* generation.
ReadAnswered(c) ==
    /\ calls[c].op = "read"
    /\ calls' = [calls EXCEPT ![c] = Await("resume", @.thread, FALSE)]
    /\ UNCHANGED <<serverVars, inbox, linkVars, openVars, pageVars>>

\* Loading is over for the call with the latest generation only.
Loaded == opener' = None /\ loading' = FALSE

\* openThread with both answers: shown unless a later one has begun.
ResumeAnswered ==
    LET c == Head(inbox).call
        v == Head(inbox).view
    IN  /\ AnswerTo("resume")
        /\ calls' = [calls EXCEPT ![c] = NoCall]
        /\ \/ /\ ~IsLatest(c)
              /\ UNCHANGED <<openVars, pageVars>>
           \/ /\ IsLatest(c)
              /\ Loaded
              /\ active' = Head(inbox).thread /\ loaded' = TRUE /\ view' = v
              /\ activeTurn' = FindActiveTurn(v)
              /\ synced' = TRUE /\ crossed' = FALSE
              /\ UNCHANGED wanted

\* sendMessage after its startThread has ended, well or not: the thread open
\* by now gets the message, if there is one (a turn in progress is steered).
ThenSend(c) ==
    calls' = [calls EXCEPT ![c] =
        IF @.ask /\ active' # None /\ FindActiveTurn(view') = 0
        THEN Await("turn", active', TRUE) ELSE NoCall]

StartAnswered ==
    LET c == Head(inbox).call IN
    /\ AnswerTo("start")
    /\ \/ /\ ~IsLatest(c)
          /\ UNCHANGED <<openVars, pageVars>>
       \/ /\ IsLatest(c)
          /\ Loaded
          /\ active' = Head(inbox).thread /\ loaded' = TRUE /\ view' = <<>>
          /\ synced' = TRUE /\ crossed' = (activeTurn # 0)
          /\ UNCHANGED <<activeTurn, wanted>>
    /\ ThenSend(c)

\* turn/start, review/start: the turn joins whatever thread is shown.
TurnAnswered ==
    LET c == Head(inbox).call IN
    /\ AnswerTo("turn")
    /\ calls' = [calls EXCEPT ![c] = NoCall]
    /\ UpsertTurn(Head(inbox).turn, TRUE)
    /\ activeTurn' = Head(inbox).turn
    /\ crossed' = (crossed \/ Head(inbox).thread # active)
    /\ UNCHANGED <<openVars, active, loaded, synced>>

\* Mutant: notifications of every thread are applied.
AnyScope == inbox # <<>>

\* handleNotification; shouldApplyScopedNotification lets only those of the
\* active thread through.
InScope == Head(inbox).thread = active

TurnStarted ==
    /\ Receive("turn/started")
    /\ IF InScope
       THEN UpsertTurn(Head(inbox).turn, TRUE) /\ activeTurn' = Head(inbox).turn
       ELSE UNCHANGED <<view, activeTurn>>
    /\ UNCHANGED <<calls, openVars, active, loaded, synced, crossed>>

TurnCompleted ==
    /\ Receive("turn/completed")
    /\ IF InScope
       THEN UpsertTurn(Head(inbox).turn, FALSE) /\ activeTurn' = 0
       ELSE UNCHANGED <<view, activeTurn>>
    /\ UNCHANGED <<calls, openVars, active, loaded, synced, crossed>>

\* Mutant: loading is over whoever fails.
FailsLoaded(c) ==
    /\ ~Free(c)
    /\ inbox' = Keep(inbox, {m \in Range(inbox) : m.call # c})
    /\ loading' = FALSE
    /\ IF IsLatest(c) THEN opener' = None /\ wanted' = "any" ELSE UNCHANGED <<opener, wanted>>
    /\ UNCHANGED <<serverVars, linkVars, pageVars>>
    /\ ThenSend(c)

\* An error answer or a timeout, before or after the server acted: a late
\* answer finds no call.
Fails(c) ==
    /\ ~Free(c)
    /\ inbox' = Keep(inbox, {m \in Range(inbox) : m.call # c})
    /\ IF IsLatest(c) THEN Loaded /\ wanted' = "any" ELSE UNCHANGED openVars
    /\ UNCHANGED <<serverVars, linkVars, pageVars>>
    /\ ThenSend(c)

-----------------------------------------------------------------------------
(* The connection.                                                          *)

\* Everything in flight is lost, and every call is rejected.
Lost ==
    /\ connected /\ connected' = FALSE
    /\ losses < MaxLosses /\ losses' = losses + 1
    /\ inbox' = <<>> /\ subscribed' = {} /\ synced' = FALSE
    /\ calls' = [c \in Slots |-> NoCall]
    /\ opener' = None /\ loading' = FALSE
    /\ wanted' = IF loading THEN "any" ELSE wanted
    /\ UNCHANGED <<turns, running, lastTurn, created,
                   active, loaded, view, activeTurn, crossed>>

\* restoreWorkspace opens the remembered thread again.
Ready ==
    /\ ~connected /\ connected' = TRUE
    /\ UNCHANGED losses
    /\ IF active = None
       THEN UNCHANGED <<serverVars, inbox, calls, openVars, pageVars>>
       ELSE \E c \in Slots : Begin(c, "read", active, FALSE, active)

-----------------------------------------------------------------------------
User ==
    \E c \in Slots :
        \/ \E t \in created : OpenThread(c, t)
        \/ StartThread(c) \/ SendFirstMessage(c) \/ StartTurn(c)

Server ==
    \/ \E c \in Slots : ServeResume(c) \/ ServeStart(c) \/ ServeTurn(c)
    \/ \E t \in AllThreads : TurnElsewhere(t) \/ TurnEnds(t)

Page ==
    \/ ResumeAnswered \/ StartAnswered \/ TurnAnswered
    \/ TurnStarted \/ TurnCompleted
    \/ \E c \in Slots : ReadAnswered(c) \/ Fails(c)
    \/ Lost \/ Ready

Next == User \/ Server \/ Page

Spec == Init /\ [][Next]_vars

-----------------------------------------------------------------------------
(* Properties.                                                              *)

TypeOK ==
    /\ turns \in [AllThreads -> Seq(TurnIds)]
    /\ running \in [AllThreads -> 0..lastTurn] /\ lastTurn \in 0..MaxTurns
    /\ subscribed \subseteq created /\ created \subseteq AllThreads
    /\ connected \in BOOLEAN /\ losses \in 0..MaxLosses
    /\ calls \in [Slots -> Calls]
    /\ \A c \in Slots : calls[c].op = "turn" => calls[c].thread \in created
    /\ opener \in Slots \cup {None} /\ loading \in BOOLEAN
    /\ active \in created \cup {None} /\ loaded \in BOOLEAN
    /\ view \in Views /\ activeTurn \in 0..lastTurn
    /\ wanted \in AllThreads \cup {"any", "new"}
    /\ synced \in BOOLEAN /\ crossed \in BOOLEAN

\* The loading indicator is shown exactly while the latest thread to be
\* opened or started is on its way, however many were begun and whichever
\* way each ended.
LoadingTruthful ==
    loading <=> \E c \in Slots : c = opener /\ Opening(c)

\* Once nothing is loading the thread shown is the one last asked for, in
\* whatever order the answers came, unless opening it has failed.
LatestOpenWins ==
    ~loading => \/ wanted \in {"any", active}
                \/ wanted = "new" /\ active \in Fresh

\* Once a thread has been opened on this connection and the page has handled
\* what was sent, it shows the turns and the turn in progress as the server
\* has them, through reconnections, switches and other clients.  (An answer
\* that crossed a switch of threads voids this until a thread is opened.)
MirrorsServer ==
    synced /\ ~crossed /\ inbox = <<>> =>
        view = Report(active) /\ activeTurn = running[active]
=============================================================================
