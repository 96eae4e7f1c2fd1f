------------------------------ MODULE Composer ------------------------------
(***************************************************************************)
(* From the text and the attachments in the composer to the message a      *)
(* thread gets: sendMessage, with startThread and openThread whose         *)
(* outcomes it meets (src/frontend/src/stores/useCodexSession.ts), over    *)
(* the files and attachments of Files.  Calls end in any order, well or    *)
(* not; a lost connection is every call ending badly.  The thread that the *)
(* n-th opening starts is n.                                               *)
(***************************************************************************)
EXTENDS Files

CONSTANTS
    CwdOf,        \* directory of each thread there is from the start
    MaxOpenings,  \* bound: threads opened or started
    MaxMessages,  \* bound: messages written
    MaxAwaited    \* bound: calls awaited at a time

ASSUME ComposerAssumption ==
    /\ DOMAIN CwdOf \subseteq Nat \ 0..MaxOpenings
    /\ \A t \in DOMAIN CwdOf : CwdOf[t] \in Tree
    /\ MaxOpenings \in Nat /\ MaxMessages \in Nat /\ MaxAwaited \in Nat

NoThread == 0
Threads == DOMAIN CwdOf \cup 1..MaxOpenings
MessageIds == 1..MaxMessages

VARIABLES
    active,     \* activeThreadId
    generation, \* openThreadGeneration
    openings,   \* threads being opened (`of' tells which) or started (0), by
                \* generation, and the message that waits for it (or 0)
    messages,   \* messages written: what was captured, and how far each is
    muddled     \* history: attachments added, removed or captured again while
                \* a message that has captured them waits for its thread

sendVars == <<active, generation, openings, messages, muddled>>
allVars == <<filesVars, sendVars>>

\* The browser may remember the thread of an earlier visit.
Init ==
    /\ FilesInit
    /\ active \in DOMAIN CwdOf \cup {NoThread} /\ generation = 0 /\ openings = {}
    /\ messages = <<>> /\ muddled = {}

-----------------------------------------------------------------------------
(* Files, unaware of messages.                                              *)

FilesStep ==
    /\ FilesNext
    /\ UNCHANGED <<active, generation, openings, messages>>

-----------------------------------------------------------------------------
(* The user.                                                                *)

\* openThread and startThread take the next generation and call.
Begin(thread, m) ==
    /\ generation < MaxOpenings
    /\ generation' = generation + 1
    /\ openings' = openings \cup {[gen |-> generation + 1, of |-> thread, message |-> m]}

OpenThread(t) ==
    /\ Begin(t, 0)
    /\ UNCHANGED <<filesVars, active, messages>>

StartThread ==
    /\ Begin(NoThread, 0)
    /\ UNCHANGED <<filesVars, active, messages>>

Message(at, home, dest) == [at |-> at, home |-> home, dest |-> dest, input |-> attachments]

\* Mutant: the attachments stay after they have been sent.
ClearNothing == UNCHANGED attachments

ClearAttachments == attachments' = {}

\* sendMessage: what is attached is captured, and cleared when the call to
\* the thread is made: at once, or after a thread has been started.
SendMessage ==
    LET m == Len(messages) + 1 IN
    /\ m <= MaxMessages
    /\ IF active # NoThread
       THEN /\ messages' = Append(messages, Message("calling", active, active))
            /\ ClearAttachments
            /\ UNCHANGED <<generation, openings>>
       ELSE /\ Begin(NoThread, m)
            /\ messages' = Append(messages, Message("starting", generation + 1, NoThread))
            /\ UNCHANGED attachments
    /\ UNCHANGED <<browseVars, uploadVars, jobs, active>>

-----------------------------------------------------------------------------
(* Outcomes.                                                                *)

IsLatest(o) == o.gen = generation

\* openThread: the latest one is shown, with its directory.
Opened(o) ==
    /\ o \in openings /\ o.of # NoThread
    /\ openings' = openings \ {o}
    /\ IF IsLatest(o)
       THEN active' = o.of /\ ShowDirectory(CwdOf[o.of])
       ELSE UNCHANGED <<active, browseVars>>
    /\ UNCHANGED <<uploadVars, attachments, jobs, generation, messages>>

OpeningFails(o) ==
    /\ o \in openings /\ o.of # NoThread
    /\ openings' = openings \ {o}
    /\ UNCHANGED <<filesVars, active, generation, messages>>

\* Mutant: the thread to send to is read before the new one is there.
SendOnEarly(m, told) ==
    /\ messages' = [messages EXCEPT ![m].at = IF told THEN "told" ELSE "dropped"]
    /\ UNCHANGED attachments

\* sendMessage after startThread: the thread open by now gets the message;
\* if there is none, the message is dropped, and startThread has told the
\* user or (when it is not the latest) has not.
SendOn(m, told) ==
    IF active' = NoThread
    THEN /\ messages' = [messages EXCEPT ![m].at = IF told THEN "told" ELSE "dropped"]
         /\ UNCHANGED attachments
    ELSE /\ messages' = [messages EXCEPT ![m].at = "calling", ![m].dest = active']
         /\ ClearAttachments

\* startThread, with an answer or an error.  The thread works in the directory
\* of the settings, or in the host's own, which the settings then name.
Started(o, ok) ==
    /\ o \in openings /\ o.of = NoThread
    /\ openings' = openings \ {o}
    /\ IF ok /\ IsLatest(o)
       THEN active' = o.gen /\ cwd' = IF cwd = NoPath THEN <<>> ELSE cwd
       ELSE UNCHANGED <<active, cwd>>
    /\ IF o.message = 0 THEN UNCHANGED <<messages, attachments>>
       ELSE SendOn(o.message, ~ok /\ IsLatest(o))
    /\ UNCHANGED <<path, listed, loading, met, uploadVars, jobs, generation>>

\* turn/start or turn/steer: accepted, or an error is shown.  The page does
\* not keep what it has sent.
Called(m, outcome) ==
    /\ m \in DOMAIN messages /\ messages[m].at = "calling"
    /\ messages' = [messages EXCEPT ![m].at = outcome, ![m].input = {}]
    /\ UNCHANGED <<filesVars, active, generation, openings>>

-----------------------------------------------------------------------------
User == SendMessage \/ StartThread \/ \E t \in DOMAIN CwdOf : OpenThread(t)

Outcome ==
    \/ \E o \in openings : Opened(o) \/ OpeningFails(o) \/ \E ok \in BOOLEAN : Started(o, ok)
    \/ \E m \in DOMAIN messages, outcome \in {"sent", "told"} : Called(m, outcome)

AwaitedCalls ==
    Cardinality(Jobs \ Awaited("none")) + Cardinality(openings)
        + Cardinality({m \in DOMAIN messages : messages[m].at = "calling"})

Waiting == {m \in DOMAIN messages : messages[m].at = "starting"}

Muddle ==
    muddled' = IF Waiting = {} \/ Waiting' = {} THEN {}
               ELSE muddled \cup (attachments \ attachments') \cup (attachments' \ attachments)
                            \cup (IF Len(messages') > Len(messages) THEN attachments ELSE {})

Next == (FilesStep \/ User \/ Outcome) /\ Muddle /\ AwaitedCalls' <= MaxAwaited

Spec == Init /\ [][Next]_allVars

-----------------------------------------------------------------------------
(* Properties.                                                              *)

TypeOK ==
    /\ listed \in Tree \cup {NoPath} /\ stored \subseteq aim
    /\ {loading, uploading, met} \subseteq BOOLEAN
    /\ active \in Threads \cup {NoThread} /\ generation \in 0..MaxOpenings
    /\ openings \subseteq [gen : 1..generation, of : DOMAIN CwdOf \cup {NoThread},
                           message : {0} \cup MessageIds]
    /\ Waiting = {o.message : o \in openings} \ {0}
    /\ \A m \in DOMAIN messages : messages[m].at = "calling" => messages[m].dest \in Threads

\* Composer and files panel: a message goes out with what is shown as attached
\* when it does, which is then cleared, and nothing else but the user's click
\* takes an attachment away, whatever uploads, listings and openings end
\* meanwhile.  What changed while the message waited for its thread is
\* excepted: added, it is lost; removed, it is sent.
GoesOut(m) == /\ m \in DOMAIN messages' /\ messages'[m].at = "calling"
              /\ m \in DOMAIN messages => messages[m].at # "calling"
SendsWhatIsShown ==
    [][ /\ \A m \in MessageIds : GoesOut(m) =>
              /\ attachments' = {}
              /\ messages'[m].input \ muddled = attachments \ muddled
        /\ attachments \subseteq attachments'
             \/ (\E m \in MessageIds : GoesOut(m)) \/ \E f \in attachments : RemoveAttachment(f)
      ]_allVars

\* App.vue, "send a message to create a task": a message goes to the thread
\* that was open when it was written, or to the one started for it, or ends
\* with an error shown.  Only if another thread was opened or started while it
\* waited may it go elsewhere, or nowhere in silence.
MessagesAccounted ==
    \A m \in DOMAIN messages :
        \/ messages[m].at \in {"starting", "told"}
        \/ messages[m].at \in {"calling", "sent"} /\ messages[m].dest = messages[m].home
        \/ messages[m].home < generation

\* Files panel, "uploaded to the current directory": each file is written to
\* the directory shown when the user picked it, also when another one is shown
\* before its turn comes.  What gets attached is a file the host has: the path
\* shown is that of the entries shown, whichever order listings that overlap
\* are answered in, and only an opened thread, which shows its directory and
\* lists nothing, parts the two until the next listing.
FilesLand ==
    [][ /\ stored' \subseteq aim'
        /\ path = listed => attachments' \ attachments \subseteq HostFiles \cup stored
        /\ path = listed /\ path' # listed' => \E o \in openings : Opened(o)
      ]_allVars

\* The busy signs: uploading is shown while a batch has calls to end, loading
\* while a listing has, whichever way they end; of listings that were awaited
\* together, the first to end takes the sign away.
BusyTruthful ==
    /\ uploading <=> \E j \in Jobs : jobs[j].batch
    /\ loading => Awaited("list") # {}
    /\ ~met => (loading <=> Awaited("list") # {})
=============================================================================
