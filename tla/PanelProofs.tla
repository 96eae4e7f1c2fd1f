---------------------------- MODULE PanelProofs ----------------------------
(***************************************************************************)
(* What the panels of the page show.  Composer: where a message goes and   *)
(* what it carries, where files land, and the busy signs, for any tree,    *)
(* any files and threads.  Terminal: the output, the exit code, the error  *)
(* and the sign that a command runs, for any commands, any output and any  *)
(* bounds.                                                                 *)
(***************************************************************************)
EXTENDS Composer, Terminal, ListProofs, FiniteSetTheorems

-----------------------------------------------------------------------------
(* Composer.                                                                *)

Stages == {"starting", "calling", "sent", "told", "dropped"}
Messages(X) == [at : Stages, home : Nat, dest : Nat, input : X]

\* What is attached may be anything.
MessagesOK == \E X : messages \in Seq(Messages(X))

OpeningsOK ==
    /\ generation \in Nat /\ active \in Nat
    /\ openings \subseteq [gen : 1..generation, of : Nat, message : Nat]

\* A message waits for the opening that has been started for it, and no thread
\* is open as long as nothing supersedes that.
Waits(o) ==
    /\ o.message \in DOMAIN messages
    /\ messages[o.message].at = "starting"
    /\ messages[o.message].home = o.gen
    /\ o.gen = generation => active = NoThread

WaitersOK ==
    /\ \A o, p \in openings : o.gen = p.gen => o = p
    /\ \A o \in openings : o.message # 0 => Waits(o)

IInv == MessagesOK /\ OpeningsOK /\ WaitersOK /\ MessagesAccounted

-----------------------------------------------------------------------------
(* The sequence of messages.                                                *)

\* What messages consist of.
LEMMA Homes ==
    ASSUME MessagesOK, NEW m \in DOMAIN messages
    PROVE  /\ m # 0
           /\ messages[m].home \in Nat
           /\ \E X : messages[m] \in Messages(X)
<1>1. PICK X : messages \in Seq(Messages(X))
  BY DEF MessagesOK
<1>2. m # 0 /\ messages[m] \in Messages(X)
  BY <1>1
<1> QED
  BY <1>2 DEF Messages

\* A message written is one more, and leaves the others as they are.
LEMMA Written1 ==
    ASSUME MessagesOK, NEW at \in Stages, NEW home \in Nat, NEW dest \in Nat,
           messages' = Append(messages, Message(at, home, dest))
    PROVE  /\ MessagesOK'
           /\ Len(messages) \in Nat
           /\ DOMAIN messages = 1..Len(messages)
           /\ DOMAIN messages' = 1..(Len(messages) + 1)
           /\ \A m \in DOMAIN messages : messages'[m] = messages[m]
           /\ messages'[Len(messages) + 1] = Message(at, home, dest)
<1>1. PICK X : messages \in Seq(Messages(X))
  BY DEF MessagesOK
<1> DEFINE Y == X \cup {attachments}
<1>2. messages \in Seq(Messages(Y))
  <2>1. Messages(X) \subseteq Messages(Y)
    BY DEF Messages
  <2> HIDE DEF Y
  <2> QED
    BY <1>1, <2>1
<1>3. Message(at, home, dest) \in Messages(Y)
  BY DEF Message, Messages
<1> HIDE DEF Y
<1>4. messages' \in Seq(Messages(Y))
  BY <1>2, <1>3
<1> QED
  BY <1>2, <1>3, <1>4 DEF MessagesOK

\* A step of message m leaves the others, and where m was meant to go.
LEMMA Moved ==
    ASSUME MessagesOK, NEW m \in DOMAIN messages, NEW r,
           messages' = [messages EXCEPT ![m] = r],
           \E X : r \in Messages(X), r.home = messages[m].home
    PROVE  /\ MessagesOK'
           /\ DOMAIN messages' = DOMAIN messages
           /\ \A n \in DOMAIN messages : n # m => messages'[n] = messages[n]
           /\ messages'[m] = r
           /\ messages'[m].home = messages[m].home
<1>1. PICK X : messages \in Seq(Messages(X))
  BY DEF MessagesOK
<1>2. PICK Z : r \in Messages(Z)
  OBVIOUS
<1> DEFINE Y == X \cup Z
<1>3. Messages(X) \subseteq Messages(Y) /\ Messages(Z) \subseteq Messages(Y)
  BY DEF Messages
<1> HIDE DEF Y
<1>4. messages \in Seq(Messages(Y)) /\ r \in Messages(Y)
  BY <1>1, <1>2, <1>3
<1>5. messages' \in Seq(Messages(Y))
  BY <1>4
<1> QED
  BY <1>4, <1>5 DEF MessagesOK

-----------------------------------------------------------------------------
(* The steps.                                                               *)

\* A step that opens nothing, sends nothing and shows nothing keeps it all.
LEMMA Untouched ==
    ASSUME IInv, UNCHANGED <<active, generation, openings, messages>>
    PROVE  IInv'
<1>1. MessagesOK'
  BY DEF IInv, MessagesOK
<1>2. OpeningsOK'
  BY DEF IInv, OpeningsOK
<1>3. WaitersOK'
  BY DEF IInv, WaitersOK, Waits
<1>4. MessagesAccounted'
  BY DEF IInv, MessagesAccounted
<1> QED
  BY <1>1, <1>2, <1>3, <1>4 DEF IInv

\* What Begin does to the openings there are.
LEMMA Begun ==
    ASSUME IInv, NEW thread \in Nat, NEW m \in Nat, Begin(thread, m)
    PROVE  /\ generation' = generation + 1
           /\ generation' \in Nat
           /\ openings' \subseteq [gen : 1..generation', of : Nat, message : Nat]
           /\ \A o, p \in openings' : o.gen = p.gen => o = p
           /\ \A o \in openings' : \/ o \in openings /\ o.gen < generation'
                                   \/ o.message = m /\ o.gen = generation'
<1> DEFINE n == [gen |-> generation + 1, of |-> thread, message |-> m]
<1>1. /\ generation' = generation + 1
      /\ generation \in Nat
      /\ openings' = openings \cup {n}
  BY DEF IInv, OpeningsOK, Begin
<1>2. n \in [gen : 1..generation', of : Nat, message : Nat]
  BY <1>1
<1>3. n.gen = generation' /\ n.message = m
  BY <1>1
<1>4. \A o \in openings : /\ o \in [gen : 1..generation, of : Nat, message : Nat]
                          /\ o \in [gen : 1..generation', of : Nat, message : Nat]
                          /\ o.gen < generation'
  BY <1>1 DEF IInv, OpeningsOK
<1>5. \A o, p \in openings : o.gen = p.gen => o = p
  BY DEF IInv, WaitersOK
<1> HIDE DEF n
<1> QED
  BY <1>1, <1>2, <1>3, <1>4, <1>5

\* Opening or starting a thread without a message.
LEMMA BeginKeeps ==
    ASSUME IInv, NEW thread \in Nat, Begin(thread, 0), UNCHANGED <<active, messages>>
    PROVE  IInv'
<1>1. MessagesOK'
  BY DEF IInv, MessagesOK
<1>2. OpeningsOK'
  BY Begun DEF IInv, OpeningsOK
<1>3. WaitersOK'
  <2>1. ASSUME NEW o \in openings', o.message # 0
        PROVE  Waits(o)'
    <3>1. o \in openings /\ o.gen < generation'
      BY <2>1, Begun
    <3>2. Waits(o)
      BY <2>1, <3>1 DEF IInv, WaitersOK
    <3>3. generation' \in Nat /\ o.gen \in Nat
      BY <3>1, Begun DEF IInv, OpeningsOK
    <3> QED
      BY <3>1, <3>2, <3>3 DEF Waits
  <2> QED
    BY <2>1, Begun DEF WaitersOK
<1>4. MessagesAccounted'
  <2>1. \A m \in DOMAIN messages : messages[m].home \in Nat
    BY Homes DEF IInv
  <2> QED
    BY <2>1, Begun DEF IInv, OpeningsOK, MessagesAccounted
<1> QED
  BY <1>1, <1>2, <1>3, <1>4 DEF IInv

\* sendMessage.
LEMMA SendMessageKeeps ==
    ASSUME IInv, SendMessage
    PROVE  IInv'
<1> DEFINE m == Len(messages) + 1
<1>0. /\ active \in Nat /\ generation \in Nat
      /\ NoThread \in Nat /\ "calling" \in Stages /\ "starting" \in Stages
      /\ MessagesOK
  BY DEF IInv, OpeningsOK, NoThread, Stages
<1>1. CASE active # NoThread
  <2>1. /\ messages' = Append(messages, Message("calling", active, active))
        /\ UNCHANGED <<active, generation, openings>>
    BY <1>1 DEF SendMessage
  <2>2. /\ MessagesOK'
        /\ Len(messages) \in Nat
        /\ DOMAIN messages = 1..Len(messages)
        /\ DOMAIN messages' = 1..m
        /\ \A n \in DOMAIN messages : messages'[n] = messages[n]
        /\ messages'[m] = Message("calling", active, active)
    BY <1>0, <2>1, Written1
  <2>3. OpeningsOK'
    BY <2>1 DEF IInv, OpeningsOK
  <2>4. WaitersOK'
    BY <2>1, <2>2 DEF IInv, WaitersOK, Waits
  <2>5. MessagesAccounted'
    BY <2>1, <2>2 DEF IInv, MessagesAccounted, Message
  <2> QED
    BY <2>2, <2>3, <2>4, <2>5 DEF IInv
<1>2. CASE active = NoThread
  <2>1. /\ messages' = Append(messages, Message("starting", generation + 1, NoThread))
        /\ Begin(NoThread, m)
        /\ UNCHANGED active
    BY <1>2 DEF SendMessage
  <2>2. /\ MessagesOK'
        /\ Len(messages) \in Nat
        /\ DOMAIN messages = 1..Len(messages)
        /\ DOMAIN messages' = 1..m
        /\ \A n \in DOMAIN messages : messages'[n] = messages[n]
        /\ messages'[m] = Message("starting", generation + 1, NoThread)
    BY <1>0, <2>1, Written1
  <2>3. /\ generation' = generation + 1
        /\ generation' \in Nat
        /\ openings' \subseteq [gen : 1..generation', of : Nat, message : Nat]
        /\ \A o, p \in openings' : o.gen = p.gen => o = p
        /\ \A o \in openings' : \/ o \in openings /\ o.gen < generation'
                                \/ o.message = m /\ o.gen = generation'
    BY <1>0, <2>1, <2>2, Begun
  <2>4. OpeningsOK'
    BY <1>0, <2>1, <2>3 DEF OpeningsOK
  <2>5. ASSUME NEW o \in openings', o.message # 0
        PROVE  Waits(o)'
    <3>1. CASE o \in openings /\ o.gen < generation'
      <4>1. Waits(o)
        BY <2>5, <3>1 DEF IInv, WaitersOK
      <4>2. o.gen # generation'
        BY <1>0, <2>3, <3>1 DEF IInv, OpeningsOK
      <4> QED
        BY <2>2, <4>1, <4>2 DEF Waits
    <3>2. CASE o.message = m /\ o.gen = generation'
      <4>1. messages'[m].at = "starting" /\ messages'[m].home = generation'
        BY <2>2, <2>3 DEF Message
      <4> QED
        BY <1>2, <2>1, <2>2, <3>2, <4>1 DEF Waits
    <3> QED
      BY <2>3, <3>1, <3>2
  <2>6. WaitersOK'
    BY <2>3, <2>5 DEF WaitersOK
  <2>7. MessagesAccounted'
    <3>1. \A n \in DOMAIN messages : messages[n].home \in Nat
      BY <1>0, Homes
    <3>2. messages'[m].at = "starting"
      BY <2>2 DEF Message
    <3> QED
      BY <1>0, <2>2, <2>3, <3>1, <3>2 DEF IInv, MessagesAccounted
  <2> QED
    BY <2>2, <2>4, <2>6, <2>7 DEF IInv
<1> QED
  BY <1>1, <1>2

\* The end of an opening that leaves the messages alone, and the thread it shows.
LEMMA EndedKeeps ==
    ASSUME IInv, NEW o \in openings,
           openings' = openings \ {o}, UNCHANGED <<generation, messages>>,
           \/ active' = active
           \/ o.gen = generation /\ active' \in Nat
    PROVE  IInv'
<1>1. MessagesOK'
  BY DEF IInv, MessagesOK
<1>2. OpeningsOK'
  BY DEF IInv, OpeningsOK
<1>3. WaitersOK'
  <2>1. ASSUME NEW p \in openings', p.message # 0
        PROVE  Waits(p)'
    <3>1. p \in openings /\ p # o /\ Waits(p)
      BY <2>1 DEF IInv, WaitersOK
    <3>2. p.gen # o.gen
      BY <3>1 DEF IInv, WaitersOK
    <3> QED
      BY <3>1, <3>2 DEF Waits
  <2> QED
    BY <2>1 DEF IInv, WaitersOK
<1>4. MessagesAccounted'
  BY DEF IInv, MessagesAccounted
<1> QED
  BY <1>1, <1>2, <1>3, <1>4 DEF IInv

\* A step of message m that m and the openings left allow.
LEMMA MovedKeeps ==
    ASSUME IInv, NEW m \in DOMAIN messages, NEW r,
           messages' = [messages EXCEPT ![m] = r],
           \E X : r \in Messages(X), r.home = messages[m].home,
           UNCHANGED generation, active' \in Nat, openings' \subseteq openings,
           \A p \in openings' : p.message # m /\ (p.gen = generation => active' = active),
           \/ r.at = "told"
           \/ r.at \in {"calling", "sent"} /\ r.dest = r.home
           \/ r.home < generation
    PROVE  IInv'
<1>0. MessagesOK
  BY DEF IInv
<1>1. /\ MessagesOK'
      /\ DOMAIN messages' = DOMAIN messages
      /\ \A n \in DOMAIN messages : n # m => messages'[n] = messages[n]
      /\ messages'[m] = r
  BY <1>0, Moved
<1>2. OpeningsOK'
  BY DEF IInv, OpeningsOK
<1>3. WaitersOK'
  <2>1. ASSUME NEW p \in openings', p.message # 0
        PROVE  Waits(p)'
    <3>1. Waits(p) /\ p.message # m /\ (p.gen = generation => active' = active)
      BY <2>1 DEF IInv, WaitersOK
    <3> QED
      BY <1>1, <3>1 DEF Waits
  <2> QED
    BY <2>1 DEF IInv, WaitersOK
<1>4. MessagesAccounted'
  BY <1>1 DEF IInv, MessagesAccounted
<1> QED
  BY <1>1, <1>2, <1>3, <1>4 DEF IInv

\* The end of openThread.
LEMMA OpenedKeeps ==
    ASSUME IInv, NEW o \in openings, Opened(o) \/ OpeningFails(o)
    PROVE  IInv'
<1>1. openings' = openings \ {o} /\ UNCHANGED <<generation, messages>>
  BY DEF Opened, OpeningFails
<1>2. active' = active \/ (o.gen = generation /\ active' = o.of)
  BY DEF Opened, OpeningFails, IsLatest
<1>3. o.of \in Nat
  BY DEF IInv, OpeningsOK
<1> QED
  BY <1>1, <1>2, <1>3, EndedKeeps

\* The end of startThread, and what sendMessage makes of it.
LEMMA StartedKeeps ==
    ASSUME IInv, NEW o \in openings, NEW ok \in BOOLEAN, Started(o, ok)
    PROVE  IInv'
<1>1. /\ openings' = openings \ {o} /\ UNCHANGED generation
      /\ IF ok /\ o.gen = generation THEN active' = o.gen ELSE active' = active
  BY DEF Started, IsLatest
<1>2. /\ o.gen \in Nat /\ o.gen <= generation /\ o.gen # NoThread
      /\ generation \in Nat /\ active \in Nat /\ active' \in Nat
      /\ "told" \in Stages /\ "dropped" \in Stages /\ "calling" \in Stages
  BY <1>1 DEF IInv, OpeningsOK, NoThread, Stages
<1>3. CASE o.message = 0
  <2>1. UNCHANGED messages
    BY <1>3 DEF Started
  <2> QED
    BY <1>1, <1>2, <2>1, EndedKeeps
<1>4. CASE o.message # 0
  <2> DEFINE m == o.message
             told == ~ok /\ o.gen = generation
  <2>1. /\ m \in DOMAIN messages /\ messages[m].home = o.gen
        /\ o.gen = generation => active = NoThread
        /\ MessagesOK
    BY <1>4 DEF IInv, WaitersOK, Waits
  <2>0. PICK Y : messages[m] \in Messages(Y)
    BY <2>1, Homes
  <2>2. SendOn(m, told)
    BY <1>4 DEF Started, IsLatest
  <2>3. \A p \in openings' : p.message # m /\ p.gen # o.gen
    <3>1. ASSUME NEW p \in openings' PROVE p.gen # o.gen
      BY <1>1 DEF IInv, WaitersOK
    <3>2. ASSUME NEW p \in openings', p.message = m PROVE p.gen = o.gen
      BY <1>1, <1>4, <2>1, <3>2 DEF IInv, WaitersOK, Waits
    <3> QED
      BY <3>1, <3>2
  <2>4. \A p \in openings' : p.message # m /\ (p.gen = generation => active' = active)
    BY <1>1, <2>3
  <2>5. CASE active' = NoThread
    <3> DEFINE at == IF told THEN "told" ELSE "dropped"
               r  == [messages[m] EXCEPT !.at = at]
    <3>1. messages' = [messages EXCEPT ![m] = r]
      BY <2>2, <2>5 DEF SendOn
    <3>2. at \in Stages
      BY <1>2
    <3>3. r \in Messages(Y) /\ r.home = messages[m].home /\ r.at = at
      BY <2>0, <3>2 DEF Messages
    <3>4. (\E X : r \in Messages(X)) /\ r.home = messages[m].home /\ r.at = at
      BY <3>3
    <3>5. told \/ o.gen < generation
      BY <1>1, <1>2, <2>5
    <3>6. r.at = "told" \/ r.home < generation
      BY <2>1, <3>4, <3>5
    <3> HIDE DEF r, at, told, m
    <3> QED
      BY <1>1, <1>2, <2>1, <2>4, <3>1, <3>4, <3>6, MovedKeeps
  <2>6. CASE active' # NoThread
    <3> DEFINE r == [messages[m] EXCEPT !.at = "calling", !.dest = active']
    <3>1. messages' = [messages EXCEPT ![m] = r]
      BY <2>2, <2>6 DEF SendOn
    <3>2. r \in Messages(Y) /\ r.home = messages[m].home /\ r.at = "calling" /\ r.dest = active'
      BY <1>2, <2>0 DEF Messages
    <3>3. /\ \E X : r \in Messages(X)
          /\ r.home = messages[m].home /\ r.at = "calling" /\ r.dest = active'
      BY <3>2
    <3>4. active' = o.gen \/ o.gen < generation
      BY <1>1, <1>2, <2>1, <2>6
    <3>5. r.dest = r.home \/ r.home < generation
      BY <2>1, <3>3, <3>4
    <3> HIDE DEF r, m, told
    <3> QED
      BY <1>1, <1>2, <2>1, <2>4, <3>1, <3>3, <3>5, MovedKeeps
  <2> QED
    BY <2>5, <2>6
<1> QED
  BY <1>3, <1>4

\* The end of the call that carries a message.
LEMMA CalledKeeps ==
    ASSUME IInv, NEW m \in DOMAIN messages, NEW outcome \in {"sent", "told"},
           Called(m, outcome)
    PROVE  IInv'
<1> DEFINE r == [messages[m] EXCEPT !.at = outcome, !.input = {}]
<1>1. /\ messages[m].at = "calling"
      /\ messages' = [messages EXCEPT ![m] = r]
      /\ UNCHANGED <<active, generation, openings>>
  BY DEF Called
<1>2. MessagesOK /\ outcome \in Stages /\ active' \in Nat
  BY <1>1 DEF IInv, OpeningsOK, Stages
<1>3. PICK Y : messages[m] \in Messages(Y)
  BY <1>2, Homes
<1>4. r \in Messages(Y \cup {{}})
  BY <1>2, <1>3 DEF Messages
<1>5. r.home = messages[m].home /\ r.at = outcome /\ r.dest = messages[m].dest
  BY <1>3 DEF Messages
<1>6. messages[m].dest = messages[m].home \/ messages[m].home < generation
  BY <1>1 DEF IInv, MessagesAccounted
<1>7. \/ r.at = "told"
      \/ r.at \in {"calling", "sent"} /\ r.dest = r.home
      \/ r.home < generation
  BY <1>5, <1>6
<1>8. \A p \in openings' : p.message # m
  <2>1. m # 0
    BY <1>2, Homes
  <2> QED
    BY <1>1, <2>1 DEF IInv, WaitersOK, Waits
<1> HIDE DEF r
<1>9. \E X : r \in Messages(X)
  BY <1>4
<1> QED
  BY <1>1, <1>2, <1>9, <1>5, <1>7, <1>8, MovedKeeps

-----------------------------------------------------------------------------
\* Nothing has been written yet.
LEMMA Starts ==
    ASSUME Init
    PROVE  IInv
<1>1. MessagesOK
  BY DEF Init, MessagesOK
<1>2. OpeningsOK
  BY ComposerAssumption DEF Init, OpeningsOK, NoThread
<1>3. WaitersOK
  BY DEF Init, WaitersOK
<1>4. MessagesAccounted
  BY DEF Init, MessagesAccounted
<1> QED
  BY <1>1, <1>2, <1>3, <1>4 DEF IInv

\* A message waits for the opening that has been started for it, throughout.
LEMMA Inductive == Spec => []IInv
<1>1. Init => IInv
  BY Starts
<1>2. IInv /\ [Next]_allVars => IInv'
  <2> SUFFICES ASSUME IInv, [Next]_allVars PROVE IInv'
    OBVIOUS
  <2>1. CASE FilesStep
    BY <2>1, Untouched DEF FilesStep
  <2>2. CASE SendMessage
    BY <2>2, SendMessageKeeps
  <2>3. CASE StartThread
    <3>1. NoThread \in Nat
      BY DEF NoThread
    <3> QED
      BY <2>3, <3>1, BeginKeeps DEF StartThread
  <2>4. ASSUME NEW t \in DOMAIN CwdOf, OpenThread(t) PROVE IInv'
    <3>1. t \in Nat
      BY ComposerAssumption
    <3> QED
      BY <2>4, <3>1, BeginKeeps DEF OpenThread
  <2>5. ASSUME NEW o \in openings, Opened(o) \/ OpeningFails(o) PROVE IInv'
    BY <2>5, OpenedKeeps
  <2>6. ASSUME NEW o \in openings, NEW ok \in BOOLEAN, Started(o, ok) PROVE IInv'
    BY <2>6, StartedKeeps
  <2>7. ASSUME NEW m \in DOMAIN messages, NEW outcome \in {"sent", "told"},
               Called(m, outcome)
        PROVE  IInv'
    BY <2>7, CalledKeeps
  <2>8. CASE UNCHANGED allVars
    BY <2>8, Untouched DEF allVars, sendVars
  <2> QED
    BY <2>1, <2>2, <2>3, <2>4, <2>5, <2>6, <2>7, <2>8 DEF Next, User, Outcome
<1> QED
  BY <1>1, <1>2, PTL DEF Spec

\* App.vue, "send a message to create a task": whatever the files, the threads
\* and the bounds, a message goes to the thread it was written for, or ends
\* with an error shown, unless another thread was opened or started meanwhile.
THEOREM MessagesGoWhereMeant == Spec => []MessagesAccounted
<1>1. IInv => MessagesAccounted
  BY DEF IInv
<1> QED
  BY <1>1, Inductive, PTL

-----------------------------------------------------------------------------
(* The files: the invariant of the jobs, of the signs and of what is        *)
(* written.                                                                 *)

Works(D) ==
    [op : {"none", "list", "write"}, dir : D, files : Seq(Uploads), batch : BOOLEAN]

\* Directories may be anything.
JobsOK == \E D : jobs \in [Jobs -> Works(D)]

\* There is one batch, and one listing unless two have met.
Signs ==
    /\ loading \in BOOLEAN /\ uploading \in BOOLEAN /\ met \in BOOLEAN
    /\ \A i, j \in Jobs : jobs[i].batch /\ jobs[j].batch => i = j
    /\ ~met => \A i, j \in Jobs : jobs[i].op = "list" /\ jobs[j].op = "list" => i = j
    /\ uploading <=> \E j \in Jobs : jobs[j].batch
    /\ loading => \E j \in Jobs : jobs[j].op = "list"
    /\ ~met => (loading <=> \E j \in Jobs : jobs[j].op = "list")

\* What has been written, and what is still to be, are files that were picked
\* in the directory they go to.
Landing(job) ==
    job.op = "write" =>
        job.files # <<>> /\ \A i \in 1..Len(job.files) : Append(job.dir, job.files[i]) \in aim
Landed == stored \subseteq aim /\ \A j \in Jobs : Landing(jobs[j])

FilesInv == JobsOK /\ Signs /\ Landed

\* What jobs consist of.
LEMMA JobsAre ==
    ASSUME JobsOK, NEW j \in Jobs
    PROVE  /\ \E D : jobs[j] \in Works(D)
           /\ jobs[j].op \in {"none", "list", "write"}
           /\ jobs[j].batch \in BOOLEAN
           /\ jobs[j].files \in Seq(Uploads)
<1>1. PICK D : jobs[j] \in Works(D)
  BY DEF JobsOK
<1> QED
  BY <1>1 DEF Works

\* One job becomes another.
LEMMA JobChanges ==
    ASSUME JobsOK, NEW j \in Jobs, NEW r, \E D : r \in Works(D),
           jobs' = [jobs EXCEPT ![j] = r]
    PROVE  JobsOK' /\ jobs'[j] = r /\ \A i \in Jobs : i # j => jobs'[i] = jobs[i]
<1>1. PICK D : jobs \in [Jobs -> Works(D)]
  BY DEF JobsOK
<1>2. PICK E : r \in Works(E)
  OBVIOUS
<1> DEFINE F == D \cup E
<1>3. Works(D) \subseteq Works(F) /\ Works(E) \subseteq Works(F)
  BY DEF Works
<1> HIDE DEF F
<1>4. jobs \in [Jobs -> Works(F)] /\ r \in Works(F)
  BY <1>1, <1>2, <1>3
<1>5. jobs' \in [Jobs -> Works(F)]
  BY <1>4
<1> QED
  BY <1>4, <1>5 DEF JobsOK

\* A call of readDirectory begins: on its own, or as the last one of a batch.
LEMMA StartListingKeeps ==
    ASSUME FilesInv, NEW j \in Jobs, NEW dir, NEW batch \in BOOLEAN,
           StartListing(j, dir, batch), jobs[j].batch = batch, jobs[j].op # "list",
           UNCHANGED <<uploading, stored, aim>>
    PROVE  FilesInv'
<1>1. Listing(dir, batch) \in Works({dir})
  BY DEF Listing, Works
<1>2. /\ JobsOK' /\ jobs'[j] = Listing(dir, batch)
      /\ \A i \in Jobs : i # j => jobs'[i] = jobs[i]
  BY <1>1, JobChanges DEF StartListing, FilesInv
<1>3. jobs'[j].op = "list" /\ jobs'[j].batch = batch
  BY <1>2 DEF Listing
<1>4. \A i \in Jobs : jobs'[i].batch = jobs[i].batch
  BY <1>2, <1>3
<1>5. loading' = TRUE /\ loading' \in BOOLEAN /\ met' \in BOOLEAN
  BY Zenon DEF StartListing
<1>6. ~met' => ~met /\ \A i \in Jobs : jobs[i].op # "list"
  BY DEF StartListing, Awaited
<1>7. Signs'
  <2>1. uploading' \in BOOLEAN /\ uploading' = uploading
    BY DEF FilesInv, Signs
  <2> QED
    BY <1>2, <1>3, <1>4, <1>5, <1>6, <2>1 DEF FilesInv, Signs
<1>8. Landed'
  BY <1>2, <1>3 DEF FilesInv, Landed, Landing
<1> QED
  BY <1>2, <1>7, <1>8 DEF FilesInv

\* A call ends, and with it the sign that is shown for it.
LEMMA FinishKeeps ==
    ASSUME FilesInv, NEW j \in Jobs, Finish(j), UNCHANGED <<stored, aim>>
    PROVE  FilesInv'
<1>1. NoJob \in Works({NoPath})
  BY DEF NoJob, Works
<1>2. /\ JobsOK' /\ jobs'[j] = NoJob
      /\ \A i \in Jobs : i # j => jobs'[i] = jobs[i]
  BY <1>1, JobChanges DEF Finish, FilesInv
<1>3. jobs'[j].op = "none" /\ jobs'[j].batch = FALSE
  BY <1>2 DEF NoJob
<1>4. /\ uploading' \in BOOLEAN /\ loading' \in BOOLEAN /\ met' \in BOOLEAN
      /\ uploading' <=> uploading /\ ~jobs[j].batch
      /\ loading' <=> loading /\ jobs[j].op # "list"
      /\ met' <=> met /\ Awaited("list") \ {j} # {}
  BY Zenon DEF Finish
<1>5. Awaited("list") \ {j} # {} <=> \E i \in Jobs : i # j /\ jobs[i].op = "list"
  BY DEF Awaited
<1>6. \A i \in Jobs :
          /\ jobs'[i].batch <=> i # j /\ jobs[i].batch
          /\ jobs'[i].op = "list" <=> i # j /\ jobs[i].op = "list"
  BY <1>2, <1>3
<1>7. Signs'
  <2>1. \A i, k \in Jobs : jobs'[i].batch /\ jobs'[k].batch => i = k
    BY <1>6 DEF FilesInv, Signs
  <2>2. uploading' <=> \E i \in Jobs : jobs'[i].batch
    <3>1. \A i \in Jobs : jobs[i].batch /\ jobs[j].batch => i = j
      BY DEF FilesInv, Signs
    <3>2. uploading <=> \E i \in Jobs : jobs[i].batch
      BY DEF FilesInv, Signs
    <3> QED
      BY <1>4, <1>6, <3>1, <3>2, Zenon
  <2>3. ASSUME ~met'
        PROVE  \/ \A i \in Jobs : i # j => jobs[i].op # "list"
               \/ ~met
    BY <1>4, <1>5, <2>3
  <2>4. ~met' => \A i, k \in Jobs : jobs'[i].op = "list" /\ jobs'[k].op = "list" => i = k
    <3>1. ~met => \A i, k \in Jobs : jobs[i].op = "list" /\ jobs[k].op = "list" => i = k
      BY DEF FilesInv, Signs
    <3> QED
      BY <1>6, <2>3, <3>1, Zenon
  <2>6. loading' => \E i \in Jobs : jobs'[i].op = "list"
    <3>1. loading => \E i \in Jobs : jobs[i].op = "list"
      BY DEF FilesInv, Signs
    <3> QED
      BY <1>4, <1>6, <3>1, Zenon
  <2>7. ~met' /\ (\E i \in Jobs : jobs'[i].op = "list") => loading'
    <3>1. ~met => \A i, k \in Jobs : jobs[i].op = "list" /\ jobs[k].op = "list" => i = k
      BY DEF FilesInv, Signs
    <3>2. ~met /\ (\E i \in Jobs : jobs[i].op = "list") => loading
      BY DEF FilesInv, Signs
    <3> QED
      BY <1>4, <1>6, <2>3, <3>1, <3>2, Zenon
  <2> QED
    BY <1>4, <2>1, <2>2, <2>4, <2>6, <2>7, Zenon DEF Signs
<1>8. Landed'
  <2>1. \A i \in Jobs : i # j => Landing(jobs[i])'
    BY <1>2 DEF FilesInv, Landed, Landing
  <2>2. Landing(jobs[j])'
    BY <1>3 DEF Landing
  <2> QED
    BY <2>1, <2>2 DEF FilesInv, Landed
<1> QED
  BY <1>2, <1>7, <1>8 DEF FilesInv

\* The user uploads: files that are a sequence without a hole.
LEMMA UploadKeeps ==
    ASSUME FilesInv, NEW j \in Jobs, NEW files \in Seq(Uploads), NEW batch \in BOOLEAN,
           files # <<>>, batch => ~uploading, Upload(j, files, batch)
    PROVE  FilesInv'
<1>1. Write(Shown, files, batch) \in Works({Shown})
  BY DEF Write, Works
<1>2. /\ JobsOK' /\ jobs'[j] = Write(Shown, files, batch)
      /\ \A i \in Jobs : i # j => jobs'[i] = jobs[i]
  BY <1>1, JobChanges DEF Upload, FilesInv
<1>3. /\ jobs'[j].op = "write" /\ jobs'[j].batch = batch
      /\ jobs'[j].files = files /\ jobs'[j].dir = Shown
  BY <1>2 DEF Write
<1>4. jobs[j].op = "none" /\ jobs[j].batch = FALSE
  BY DEF Upload, Idle, NoJob
<1>5. UNCHANGED <<loading, met, stored>> /\ aim' = aim \cup {Append(Shown, f) : f \in Range(files)}
  BY DEF Upload, browseVars
<1>6. uploading' \in BOOLEAN /\ (uploading' <=> uploading \/ batch)
  BY Zenon DEF Upload
<1>7. Signs'
  BY <1>2, <1>3, <1>4, <1>5, <1>6 DEF FilesInv, Signs
<1>8. Landed'
  <2>1. \A i \in 1..Len(files) : Append(Shown, files[i]) \in aim'
    BY <1>5 DEF Range
  <2>2. Landing(jobs[j])'
    BY <1>3, <2>1 DEF Landing
  <2>3. \A i \in Jobs : i # j => Landing(jobs[i])'
    BY <1>2, <1>5 DEF FilesInv, Landed, Landing
  <2> QED
    BY <1>5, <2>2, <2>3 DEF FilesInv, Landed
<1> QED
  BY <1>2, <1>7, <1>8 DEF FilesInv

\* uploadFiles goes on with its next file, in the same directory.
LEMMA NextFileKeeps ==
    ASSUME FilesInv, NEW j \in Jobs, jobs[j].op = "write", Len(jobs[j].files) > 1,
           jobs' = [jobs EXCEPT ![j] = NextFile(jobs[j])],
           UNCHANGED <<loading, uploading, met, stored, aim>>
    PROVE  FilesInv'
<1>1. PICK D : jobs[j] \in Works(D)
  BY JobsAre DEF FilesInv
<1>2. /\ jobs[j].files \in Seq(Uploads)
      /\ Tail(jobs[j].files) \in Seq(Uploads)
      /\ Len(Tail(jobs[j].files)) = Len(jobs[j].files) - 1
      /\ \A i \in 1..Len(Tail(jobs[j].files)) : Tail(jobs[j].files)[i] = jobs[j].files[i + 1]
  BY <1>1 DEF Works
<1>3. /\ NextFile(jobs[j]) \in Works(D)
      /\ NextFile(jobs[j]).op = "write" /\ NextFile(jobs[j]).batch = jobs[j].batch
      /\ NextFile(jobs[j]).dir = jobs[j].dir /\ NextFile(jobs[j]).files = Tail(jobs[j].files)
  BY <1>1, <1>2 DEF NextFile, Works
<1>4. /\ JobsOK' /\ jobs'[j] = NextFile(jobs[j])
      /\ \A i \in Jobs : i # j => jobs'[i] = jobs[i]
  BY <1>3, JobChanges DEF FilesInv
<1>5. \A i \in Jobs : jobs'[i].batch = jobs[i].batch /\ jobs'[i].op = jobs[i].op
  BY <1>3, <1>4
<1>6. Signs'
  BY <1>5 DEF FilesInv, Signs
<1>7. Landed'
  <2>1. Landing(jobs[j])
    BY DEF FilesInv, Landed
  <2>2. Landing(jobs[j])'
    <3>1. ASSUME NEW i \in 1..Len(Tail(jobs[j].files))
          PROVE  Append(jobs[j].dir, Tail(jobs[j].files)[i]) \in aim
      <4>1. i + 1 \in 1..Len(jobs[j].files) /\ Tail(jobs[j].files)[i] = jobs[j].files[i + 1]
        BY <1>2
      <4> QED
        BY <2>1, <4>1 DEF Landing
    <3>2. Tail(jobs[j].files) # <<>>
      <4>1. Len(Tail(jobs[j].files)) # 0
        <5> DEFINE n == Len(jobs[j].files)
                   k == Len(Tail(jobs[j].files))
        <5>1. n \in Nat /\ n > 1 /\ k = n - 1
          BY <1>2
        <5> HIDE DEF n, k
        <5>2. k # 0
          BY <5>1
        <5> QED
          BY <5>2 DEF k
      <4> QED
        BY <1>2, <4>1, EmptySeq, Zenon
    <3>3. /\ jobs'[j].op = "write" /\ jobs'[j].dir = jobs[j].dir
          /\ jobs'[j].files = Tail(jobs[j].files) /\ aim' = aim
      BY <1>3, <1>4
    <3> QED
      BY <3>1, <3>2, <3>3 DEF Landing
  <2>3. \A i \in Jobs : i # j => Landing(jobs[i])'
    BY <1>4 DEF FilesInv, Landed, Landing
  <2> QED
    BY <2>2, <2>3 DEF FilesInv, Landed
<1> QED
  BY <1>4, <1>6, <1>7 DEF FilesInv

\* The host stores the file whose turn it is.
LEMMA StoresKeeps ==
    ASSUME FilesInv, NEW j \in Jobs, Stores(j)
    PROVE  FilesInv'
<1>1. /\ jobs[j].op = "write"
      /\ stored' = stored \cup {Append(jobs[j].dir, Head(jobs[j].files))}
      /\ UNCHANGED <<loading, met, uploading, aim, jobs>>
  BY DEF Stores, browseVars
<1>2. Append(jobs[j].dir, Head(jobs[j].files)) \in aim
  BY <1>1, JobsAre DEF FilesInv, Landed, Landing
<1>3. JobsOK' /\ Signs' /\ \A i \in Jobs : Landing(jobs[i])'
  BY <1>1 DEF FilesInv, JobsOK, Signs, Landed, Landing
<1> QED
  BY <1>1, <1>2, <1>3 DEF FilesInv, Landed

\* The files the user picks are a sequence, in some order.
LEMMA PickedAreSequences ==
    ASSUME NEW files \in SetToSeqs(Uploads \ Picked)
    PROVE  files \in Seq(Uploads)
<1>1. IsFiniteSet(Uploads \ Picked)
  BY FilesAssumption, FS_Difference DEF FilesAssumption
<1>2. Cardinality(Uploads \ Picked) \in Nat
  BY <1>1, FS_CardinalityType
<1>3. files \in [1..Cardinality(Uploads \ Picked) -> Uploads \ Picked]
  BY DEF SetToSeqs
<1>4. PICK n \in Nat : files \in [1..n -> Uploads]
  BY <1>2, <1>3
<1>5. [1..n -> Uploads] \in {[1..k -> Uploads] : k \in Nat}
  BY <1>4, Zenon
<1>6. files \in UNION {[1..k -> Uploads] : k \in Nat}
  BY <1>4, <1>5, Zenon
<1> QED
  BY <1>6, SeqDef, Zenon

\* The files keep their invariant, whatever they do.
LEMMA FilesNextKeeps ==
    ASSUME FilesInv, FilesNext
    PROVE  FilesInv'
<1>1. ASSUME UNCHANGED <<uploading, loading, met, stored, aim, jobs>>
      PROVE  FilesInv'
  BY <1>1 DEF FilesInv, JobsOK, Signs, Landed, Landing
<1>2. CASE AttachEntry
  BY <1>1, <1>2 DEF AttachEntry, browseVars, uploadVars
<1>3. ASSUME NEW f \in attachments, RemoveAttachment(f) PROVE FilesInv'
  BY <1>1, <1>3 DEF RemoveAttachment, browseVars, uploadVars
<1>4. ASSUME NEW j \in Jobs, Browse(j) PROVE FilesInv'
  <2>1. jobs[j].op # "list" /\ jobs[j].batch = FALSE /\ FALSE \in BOOLEAN
    BY <1>4 DEF Browse, Idle, NoJob
  <2>2. UNCHANGED <<uploading, stored, aim>>
    BY <1>4 DEF Browse, uploadVars
  <2>3. \E dir : StartListing(j, dir, FALSE)
    BY <1>4 DEF Browse
  <2> QED
    BY <2>1, <2>2, <2>3, StartListingKeeps
<1>5. ASSUME NEW j \in Jobs, UploadFiles(j) PROVE FilesInv'
  BY <1>5, PickedAreSequences, UploadKeeps DEF UploadFiles
<1>6. ASSUME NEW j \in Jobs, AttachBrowserImage(j) PROVE FilesInv'
  <2>1. PICK f \in Images \ Picked : Upload(j, <<f>>, FALSE)
    BY <1>6 DEF AttachBrowserImage
  <2>2. <<f>> \in Seq(Uploads) /\ <<f>> # <<>> /\ FALSE \in BOOLEAN
    BY FilesAssumption DEF FilesAssumption
  <2> QED
    BY <2>1, <2>2, UploadKeeps
<1>7. ASSUME NEW j \in Jobs, Listed(j) \/ JobFails(j) PROVE FilesInv'
  BY <1>7, FinishKeeps DEF Listed, JobFails
<1>8. ASSUME NEW j \in Jobs, Written(j) PROVE FilesInv'
  <2>1. jobs[j].op = "write" /\ UNCHANGED <<stored, aim>>
    BY <1>8 DEF Written
  <2>2. CASE Len(jobs[j].files) > 1
    BY <1>8, <2>1, <2>2, NextFileKeeps DEF Written
  <2>3. CASE ~(Len(jobs[j].files) > 1) /\ jobs[j].batch
    <3>1. StartListing(j, jobs[j].dir, TRUE) /\ UNCHANGED uploading
      BY <1>8, <2>3 DEF Written
    <3>2. jobs[j].batch = TRUE /\ TRUE \in BOOLEAN
      BY <2>3, JobsAre, Zenon DEF FilesInv
    <3> QED
      BY <2>1, <3>1, <3>2, StartListingKeeps
  <2>4. CASE ~(Len(jobs[j].files) > 1) /\ ~jobs[j].batch
    BY <1>8, <2>1, <2>4, FinishKeeps DEF Written
  <2> QED
    BY <2>2, <2>3, <2>4
<1>9. ASSUME NEW j \in Jobs, Stores(j) PROVE FilesInv'
  BY <1>9, StoresKeeps
<1> QED
  BY <1>2, <1>3, <1>4, <1>5, <1>6, <1>7, <1>8, <1>9 DEF FilesNext

\* Messages leave the files alone but for the attachments.
LEMMA FilesInductive == Spec => []FilesInv
<1>1. Init => FilesInv
  <2> SUFFICES ASSUME Init PROVE FilesInv
    OBVIOUS
  <2>1. NoJob \in Works({NoPath}) /\ NoJob.op = "none" /\ NoJob.batch = FALSE
    BY DEF NoJob, Works
  <2>2. jobs = [j \in Jobs |-> NoJob] /\ stored = {}
    BY DEF Init, FilesInit
  <2>3. loading = FALSE /\ uploading = FALSE
    BY DEF Init, FilesInit
  <2>4. loading \in BOOLEAN /\ uploading \in BOOLEAN /\ met \in BOOLEAN
    BY Zenon DEF Init, FilesInit
  <2>5. JobsOK /\ Signs /\ Landed
    BY <2>1, <2>2, <2>3, <2>4 DEF JobsOK, Signs, Landed, Landing
  <2> QED
    BY <2>5 DEF FilesInv
<1>2. FilesInv /\ [Next]_allVars => FilesInv'
  <2> SUFFICES ASSUME FilesInv, [Next]_allVars PROVE FilesInv'
    OBVIOUS
  <2>1. CASE FilesStep
    BY <2>1, FilesNextKeeps DEF FilesStep
  <2>2. CASE User \/ Outcome \/ UNCHANGED allVars
    <3>1. UNCHANGED <<uploading, loading, met, stored, aim, jobs>>
      BY <2>2 DEF User, Outcome, SendMessage, StartThread, OpenThread, Opened, OpeningFails, Started,
         Called, ShowDirectory, allVars, filesVars, browseVars, uploadVars
    <3> QED
      BY <3>1 DEF FilesInv, JobsOK, Signs, Landed, Landing
  <2> QED
    BY <2>1, <2>2 DEF Next
<1> QED
  BY <1>1, <1>2, PTL DEF Spec

\* The busy signs tell the truth: each is shown while a call it stands for is
\* awaited, however these end.
THEOREM SignsAreTruthful == Spec => []BusyTruthful
<1>1. FilesInv => BusyTruthful
  <2> SUFFICES ASSUME FilesInv PROVE BusyTruthful
    OBVIOUS
  <2>1. Awaited("list") # {} <=> \E j \in Jobs : jobs[j].op = "list"
    BY DEF Awaited
  <2> QED
    BY <2>1, Zenon DEF FilesInv, Signs, BusyTruthful
<1> QED
  BY <1>1, FilesInductive, PTL

\* A file of the host is the entry of its directory that has its name.
LEMMA EntryIsFile ==
    ASSUME NEW f \in HostFiles
    PROVE  Append(Front(f), Last(f)) = f
<1>1. f \in Seq(STRING) /\ f # <<>>
  BY FilesAssumption
<1> QED
  BY <1>1 DEF Front, Last

\* useCodexSession.ts, uploadFiles, openFileEntry and readDirectory: only files
\* that were picked for a directory are written to it, and what is attached is
\* on the host, unless openThread has parted the path from its entries.
THEOREM FilesLandWhereShown == Spec => FilesLand
<1> DEFINE Attached == path = listed => attachments' \ attachments \subseteq HostFiles \cup stored
           Together == path = listed /\ path' # listed' => \E o \in openings : Opened(o)
<1>1. FilesInv' /\ [Next]_allVars => [stored' \subseteq aim' /\ Attached /\ Together]_allVars
  <2> SUFFICES ASSUME FilesInv', Next
               PROVE  stored' \subseteq aim' /\ Attached /\ Together
    BY DEF allVars
  <2>1. stored' \subseteq aim'
    BY DEF FilesInv, Landed
  <2>2. CASE AttachEntry
    <3>1. PICK f \in HostFiles :
              /\ Front(f) = listed
              /\ attachments' = attachments \cup {Append(path, Last(f))}
              /\ UNCHANGED <<path, listed>>
      BY <2>2 DEF AttachEntry, AddAttachment, browseVars
    <3> QED
      BY <2>1, <3>1, EntryIsFile
  <2>3. ASSUME NEW f \in attachments, RemoveAttachment(f)
        PROVE  Attached /\ Together
    BY <2>3 DEF RemoveAttachment, browseVars
  <2>4. ASSUME NEW j \in Jobs, Written(j)
        PROVE  Attached /\ Together
    <3>1. attachments' \ attachments \subseteq stored /\ UNCHANGED <<path, listed>>
      BY <2>4 DEF Written
    <3> QED
      BY <3>1
  <2>5. ASSUME NEW j \in Jobs,
               Browse(j) \/ UploadFiles(j) \/ AttachBrowserImage(j) \/ Stores(j) \/ Listed(j) \/ JobFails(j)
        PROVE  Attached /\ Together
    <3>1. attachments' = attachments
      BY <2>5 DEF Browse, UploadFiles, AttachBrowserImage, Upload, Stores, Listed, JobFails
    <3>2. UNCHANGED <<path, listed>> \/ path' = listed'
      BY <2>5 DEF Browse, UploadFiles, AttachBrowserImage, Upload, Stores, Listed, JobFails, browseVars
    <3> QED
      BY <3>1, <3>2
  <2>6. CASE User \/ Outcome
    <3>1. attachments' \subseteq attachments
      BY <2>6 DEF User, Outcome, SendMessage, ClearAttachments, StartThread, OpenThread, Opened,
         OpeningFails, Started, SendOn, Called, filesVars
    <3>2. attachments' \ attachments = {}
      BY <3>1
    <3>3. Attached
      BY <3>2
    <3>4. CASE \E o \in openings : Opened(o)
      BY <2>1, <3>3, <3>4
    <3>5. CASE ~\E o \in openings : Opened(o)
      <4>1. UNCHANGED <<path, listed>>
        BY <2>6, <3>5 DEF User, Outcome, SendMessage, StartThread, OpenThread,
           OpeningFails, Started, Called, filesVars, browseVars
      <4> QED
        BY <2>1, <3>3, <4>1
    <3> QED
      BY <3>4, <3>5
  <2> QED
    BY <2>1, <2>2, <2>3, <2>4, <2>5, <2>6 DEF Next, FilesStep, FilesNext
<1> QED
  BY <1>1, FilesInductive, PTL DEF Spec, FilesLand

-----------------------------------------------------------------------------
(* What a message carries: what waits for its thread has captured what is   *)
(* attached, but for what is muddled.                                       *)

Bounded == Len(messages) <= MaxMessages
Captured ==
    \A m \in DOMAIN messages :
        messages[m].at = "starting" => messages[m].input \ muddled = attachments \ muddled
SendInv == IInv /\ Bounded /\ Captured

\* A message more, with what is attached.
Writes(at) ==
    LET m == Len(messages) + 1 IN
    /\ m \in MessageIds /\ m \notin DOMAIN messages
    /\ DOMAIN messages' = DOMAIN messages \cup {m}
    /\ Len(messages') = m
    /\ \A n \in DOMAIN messages : messages'[n] = messages[n]
    /\ messages'[m].at = at /\ messages'[m].input = attachments

\* Message m goes on.
Moves(m, from, to) ==
    /\ m \in DOMAIN messages
    /\ DOMAIN messages' = DOMAIN messages
    /\ Len(messages') = Len(messages)
    /\ \A n \in DOMAIN messages : n # m => messages'[n] = messages[n]
    /\ messages[m].at = from /\ messages'[m].at = to

\* Only the user takes an attachment away without sending it.
Leaves == attachments \subseteq attachments' \/ \E f \in attachments : RemoveAttachment(f)

\* What a step does to the messages, with what becomes of the attachments.
Effect ==
    \/ UNCHANGED messages /\ Leaves
    \/ Writes("calling") /\ attachments' = {}
    \/ Writes("starting") /\ attachments' = attachments
    \/ \E m \in DOMAIN messages :
          /\ Moves(m, "starting", "calling") /\ messages'[m].input = messages[m].input
          /\ attachments' = {}
    \/ \E m \in DOMAIN messages, from \in Stages, to \in Stages :
          /\ Moves(m, from, to) /\ to \in {"told", "dropped", "sent"}
          /\ attachments' = attachments

\* sendMessage.
LEMMA SendMessageEffect ==
    ASSUME IInv, SendMessage
    PROVE  Effect
<1> DEFINE m == Len(messages) + 1
<1>0. /\ active \in Nat /\ generation \in Nat
      /\ NoThread \in Nat /\ "calling" \in Stages /\ "starting" \in Stages
      /\ MessagesOK
  BY DEF IInv, OpeningsOK, NoThread, Stages
<1>1. ASSUME NEW at \in Stages, NEW home \in Nat, NEW dest \in Nat,
             messages' = Append(messages, Message(at, home, dest))
      PROVE  Writes(at)
  <2>1. /\ MessagesOK'
        /\ Len(messages) \in Nat
        /\ DOMAIN messages = 1..Len(messages)
        /\ DOMAIN messages' = 1..m
        /\ \A n \in DOMAIN messages : messages'[n] = messages[n]
        /\ messages'[m] = Message(at, home, dest)
    BY <1>0, <1>1, Written1
  <2>2. m \in MessageIds
    BY <2>1, ComposerAssumption DEF SendMessage, MessageIds, ComposerAssumption
  <2>3. Len(messages') = m
    <3>1. PICK X : messages' \in Seq(Messages(X))
      BY <2>1 DEF MessagesOK
    <3>2. Len(messages') \in Nat /\ DOMAIN messages' = 1..Len(messages')
      BY <3>1
    <3> QED
      BY <2>1, <3>2
  <2>4. messages'[m].at = at /\ messages'[m].input = attachments
    BY <2>1 DEF Message
  <2>5. m \notin DOMAIN messages /\ DOMAIN messages' = DOMAIN messages \cup {m}
    BY <2>1
  <2> QED
    BY <2>1, <2>2, <2>3, <2>4, <2>5 DEF Writes
<1>2. CASE active # NoThread
  BY <1>0, <1>1, <1>2 DEF SendMessage, ClearAttachments, Effect
<1>3. CASE active = NoThread
  <2>1. generation + 1 \in Nat
    BY <1>0
  <2> QED
    BY <1>0, <1>1, <1>3, <2>1 DEF SendMessage, Effect
<1> QED
  BY <1>2, <1>3

\* A message that goes on, keeping what it has captured or not.
LEMMA GoesOn ==
    ASSUME IInv, NEW m \in DOMAIN messages, NEW to \in Stages, NEW r,
           messages' = [messages EXCEPT ![m] = r], r.at = to,
           \E X : r \in Messages(X), r.home = messages[m].home
    PROVE  Moves(m, messages[m].at, to) /\ messages'[m] = r /\ messages[m].at \in Stages
<1>0. MessagesOK
  BY DEF IInv
<1>1. /\ MessagesOK'
      /\ DOMAIN messages' = DOMAIN messages
      /\ \A n \in DOMAIN messages : n # m => messages'[n] = messages[n]
      /\ messages'[m] = r
  BY <1>0, Moved
<1>2. Len(messages') = Len(messages)
  <2>1. PICK X : messages \in Seq(Messages(X))
    BY <1>0 DEF MessagesOK
  <2>2. PICK Y : messages' \in Seq(Messages(Y))
    BY <1>1 DEF MessagesOK
  <2>3. /\ Len(messages) \in Nat /\ DOMAIN messages = 1..Len(messages)
        /\ Len(messages') \in Nat /\ DOMAIN messages' = 1..Len(messages')
    BY <2>1, <2>2
  <2> QED
    BY <1>1, <2>3
<1>3. messages[m].at \in Stages
  BY <1>0, Homes DEF Messages
<1> QED
  BY <1>1, <1>2, <1>3 DEF Moves

\* startThread, and what sendMessage makes of it.
LEMMA StartedEffect ==
    ASSUME IInv, NEW o \in openings, NEW ok \in BOOLEAN, Started(o, ok)
    PROVE  Effect
<1>1. CASE o.message = 0
  BY <1>1 DEF Started, Effect, Leaves
<1>2. CASE o.message # 0
  <2> DEFINE m == o.message
             told == ~ok /\ IsLatest(o)
  <2>1. m \in DOMAIN messages /\ messages[m].at = "starting" /\ MessagesOK
    BY <1>2 DEF IInv, WaitersOK, Waits
  <2>2. PICK Y : messages[m] \in Messages(Y)
    BY <2>1, Homes
  <2>3. SendOn(m, told)
    BY <1>2 DEF Started
  <2>4. active' \in Nat
    BY DEF Started, IInv, OpeningsOK
  <2>5. CASE active' = NoThread
    <3> DEFINE at == IF told THEN "told" ELSE "dropped"
               r  == [messages[m] EXCEPT !.at = at]
    <3>1. messages' = [messages EXCEPT ![m] = r] /\ attachments' = attachments
      BY <2>3, <2>5 DEF SendOn
    <3>2. at \in Stages /\ at \in {"told", "dropped", "sent"} /\ "starting" \in Stages
      BY DEF Stages
    <3>3. r \in Messages(Y) /\ r.home = messages[m].home /\ r.at = at
      BY <2>2, <3>2 DEF Messages
    <3> HIDE DEF r, at, told, m
    <3>4. Moves(m, messages[m].at, at)
      <4>1. \E X : r \in Messages(X)
        BY <3>3
      <4> QED
        BY <2>1, <3>1, <3>2, <3>3, <4>1, GoesOn
    <3>5. Moves(m, "starting", at)
      BY <2>1, <3>4
    <3> QED
      BY <2>1, <3>1, <3>2, <3>5 DEF Effect
  <2>6. CASE active' # NoThread
    <3> DEFINE r == [messages[m] EXCEPT !.at = "calling", !.dest = active']
    <3>1. messages' = [messages EXCEPT ![m] = r] /\ attachments' = {}
      BY <2>3, <2>6 DEF SendOn, ClearAttachments
    <3>2. "calling" \in Stages
      BY DEF Stages
    <3>3. /\ r \in Messages(Y) /\ r.home = messages[m].home /\ r.at = "calling"
          /\ r.input = messages[m].input
      BY <2>2, <2>4, <3>2 DEF Messages
    <3> HIDE DEF r, told, m
    <3>4. Moves(m, "starting", "calling") /\ messages'[m].input = messages[m].input
      BY <2>1, <3>1, <3>2, <3>3, GoesOn
    <3> QED
      BY <2>1, <3>1, <3>4 DEF Effect
  <2> QED
    BY <2>5, <2>6
<1> QED
  BY <1>1, <1>2

\* Every step has one of the effects.
LEMMA StepEffect ==
    ASSUME IInv, FilesStep \/ User \/ Outcome
    PROVE  Effect
<1>1. CASE FilesStep
  <2>1. ASSUME attachments \subseteq attachments' PROVE Leaves
    BY <2>1 DEF Leaves
  <2>2. ASSUME AttachEntry PROVE Leaves
    BY <2>1, <2>2 DEF AttachEntry, AddAttachment
  <2>3. ASSUME NEW f \in attachments, RemoveAttachment(f) PROVE Leaves
    BY <2>3 DEF Leaves
  <2>4. ASSUME NEW j \in Jobs, FilesNext,
               \/ Browse(j) \/ UploadFiles(j) \/ AttachBrowserImage(j)
               \/ Stores(j) \/ Listed(j) \/ JobFails(j) \/ Written(j)
        PROVE  Leaves
    BY <2>1, <2>4 DEF Browse, UploadFiles, AttachBrowserImage, Upload, Stores, Listed, JobFails, Written
  <2>5. Leaves /\ UNCHANGED messages
    BY <1>1, <2>1, <2>2, <2>3, <2>4 DEF FilesStep, FilesNext, AttachEntry, AddAttachment
  <2> QED
    BY <2>5 DEF Effect
<1>2. CASE SendMessage
  BY <1>2, SendMessageEffect
<1>3. CASE StartThread \/ \E t \in DOMAIN CwdOf : OpenThread(t)
  BY <1>3 DEF StartThread, OpenThread, filesVars, Effect, Leaves
<1>4. ASSUME NEW o \in openings, Opened(o) \/ OpeningFails(o) PROVE Effect
  BY <1>4 DEF Opened, OpeningFails, filesVars, Effect, Leaves
<1>5. ASSUME NEW o \in openings, NEW ok \in BOOLEAN, Started(o, ok) PROVE Effect
  BY <1>5, StartedEffect
<1>6. ASSUME NEW m \in DOMAIN messages, NEW outcome \in {"sent", "told"}, Called(m, outcome)
      PROVE  Effect
  <2> DEFINE r == [messages[m] EXCEPT !.at = outcome, !.input = {}]
  <2>1. messages' = [messages EXCEPT ![m] = r] /\ attachments' = attachments
    BY <1>6 DEF Called, filesVars
  <2>2. MessagesOK /\ outcome \in Stages /\ outcome \in {"told", "dropped", "sent"}
    BY DEF IInv, Stages
  <2>3. PICK Y : messages[m] \in Messages(Y)
    BY <2>2, Homes
  <2>4. r \in Messages(Y \cup {{}}) /\ r.home = messages[m].home /\ r.at = outcome
    BY <2>2, <2>3 DEF Messages
  <2> HIDE DEF r
  <2>5. Moves(m, messages[m].at, outcome) /\ messages[m].at \in Stages
    BY <2>1, <2>2, <2>4, GoesOn
  <2> QED
    BY <2>1, <2>2, <2>5 DEF Effect
<1> QED
  BY <1>1, <1>2, <1>3, <1>4, <1>5, <1>6 DEF User, Outcome

\* What waits has captured what is attached: any difference is muddled.
LEMMA SendStep ==
    ASSUME SendInv, IInv', [Next]_allVars
    PROVE  SendInv'
<1>1. CASE UNCHANGED allVars
  <2>1. UNCHANGED <<messages, attachments, muddled>>
    BY <1>1 DEF allVars, sendVars, filesVars
  <2> QED
    BY <2>1 DEF SendInv, Bounded, Captured
<1>2. CASE Next
  <2>1. Effect /\ Muddle
    BY <1>2, StepEffect DEF Next, SendInv
  <2>2. ASSUME NEW m \in DOMAIN messages', messages'[m].at = "starting"
        PROVE  \/ /\ m \in Waiting /\ messages'[m].input = messages[m].input
               \/ messages'[m].input = attachments /\ attachments' = attachments
    <3>1. CASE UNCHANGED messages
      BY <2>2, <3>1 DEF Waiting
    <3>2. CASE Writes("calling") \/ (Writes("starting") /\ attachments' = attachments)
      BY <2>2, <3>2 DEF Writes, Waiting
    <3>3. ASSUME NEW n \in DOMAIN messages, NEW from, NEW to, Moves(n, from, to), to # "starting"
          PROVE  m \in Waiting /\ messages'[m].input = messages[m].input
      BY <2>2, <3>3 DEF Moves, Waiting
    <3> QED
      BY <2>1, <3>1, <3>2, <3>3 DEF Effect
  <2>3. Captured'
    <3> SUFFICES ASSUME NEW m \in DOMAIN messages', messages'[m].at = "starting"
                 PROVE  messages'[m].input \ muddled' = attachments' \ muddled'
      BY DEF Captured
    <3>1. m \in Waiting'
      BY DEF Waiting
    <3>2. CASE messages'[m].input = attachments /\ attachments' = attachments
      BY <3>2
    <3>3. CASE m \in Waiting /\ messages'[m].input = messages[m].input
      <4>1. messages[m].input \ muddled = attachments \ muddled
        BY <3>3 DEF SendInv, Captured, Waiting
      <4>2. /\ muddled \subseteq muddled'
            /\ attachments \ attachments' \subseteq muddled'
            /\ attachments' \ attachments \subseteq muddled'
        BY <2>1, <3>1, <3>3 DEF Muddle
      <4> QED
        BY <3>3, <4>1, <4>2
    <3> QED
      BY <2>2, <3>2, <3>3
  <2>4. Bounded'
    BY <2>1, ComposerAssumption
    DEF Effect, Writes, Moves, SendInv, Bounded, MessageIds, ComposerAssumption
  <2> QED
    BY <2>3, <2>4 DEF SendInv
<1> QED
  BY <1>1, <1>2

\* A message goes out with what is shown as attached when it does, which is
\* then cleared, and nothing else but the user takes an attachment away,
\* whatever uploads, listings and openings end meanwhile.
THEOREM MessagesCarryWhatIsShown == Spec => SendsWhatIsShown
<1>1. Init => SendInv
  <2> SUFFICES ASSUME Init, IInv PROVE SendInv
    BY Starts
  <2>1. messages = <<>>
    BY DEF Init
  <2> QED
    BY <2>1, ComposerAssumption DEF SendInv, Bounded, Captured, ComposerAssumption
<1>2. SendInv /\ IInv' /\ [Next]_allVars => SendInv'
  BY SendStep
<1>3. SendInv /\ [Next]_allVars
        => [ /\ \A m \in MessageIds : GoesOut(m) =>
                   /\ attachments' = {}
                   /\ messages'[m].input \ muddled = attachments \ muddled
             /\ attachments \subseteq attachments'
                  \/ (\E m \in MessageIds : GoesOut(m)) \/ \E f \in attachments : RemoveAttachment(f)
           ]_allVars
  <2> SUFFICES ASSUME SendInv, Next
               PROVE  /\ \A m \in MessageIds : GoesOut(m) =>
                            /\ attachments' = {}
                            /\ messages'[m].input \ muddled = attachments \ muddled
                      /\ Leaves \/ \E m \in MessageIds : GoesOut(m)
    BY DEF Leaves
  <2>1. Effect
    BY StepEffect DEF Next, SendInv
  <2>2. CASE UNCHANGED messages /\ Leaves
    BY <2>2 DEF GoesOut
  <2>3. CASE Writes("calling") /\ attachments' = {}
    BY <2>3 DEF Writes, GoesOut
  <2>4. CASE Writes("starting") /\ attachments' = attachments
    BY <2>4 DEF Writes, GoesOut, Leaves
  <2>5. ASSUME NEW m \in DOMAIN messages,
               Moves(m, "starting", "calling"), messages'[m].input = messages[m].input,
               attachments' = {}
        PROVE  /\ \A n \in MessageIds : GoesOut(n) =>
                     messages'[n].input \ muddled = attachments \ muddled
               /\ \E n \in MessageIds : GoesOut(n)
    <3>1. m \in MessageIds
      <4>1. PICK X : messages \in Seq(Messages(X))
        BY DEF SendInv, IInv, MessagesOK
      <4> QED
        BY <4>1, ComposerAssumption DEF SendInv, Bounded, MessageIds, ComposerAssumption
    <3>2. \A n \in MessageIds : GoesOut(n) => n = m
      BY <2>5 DEF Moves, GoesOut
    <3>3. GoesOut(m)
      BY <2>5 DEF Moves, GoesOut
    <3>4. messages[m].input \ muddled = attachments \ muddled
      BY <2>5 DEF Moves, SendInv, Captured
    <3> QED
      BY <2>5, <3>1, <3>2, <3>3, <3>4
  <2>6. ASSUME NEW m \in DOMAIN messages, NEW from \in Stages, NEW to \in Stages,
               Moves(m, from, to), to \in {"told", "dropped", "sent"}, attachments' = attachments
        PROVE  Leaves /\ \A n \in MessageIds : ~GoesOut(n)
    BY <2>6 DEF Moves, GoesOut, Leaves
  <2> QED
    BY <2>1, <2>2, <2>3, <2>4, <2>5, <2>6 DEF Effect
<1> QED
  BY <1>1, <1>2, <1>3, Inductive, PTL DEF Spec, SendsWhatIsShown

-----------------------------------------------------------------------------
(* Terminal: the text of its output.                                        *)

Characters == [of : Runs, at : 1..Length, whole : BOOLEAN]

\* The byte after the character c.
After(c) == c.at + (IF c.whole /\ c.at \in Wide THEN 2 ELSE 1)

\* The characters of s are those of the bytes after `from', up to `to'.
Chain(s, from, to) ==
    /\ s = <<>> => from = to
    /\ s # <<>> => s[1].at = from + 1 /\ After(s[Len(s)]) = to + 1
    /\ \A i \in 2..Len(s) : s[i].at = After(s[i - 1])

\* What is shown and what follows it without a gap have no gap together.
LEMMA ChainConcat ==
    ASSUME NEW s \in Seq(Characters), NEW t \in Seq(Characters),
           NEW from \in Nat, NEW mid \in Nat, NEW to \in Nat,
           Chain(s, from, mid), Chain(t, mid, to)
    PROVE  Chain(s \o t, from, to)
<1>1. CASE s = <<>>
  <2>1. s \o t = t
    BY <1>1
  <2>. QED BY <1>1, <2>1 DEF Chain
<1>2. CASE t = <<>>
  <2>1. s \o t = s
    BY <1>2
  <2>. QED BY <1>2, <2>1 DEF Chain
<1>3. CASE s # <<>> /\ t # <<>>
  <2>. DEFINE u == s \o t
  <2>1. /\ Len(s) \in Nat \ {0} /\ Len(t) \in Nat \ {0} /\ Len(u) = Len(s) + Len(t)
        /\ \A i \in 1..Len(s) : u[i] = s[i]
        /\ \A i \in 1..Len(t) : u[Len(s) + i] = t[i]
    BY <1>3
  <2>2. u # <<>> /\ u[1] = s[1] /\ u[Len(u)] = t[Len(t)]
    BY <2>1
  <2>3. ASSUME NEW i \in 2..Len(u)
        PROVE  u[i].at = After(u[i - 1])
    <3>1. CASE i <= Len(s)
      <4>1. i \in 2..Len(s) /\ u[i] = s[i] /\ u[i - 1] = s[i - 1]
        BY <2>1, <3>1
      <4>. QED BY <4>1 DEF Chain
    <3>2. CASE i = Len(s) + 1
      <4>1. u[i] = t[1] /\ u[i - 1] = s[Len(s)]
        BY <2>1, <3>2
      <4>. QED BY <4>1, <1>3 DEF Chain
    <3>3. CASE i > Len(s) + 1
      <4>. DEFINE j == i - Len(s)
      <4>1. j \in 2..Len(t) /\ i = Len(s) + j /\ i - 1 = Len(s) + (j - 1)
        BY <2>1, <3>3
      <4>2. u[i] = t[j] /\ u[i - 1] = t[j - 1]
        BY <2>1, <4>1
      <4>. QED BY <4>1, <4>2 DEF Chain
    <3>. QED BY <2>1, <3>1, <3>2, <3>3
  <2>. QED BY <1>3, <2>2, <2>3 DEF Chain
<1>. QED BY <1>1, <1>2, <1>3

\* A sequence without a gap has every byte in one of its characters.
LEMMA ChainCovers ==
    ASSUME NEW s \in Seq(Characters), NEW to \in Nat, Chain(s, 0, to), NEW b \in 1..to
    PROVE  \E i \in DOMAIN s : s[i].at = b \/ (s[i].at = b - 1 /\ b - 1 \in Wide)
<1>1. \A i \in DOMAIN s : s[i].at \in Nat /\ After(s[i]) \in Nat
  <2>1. \A i \in DOMAIN s : s[i] \in Characters
    OBVIOUS
  <2>. QED BY <2>1, TerminalAssumption DEF Characters, After
<1>2. s # <<>> /\ Len(s) \in Nat \ {0} /\ DOMAIN s = 1..Len(s)
  BY DEF Chain
<1>3. s[1].at = 1 /\ After(s[Len(s)]) = to + 1
  BY <1>2 DEF Chain
<1>. DEFINE T == {i \in 1..Len(s) : b < After(s[i])}
<1>4. T # {} /\ T \subseteq Nat
  BY <1>2, <1>3
<1>5. PICK i \in T : \A j \in T : i <= j
  <2>. HIDE DEF T
  <2>. QED BY <1>4, LeastNatural
<1>6. s[i].at <= b
  <2>1. CASE i = 1
    BY <1>3, <2>1
  <2>2. CASE i # 1
    <3>1. i \in 2..Len(s) /\ i - 1 \in 1..Len(s) /\ i - 1 \notin T
      BY <1>2, <1>5, <2>2
    <3>2. ~(b < After(s[i - 1])) /\ s[i].at = After(s[i - 1])
      BY <3>1 DEF Chain
    <3>. QED BY <1>1, <1>2, <3>1, <3>2
  <2>. QED BY <2>1, <2>2
<1>7. s[i].at = b \/ (s[i].at = b - 1 /\ b - 1 \in Wide)
  <2>1. i \in DOMAIN s /\ b < After(s[i])
    BY <1>2, <1>5
  <2>. QED BY <1>1, <1>6, <2>1 DEF After
<1>. QED BY <1>2, <1>5, <1>7

\* The bytes at which a character of a delta begins, in order.
LEMMA BeginsInOrder ==
    ASSUME NEW from \in 0..Length, NEW to \in 0..Length
    PROVE  LET k == Keep([b \in 1..Length |-> b], Begins(from, to))
           IN  /\ k \in Seq(Begins(from, to))
               /\ \A i, j \in DOMAIN k : i < j => k[i] < k[j]
               /\ \A b \in Begins(from, to) : \E i \in DOMAIN k : k[i] = b
<1>. DEFINE s == [b \in 1..Length |-> b]
            T == Begins(from, to)
            k == Keep(s, T)
<1>. USE TerminalAssumption
<1>1. s \in Seq(Nat) /\ DOMAIN s = 1..Length /\ T \subseteq 1..Length /\ \A b \in 1..Length : s[b] = b
  BY DEF Begins
<1>. HIDE DEF s, T
<1>2. k \in Seq(Nat \cap T)
  BY <1>1, KeepMembers
<1>3. PICK h \in [DOMAIN k -> DOMAIN s] :
              /\ \A i \in DOMAIN k : k[i] = s[h[i]]
              /\ \A i, j \in DOMAIN k : i < j => h[i] < h[j]
              /\ \A b \in DOMAIN s : s[b] \in T => \E i \in DOMAIN k : h[i] = b
  <2>. HIDE DEF k
  <2>1. \E h \in [DOMAIN Keep(s, T) -> DOMAIN s] :
              /\ \A i \in DOMAIN Keep(s, T) : Keep(s, T)[i] = s[h[i]]
              /\ \A i, j \in DOMAIN Keep(s, T) : i < j => h[i] < h[j]
              /\ \A b \in DOMAIN s : s[b] \in T => \E i \in DOMAIN Keep(s, T) : h[i] = b
    BY <1>1, KeepInOrder
  <2>. QED BY <2>1 DEF k
<1>. HIDE DEF k
<1>4. \A i \in DOMAIN k : k[i] = h[i] /\ k[i] \in T
  BY <1>1, <1>2, <1>3
<1>5. k \in Seq(T)
  BY <1>2, <1>1
<1>6. \A i, j \in DOMAIN k : i < j => k[i] < k[j]
  BY <1>3, <1>4
<1>7. \A b \in T : \E i \in DOMAIN k : k[i] = b
  BY <1>1, <1>3, <1>4
<1>. QED BY <1>5, <1>6, <1>7 DEF k, s, T

\* The text of a delta: its characters, those that are split replaced.
LEMMA DecodeChain ==
    ASSUME NEW r \in Runs, NEW from \in 0..Length, NEW to \in from..Length
    PROVE  /\ Decode(r, from, to) \in Seq(Characters)
           /\ \A i \in DOMAIN Decode(r, from, to) : Decode(r, from, to)[i].of = r
           /\ Chain(Decode(r, from, to), from, to)
           /\ from = to => Decode(r, from, to) = <<>>
<1>. DEFINE s == [b \in 1..Length |-> b]
            B == Begins(from, to)
            k == Keep(s, B)
            Character(b) == [of |-> r, at |-> b, whole |-> b - 1 \notin Wide /\ (b \in Wide => b < to)]
            t == Decode(r, from, to)
<1>1. to \in 0..Length /\ Length \in Nat
  BY TerminalAssumption
<1>2. /\ k \in Seq(B)
      /\ \A i, j \in DOMAIN k : i < j => k[i] < k[j]
      /\ \A b \in B : \E i \in DOMAIN k : k[i] = b
  BY <1>1, BeginsInOrder
<1>3. t = [i \in DOMAIN k |-> Character(k[i])]
  BY DEF Decode
<1>4. \A b \in B : b \in 1..Length /\ b \in Nat /\ from < b /\ b <= to
  BY <1>1 DEF Begins
<1>5. \A b \in (from + 1)..to : b \in B <=> (b - 1 \notin Wide \/ b - 1 = from)
  BY DEF Begins
<1>. HIDE DEF k, B, t
<1>. DEFINE c == Len(k)
<1>6. c \in Nat /\ DOMAIN k = 1..c /\ \A i \in 1..c : k[i] \in B
  BY <1>2
<1>. HIDE DEF c
<1>7. \A b \in 1..Length : Character(b) \in Characters /\ Character(b).of = r /\ Character(b).at = b
  BY DEF Characters
<1>8. \A b \in B : After(Character(b)) = IF b \in Wide /\ b - 1 \notin Wide /\ b < to THEN b + 2 ELSE b + 1
  BY <1>4 DEF After
<1>. HIDE DEF Character
<1>9. /\ t \in Seq(Characters) /\ Len(t) = c
      /\ \A i \in 1..c : t[i] = Character(k[i])
  BY <1>3, <1>4, <1>6, <1>7
<1>10. \A i \in DOMAIN t : t[i].of = r
  BY <1>4, <1>6, <1>7, <1>9
<1>11. \A b \in Wide : b + 1 \notin Wide /\ b \in Nat
  BY TerminalAssumption
<1>12. \A i, j \in 1..c : k[i] < k[j] => i < j
  <2>1. \A i, j \in 1..c : i < j => k[i] < k[j]
    BY <1>2, <1>6
  <2>2. \A i \in 1..c : k[i] \in Nat
    BY <1>1, <1>4, <1>6
  <2>. QED BY <1>6, <2>1, <2>2
<1>13. ASSUME NEW i \in 1..c, NEW b \in B, k[i] < b
       PROVE  /\ i + 1 \in 1..c
              /\ k[i + 1] <= b
  <2>1. PICK j \in 1..c : k[j] = b
    BY <1>2, <1>6
  <2>2. i < j
    BY <1>12, <1>13, <2>1
  <2>3. i + 1 \in 1..c /\ (i + 1 = j \/ i + 1 < j)
    BY <1>6, <2>2
  <2>4. i + 1 < j => k[i + 1] < k[j]
    BY <1>2, <1>6, <2>3
  <2>. QED BY <2>1, <2>3, <2>4, <1>4, <1>6
<1>14. ASSUME NEW i \in 2..c
       PROVE  k[i] = After(Character(k[i - 1]))
  <2>. DEFINE a == k[i - 1]
              d == k[i]
  <2>1. i \in 1..c /\ i - 1 \in 1..c /\ i - 1 < i /\ (i - 1) + 1 = i
    BY <1>6
  <2>2. a \in B /\ d \in B /\ a < d
    BY <1>2, <1>6, <2>1
  <2>3. /\ a \in Nat /\ d \in Nat /\ from < a /\ from < d /\ a <= to /\ d <= to
        /\ a + 1 \in (from + 1)..to /\ a + 1 # from
    BY <1>1, <1>4, <2>2
  <2>4. \A b \in B : a < b => d <= b
    BY <1>13, <2>1
  <2>. HIDE DEF a, d
  <2>5. CASE a \notin Wide
    <3>1. a + 1 \in B
      BY <1>5, <2>3, <2>5
    <3>2. d = a + 1
      BY <2>2, <2>3, <2>4, <3>1
    <3>3. After(Character(a)) = a + 1
      BY <1>8, <2>2, <2>5
    <3>. QED BY <3>2, <3>3 DEF a, d
  <2>6. CASE a \in Wide
    <3>1. a + 1 \notin B
      BY <1>5, <2>3, <2>6
    <3>2. d # a + 1 /\ a + 2 <= d
      BY <2>2, <2>3, <3>1
    <3>3. a + 2 \in (from + 1)..to /\ (a + 2) - 1 = a + 1
      BY <2>3, <3>2
    <3>4. a + 2 \in B
      BY <1>5, <1>11, <2>6, <3>3
    <3>5. d = a + 2
      BY <2>3, <2>4, <3>2, <3>4
    <3>6. a - 1 \notin Wide /\ a < to
      <4>1. a - 1 \in Wide => a \notin Wide
        BY <1>11, <2>3
      <4>. QED BY <2>2, <2>3, <2>6, <4>1
    <3>7. After(Character(a)) = a + 2
      BY <1>8, <2>2, <2>6, <3>6
    <3>. QED BY <3>5, <3>7 DEF a, d
  <2>. QED BY <2>5, <2>6
<1>15. ASSUME from < to
       PROVE  c # 0 /\ k[1] = from + 1 /\ After(Character(k[c])) = to + 1
  <2>1. from + 1 \in B
    BY <1>1, <1>5, <1>15
  <2>2. PICK j \in 1..c : k[j] = from + 1
    BY <1>2, <1>6, <2>1
  <2>3. 1 \in 1..c /\ c \in 1..c
    BY <1>6, <2>2
  <2>4. k[1] = from + 1
    <3>1. from + 1 <= k[1] /\ k[1] \in Nat
      BY <1>1, <1>4, <1>6, <2>3
    <3>2. j = 1 \/ 1 < j
      BY <1>6
    <3>3. 1 < j => k[1] < k[j]
      BY <1>2, <1>6, <2>3
    <3>. QED BY <2>2, <3>1, <3>2, <3>3
  <2>. DEFINE a == k[c]
  <2>5. a \in B /\ \A b \in B : ~(a < b)
    <3>1. ~(c + 1 \in 1..c)
      BY <1>6
    <3>. QED BY <1>6, <1>13, <2>3, <3>1
  <2>6. a \in Nat /\ from < a /\ a <= to
    BY <1>1, <1>4, <2>5
  <2>. HIDE DEF a
  <2>7. CASE a = to
    BY <1>8, <2>3, <2>4, <2>5, <2>6, <2>7 DEF a
  <2>8. CASE a < to
    <3>1. a + 1 \in (from + 1)..to /\ a + 1 # from /\ (a + 1) - 1 = a /\ a # from
      BY <1>1, <2>6, <2>8
    <3>2. a + 1 \notin B
      BY <2>5, <2>6
    <3>3. a \in Wide
      BY <1>5, <3>1, <3>2
    <3>4. a - 1 \notin Wide
      <4>1. a - 1 \in Wide => a \notin Wide
        BY <1>11, <2>6
      <4>. QED BY <3>3, <4>1
    <3>5. After(Character(a)) = a + 2
      BY <1>8, <2>5, <2>8, <3>3, <3>4
    <3>6. a + 1 = to
      <4>1. a + 2 \notin B
        BY <2>5, <2>6
      <4>2. a + 1 # to => a + 2 \in (from + 1)..to /\ (a + 2) - 1 = a + 1
        BY <1>1, <2>6, <2>8
      <4>. QED BY <1>5, <1>11, <3>3, <4>1, <4>2
    <3>7. a + 2 = to + 1
      BY <2>6, <3>6
    <3>. QED BY <2>3, <2>4, <3>5, <3>7 DEF a
  <2>. QED BY <1>1, <2>6, <2>7, <2>8
<1>16. t = <<>> <=> c = 0
  BY <1>6, <1>9
<1>17. from = to => c = 0
  <2>1. from = to => B = {}
    BY <1>1, <1>4
  <2>. QED BY <1>6, <2>1
<1>18. t = <<>> => from = to
  BY <1>1, <1>15, <1>16
<1>19. t # <<>> => t[1].at = from + 1 /\ After(t[Len(t)]) = to + 1
  <2>1. t # <<>> => from < to
    BY <1>1, <1>16, <1>17
  <2>2. c # 0 => 1 \in 1..c /\ c \in 1..c
    BY <1>6
  <2>3. c # 0 => t[1] = Character(k[1]) /\ t[c] = Character(k[c]) /\ k[1] \in 1..Length
    BY <1>4, <1>6, <1>9, <2>2
  <2>. QED BY <1>7, <1>9, <1>15, <1>16, <2>1, <2>3
<1>20. ASSUME NEW i \in 2..Len(t)
       PROVE  t[i].at = After(t[i - 1])
  <2>1. i \in 2..c /\ i \in 1..c /\ i - 1 \in 1..c
    BY <1>6, <1>9
  <2>2. t[i] = Character(k[i]) /\ t[i - 1] = Character(k[i - 1]) /\ k[i] \in 1..Length
    BY <1>4, <1>6, <1>9, <2>1
  <2>. QED BY <1>7, <1>14, <2>1, <2>2
<1>21. Chain(t, from, to)
  BY <1>18, <1>19, <1>20 DEF Chain
<1>. QED BY <1>9, <1>10, <1>16, <1>17, <1>21 DEF t

-----------------------------------------------------------------------------
(* What is on its way of a command.                                         *)

Wires == [is : {"delta", "exit", "error"}, of : Runs, from : 0..Length, to : 0..Length]
Processes == [on : Nat, pty : BOOLEAN, state : {"none", "live", "doomed", "gone"},
              written : 0..Length, atExit : 0..Length]

IsDelta(m, r) == m.is = "delta" /\ m.of = r

\* g says how far the output of command r, with the process p, is when each
\* message of q has arrived: after n bytes to begin with, after all of them at
\* the end, and after what was written by the exit at the answer.
Trail(g, q, r, n, p) ==
    /\ g \in [0..Len(q) -> 0..Length]
    /\ g[0] = n /\ g[Len(q)] = p.written
    /\ \A j \in 1..Len(q) :
          /\ IsDelta(q[j], r) => q[j].from = g[j - 1] /\ q[j].to = g[j] /\ g[j - 1] <= g[j]
          /\ ~IsDelta(q[j], r) => g[j] = g[j - 1]
          /\ q[j].of = r /\ q[j].is # "delta" => g[j] = p.atExit

Pending(q, r, n, p) == \E g : Trail(g, q, r, n, p)

\* A command of which nothing is on its way has its output shown so far.
LEMMA PendingNone ==
    ASSUME NEW q \in Seq(Wires), NEW r \in Runs, NEW p \in Processes,
           \A j \in 1..Len(q) : q[j].of # r
    PROVE  Pending(q, r, p.written, p)
<1>. DEFINE g == [j \in 0..Len(q) |-> p.written]
<1>1. p.written \in 0..Length /\ Len(q) \in Nat
  BY DEF Processes
<1>2. g \in [0..Len(q) -> 0..Length] /\ \A j \in 0..Len(q) : g[j] = p.written
  BY <1>1
<1>. HIDE DEF g
<1>3. \A j \in 1..Len(q) : j \in 0..Len(q) /\ j - 1 \in 0..Len(q)
  BY <1>1
<1>4. 0 \in 0..Len(q) /\ Len(q) \in 0..Len(q)
  BY <1>1
<1>5. \A j \in 1..Len(q) : ~IsDelta(q[j], r)
  BY DEF IsDelta
<1>6. Trail(g, q, r, p.written, p)
  BY <1>2, <1>3, <1>4, <1>5 DEF Trail
<1>. QED BY <1>6 DEF Pending

\* The host appends a message: the trail goes on to what has been written by
\* then, which is more only after a delta of the command.
LEMMA PendingAppend ==
    ASSUME NEW q \in Seq(Wires), NEW m \in Wires, NEW r \in Runs, NEW n \in 0..Length,
           NEW p \in Processes, NEW w \in Processes,
           Pending(q, r, n, p),
           IF IsDelta(m, r) THEN m.from = p.written /\ m.to = w.written /\ p.written <= w.written
                            ELSE w.written = p.written,
           m.of = r /\ m.is # "delta" => w.atExit = w.written,
           w.atExit = p.atExit \/ \A j \in 1..Len(q) : ~(q[j].of = r /\ q[j].is # "delta")
    PROVE  Pending(Append(q, m), r, n, w)
<1>. DEFINE a == Append(q, m)
            c == Len(q)
<1>1. PICK g : Trail(g, q, r, n, p)
  BY DEF Pending
<1>2. c \in Nat /\ Len(a) = c + 1 /\ a[c + 1] = m /\ (\A j \in 1..c : a[j] = q[j]) /\ w.written \in 0..Length
  BY DEF Processes
<1>3. g \in [0..c -> 0..Length] /\ g[0] = n /\ g[c] = p.written
  BY <1>1 DEF Trail
<1>. HIDE DEF a
<1>4. \A j \in 1..c :
          /\ IsDelta(q[j], r) => q[j].from = g[j - 1] /\ q[j].to = g[j] /\ g[j - 1] <= g[j]
          /\ ~IsDelta(q[j], r) => g[j] = g[j - 1]
          /\ q[j].of = r /\ q[j].is # "delta" => g[j] = p.atExit
  BY <1>1 DEF Trail
<1>. HIDE DEF c
<1>. DEFINE f == [j \in 0..(c + 1) |-> IF j = c + 1 THEN w.written ELSE g[j]]
<1>5. /\ f \in [0..(c + 1) -> 0..Length] /\ f[c + 1] = w.written /\ f[0] = n /\ f[c] = p.written
      /\ \A j \in 1..c : f[j] = g[j] /\ f[j - 1] = g[j - 1]
  BY <1>2, <1>3
<1>. HIDE DEF f
<1>6. ASSUME NEW j \in 1..Len(a)
      PROVE  /\ IsDelta(a[j], r) => a[j].from = f[j - 1] /\ a[j].to = f[j] /\ f[j - 1] <= f[j]
             /\ ~IsDelta(a[j], r) => f[j] = f[j - 1]
             /\ a[j].of = r /\ a[j].is # "delta" => f[j] = w.atExit
  <2>1. CASE j \in 1..c
    <3>1. a[j] = q[j] /\ f[j] = g[j] /\ f[j - 1] = g[j - 1]
      BY <1>2, <1>5, <2>1
    <3>2. q[j].of = r /\ q[j].is # "delta" => w.atExit = p.atExit
      BY <2>1 DEF c
    <3>. QED BY <1>4, <2>1, <3>1, <3>2
  <2>2. CASE j = c + 1
    <3>1. a[j] = m /\ f[j] = w.written /\ f[j - 1] = p.written
      BY <1>2, <1>5, <2>2
    <3>. QED BY <3>1
  <2>. QED BY <1>2, <2>1, <2>2
<1>7. Trail(f, a, r, n, w)
  BY <1>2, <1>5, <1>6 DEF Trail
<1>. QED BY <1>7 DEF Pending, a

\* The next message that arrives: a delta of the command goes on where the
\* output shown ends, and its answer comes when what it had written by its
\* exit is shown.
LEMMA PendingTail ==
    ASSUME NEW q \in Seq(Wires), q # <<>>, NEW r \in Runs, NEW n \in 0..Length, NEW p \in Processes,
           Pending(q, r, n, p)
    PROVE  /\ IsDelta(Head(q), r) => /\ Head(q).from = n /\ n <= Head(q).to
                                     /\ Pending(Tail(q), r, Head(q).to, p)
           /\ ~IsDelta(Head(q), r) => Pending(Tail(q), r, n, p)
           /\ Head(q).of = r /\ Head(q).is # "delta" => n = p.atExit
<1>. DEFINE t == Tail(q)
            c == Len(q)
<1>1. PICK g : Trail(g, q, r, n, p)
  BY DEF Pending
<1>2. /\ c \in Nat \ {0} /\ Len(t) = c - 1 /\ Head(q) = q[1] /\ \A j \in 1..(c - 1) : t[j] = q[j + 1]
      /\ 1 \in 1..c /\ 1 - 1 = 0
  BY DEF t
<1>3. g \in [0..c -> 0..Length] /\ g[0] = n /\ g[c] = p.written
  BY <1>1 DEF Trail
<1>4. \A j \in 1..c :
          /\ IsDelta(q[j], r) => q[j].from = g[j - 1] /\ q[j].to = g[j] /\ g[j - 1] <= g[j]
          /\ ~IsDelta(q[j], r) => g[j] = g[j - 1]
          /\ q[j].of = r /\ q[j].is # "delta" => g[j] = p.atExit
  BY <1>1 DEF Trail
<1>. HIDE DEF t, c
<1>5. /\ IsDelta(q[1], r) => q[1].from = n /\ q[1].to = g[1] /\ n <= g[1]
      /\ ~IsDelta(q[1], r) => g[1] = n
      /\ q[1].of = r /\ q[1].is # "delta" => g[1] = p.atExit
  BY <1>2, <1>3, <1>4
<1>6. q[1].of = r /\ q[1].is # "delta" => ~IsDelta(q[1], r)
  BY DEF IsDelta
<1>. DEFINE f == [j \in 0..(c - 1) |-> g[j + 1]]
<1>7. /\ f \in [0..(c - 1) -> 0..Length] /\ f[0] = g[1] /\ f[c - 1] = g[c]
      /\ \A j \in 1..(c - 1) : f[j] = g[j + 1] /\ f[j - 1] = g[(j + 1) - 1] /\ j + 1 \in 1..c
  BY <1>2, <1>3
<1>. HIDE DEF f
<1>8. ASSUME NEW j \in 1..Len(t)
      PROVE  /\ IsDelta(t[j], r) => t[j].from = f[j - 1] /\ t[j].to = f[j] /\ f[j - 1] <= f[j]
             /\ ~IsDelta(t[j], r) => f[j] = f[j - 1]
             /\ t[j].of = r /\ t[j].is # "delta" => f[j] = p.atExit
  <2>1. t[j] = q[j + 1] /\ f[j] = g[j + 1] /\ f[j - 1] = g[(j + 1) - 1] /\ j + 1 \in 1..c
    BY <1>2, <1>7
  <2>. QED BY <1>4, <2>1
<1>9. Trail(f, t, r, g[1], p)
  BY <1>2, <1>3, <1>7, <1>8 DEF Trail
<1>10. Pending(t, r, g[1], p)
  BY <1>9 DEF Pending
<1>. QED BY <1>2, <1>5, <1>6, <1>10 DEF t

\* What the trail does not look at may change.
LEMMA PendingOf ==
    ASSUME NEW q, NEW r, NEW n, NEW p, NEW w, Pending(q, r, n, p),
           w.written = p.written, w.atExit = p.atExit
    PROVE  Pending(q, r, n, w)
BY DEF Pending, Trail

-----------------------------------------------------------------------------
(* The invariant of the terminal.                                           *)

\* Types; the bounds of the numbers follow below.
TypedT ==
    /\ link \in Nat /\ socket \in SocketStates /\ ready \in BOOLEAN
    /\ run \in 0..MaxRuns /\ running \in Nat /\ replaced \in BOOLEAN
    /\ exitCode \in Nat /\ error \in Nat
    /\ output \in Seq(Characters)
    /\ calls \subseteq made /\ made \subseteq Calls
    /\ processes \in [Runs -> Processes]
    /\ wire \in Seq(Wires)

\* A process is on a socket there has been; the host has it only once the
\* socket is established.
LinkOK ==
    /\ socket # "none" => link # 0
    /\ ready => socket \in {"established", "closing"}
    /\ socket \in {"connecting", "initializing"} => \A r \in Runs : processes[r].on # link
    /\ \A r \in Runs : processes[r].on <= link

\* What a process sends can still arrive.
Alive(r) == processes[r].on = link /\ socket \in {"established", "closing"}

\* What a message on its way to the page is about.
MessageOK(m) ==
    /\ m.of <= run /\ Alive(m.of)
    /\ m.is = "delta" => processes[m.of].pty
    /\ m.is # "delta" =>
          /\ processes[m.of].state = "gone"
          /\ m.to = IF processes[m.of].pty THEN 0 ELSE processes[m.of].atExit

\* Nothing of the commands to come has happened.
HostOK ==
    /\ \A c \in made : c[1] <= run
    /\ \A r \in Runs : r > run => processes[r] = NoProcess
    /\ \A j \in 1..Len(wire) : MessageOK(wire[j])

\* The output shown is all of the first n bytes.
ShownUpTo(n) ==
    /\ Chain(output, 0, n)
    /\ run # 0 /\ processes[run].pty /\ Alive(run) => Pending(wire, run, n, processes[run])
    /\ exitCode # 0 => processes[run].atExit <= n
    /\ run # 0 /\ ~processes[run].pty /\ exitCode = 0 => output = <<>>
    /\ run = 0 => output = <<>>

\* It is the output of the command shown.
OutputOK ==
    /\ \A i \in 1..Len(output) : output[i].of = run
    /\ \E n \in 0..Length : ShownUpTo(n)

\* How the command shown has ended, and whose error is shown.
VerdictOK ==
    /\ run # 0 /\ running = 0 => exitCode # 0 \/ error # 0
    /\ exitCode # 0 => exitCode = run /\ running = 0 /\ processes[run].state = "gone"
    /\ error \notin {0, run} => \E c \in made \ calls : c[1] = error

\* The answer to command/exec of a command is on its way.
Answer(r) == \E j \in 1..Len(wire) : wire[j].is # "delta" /\ wire[j].of = r

\* The command shown as running runs, or its answer is on its way.
RunningOK ==
    running # 0 =>
        /\ run # 0
        /\ \/ replaced
           \/ /\ running = link /\ socket # "none"
              /\ processes[run].state \in {"live", "doomed"} \/ Answer(run)

TerminalInv == TypedT /\ LinkOK /\ HostOK /\ OutputOK /\ VerdictOK /\ RunningOK

\* It holds of the page as it is loaded.
LEMMA TerminalInvInit == TerminalInit => TerminalInv
<1>. SUFFICES ASSUME TerminalInit PROVE TerminalInv
  OBVIOUS
<1>. USE TerminalAssumption DEF TerminalInit, LinkInit
<1>1. TypedT
  <2>1. NoProcess \in Processes
    BY DEF NoProcess, Processes
  <2>2. processes \in [Runs -> Processes]
    BY <2>1
  <2>3. link \in Nat /\ socket \in SocketStates /\ ready \in BOOLEAN /\ replaced \in BOOLEAN
    BY DEF SocketStates
  <2>4. run \in 0..MaxRuns /\ running \in Nat /\ exitCode \in Nat /\ error \in Nat
    OBVIOUS
  <2>5. output \in Seq(Characters) /\ wire \in Seq(Wires)
    OBVIOUS
  <2>6. calls \subseteq made /\ made \subseteq Calls
    OBVIOUS
  <2>. QED BY <2>2, <2>3, <2>4, <2>5, <2>6 DEF TypedT
<1>2. LinkOK
  BY DEF LinkOK, NoProcess
<1>3. HostOK
  BY DEF HostOK, NoProcess
<1>4. OutputOK
  <2>1. Chain(<<>>, 0, 0)
    BY DEF Chain
  <2>2. ShownUpTo(0)
    BY <2>1 DEF ShownUpTo
  <2>. QED BY <2>2 DEF OutputOK
<1>5. VerdictOK
  BY DEF VerdictOK
<1>6. RunningOK
  BY DEF RunningOK
<1>. QED BY <1>1, <1>2, <1>3, <1>4, <1>5, <1>6 DEF TerminalInv

-----------------------------------------------------------------------------
(* Connections.                                                             *)

\* The output shown stays what it is when the command shown, its exit code and
\* what it has written by its exit do, and either its connection is over or
\* nothing is missing on its way.
LEMMA OutputStays ==
    ASSUME VerdictOK, OutputOK, UNCHANGED <<run, output, exitCode>>,
           run # 0 => /\ processes'[run].pty = processes[run].pty
                      /\ exitCode # 0 => processes'[run].atExit = processes[run].atExit,
           \A n \in 0..Length :
              /\ run # 0 /\ processes[run].pty /\ Alive(run)'
              /\ Alive(run) => Pending(wire, run, n, processes[run])
              => Pending(wire', run, n, processes'[run])
    PROVE  OutputOK'
<1>1. PICK n \in 0..Length : ShownUpTo(n)
  BY DEF OutputOK
<1>2. exitCode # 0 => run # 0
  BY DEF VerdictOK
<1>3. Chain(output, 0, n)
  BY <1>1 DEF ShownUpTo
<1>4. run # 0 /\ processes[run].pty /\ Alive(run)' => Pending(wire', run, n, processes'[run])
  BY <1>1 DEF ShownUpTo
<1>5. exitCode # 0 => processes'[run].atExit <= n
  BY <1>1, <1>2 DEF ShownUpTo
<1>6. /\ run # 0 /\ ~processes'[run].pty /\ exitCode = 0 => output = <<>>
      /\ run = 0 => output = <<>>
  BY <1>1 DEF ShownUpTo
<1>7. ShownUpTo(n)'
  <2>1. run' = run /\ output' = output /\ exitCode' = exitCode
    OBVIOUS
  <2>. QED BY <1>3, <1>4, <1>5, <1>6, <2>1 DEF ShownUpTo
<1>8. \A i \in 1..Len(output') : output'[i].of = run'
  BY DEF OutputOK
<1>. QED BY <1>7, <1>8 DEF OutputOK

\* Math.max, of some of the naturals up to n.
LEMMA MaxIsMember ==
    ASSUME NEW n \in Nat, NEW T, T \subseteq 0..n, T # {}
    PROVE  Max(T) \in T
<1>. DEFINE D == {d \in 0..n : n - d \in T}
<1>1. D # {}
  <2>1. PICK t \in T : TRUE
    OBVIOUS
  <2>2. n - t \in 0..n /\ n - (n - t) = t
    OBVIOUS
  <2>3. n - t \in D
    BY <2>1, <2>2
  <2>. QED BY <2>3
<1>2. D \subseteq Nat
  OBVIOUS
<1>3. PICK d \in D : \A e \in D : d <= e
  <2>. HIDE DEF D
  <2>. QED BY <1>1, <1>2, LeastNatural
<1>4. \A y \in T : n - d >= y
  <2>1. ASSUME NEW y \in T PROVE n - d >= y
    <3>1. n - y \in 0..n /\ n - (n - y) = y /\ y \in 0..n
      OBVIOUS
    <3>2. n - y \in D
      BY <3>1
    <3>3. d <= n - y
      BY <1>3, <3>2
    <3>. QED BY <1>3, <3>1, <3>3
  <2>. QED BY <2>1
<1>5. \E x \in T : \A y \in T : x >= y
  BY <1>3, <1>4
<1>. QED BY <1>5 DEF Max

\* The processes that a new connection, or none, leaves.
LEMMA NewConnectionInv ==
    ASSUME TerminalInv, NewConnection, link' \in Nat, ready' \in BOOLEAN, link <= link',
           \/ socket' = "connecting" /\ link' = link + 1 /\ ready' = FALSE
           \/ socket' = "none" /\ ready' = FALSE
    PROVE  LinkOK' /\ HostOK' /\ OutputOK' /\ processes' \in [Runs -> Processes]
<1>. USE DEF TerminalInv, NewConnection
<1>1. /\ link \in Nat /\ processes \in [Runs -> Processes] /\ run \in 0..MaxRuns /\ MaxRuns \in Nat
      /\ \A r \in Runs : processes[r].on \in Nat /\ processes[r].on <= link
  BY TerminalAssumption DEF TypedT, LinkOK, Processes
<1>2. ASSUME NEW r \in Runs
      PROVE  /\ processes'[r].pty = processes[r].pty
             /\ processes[r].state = "gone" => processes'[r] = processes[r]
             /\ processes'[r].on = 0 \/ processes'[r].on = processes[r].on
             /\ processes'[r] \in Processes
             /\ processes[r] = NoProcess => processes'[r] = NoProcess
  <2>1. CASE processes[r].state = "gone"
    <3>1. processes'[r] = processes[r]
      BY <2>1
    <3>. QED BY <1>1, <2>1, <3>1
  <2>2. CASE processes[r].state # "gone"
    <3>1. processes'[r] = [NoProcess EXCEPT !.pty = processes[r].pty]
      BY <2>2
    <3>2. processes[r].pty \in BOOLEAN
      BY <1>1 DEF Processes
    <3>. QED BY <2>2, <3>1, <3>2, TerminalAssumption DEF NoProcess, Processes
  <2>. QED BY <2>1, <2>2
<1>3. processes' \in [Runs -> Processes]
  <2>1. processes' = [r \in Runs |-> processes'[r]]
    OBVIOUS
  <2>. QED BY <1>2, <2>1
<1>4. \A r \in Runs : processes'[r].on <= link' /\ (socket' = "connecting" => processes'[r].on # link')
  BY <1>1, <1>2
<1>5. LinkOK'
  BY <1>1, <1>4 DEF LinkOK
<1>6. \A r \in Runs : ~Alive(r)'
  BY DEF Alive
<1>7. HostOK'
  <2>1. \A c \in made' : c[1] <= run'
    BY DEF HostOK
  <2>2. \A r \in Runs : r > run' => processes'[r] = NoProcess
    BY <1>2 DEF HostOK
  <2>3. Len(wire') = 0
    OBVIOUS
  <2>. QED BY <2>1, <2>2, <2>3 DEF HostOK
<1>8. OutputOK'
  <2>1. run # 0 => run \in Runs
    BY <1>1 DEF Runs
  <2>2. VerdictOK /\ OutputOK /\ UNCHANGED <<run, output, exitCode>>
    OBVIOUS
  <2>3. exitCode # 0 => run # 0 /\ processes[run].state = "gone"
    BY DEF VerdictOK
  <2>4. run # 0 => /\ processes'[run].pty = processes[run].pty
                   /\ exitCode # 0 => processes'[run].atExit = processes[run].atExit
    BY <1>2, <2>1, <2>3
  <2>5. run # 0 => ~Alive(run)'
    BY <1>6, <2>1, <2>2
  <2>. QED BY <2>2, <2>4, <2>5, OutputStays
<1>. QED BY <1>3, <1>5, <1>7, <1>8

\* connect(): the calls of a socket it replaces are not rejected.
LEMMA TerminalConnect ==
    ASSUME TerminalInv, Connect
    PROVE  TerminalInv'
<1>. USE DEF TerminalInv, Connect, Dial
<1>1. link \in Nat
  BY DEF TypedT
<1>2. ready' = FALSE
  BY DEF LinkOK, TypedT
<1>3. socket' = "connecting" /\ link' = link + 1
  OBVIOUS
<1>4. link' \in Nat /\ link <= link'
  BY <1>1, <1>3
<1>5. ready' \in BOOLEAN /\ replaced' \in BOOLEAN
  <2>1. replaced \in BOOLEAN
    BY DEF TypedT
  <2>. QED BY <1>2, <2>1
<1>6. LinkOK' /\ HostOK' /\ OutputOK' /\ processes' \in [Runs -> Processes]
  BY <1>2, <1>3, <1>4, <1>5, NewConnectionInv
<1>7. TypedT'
  <2>1. UNCHANGED <<run, running, output, exitCode, error, calls, made>> /\ wire' = <<>>
    BY DEF NewConnection
  <2>2. wire' \in Seq(Wires)
    BY <2>1
  <2>. QED BY <1>3, <1>4, <1>5, <1>6, <2>1, <2>2 DEF TypedT, SocketStates
<1>8. VerdictOK'
  <2>1. exitCode # 0 => run \in Runs /\ processes[run].state = "gone"
    BY TerminalAssumption DEF VerdictOK, TypedT, Runs
  <2>2. exitCode # 0 => processes'[run] = processes[run]
    BY <2>1 DEF NewConnection
  <2>. QED BY <2>2 DEF VerdictOK, NewConnection
<1>9. RunningOK'
  <2>1. running' = running /\ run' = run
    BY DEF NewConnection
  <2>2. running # 0 => run # 0 /\ replaced'
    BY DEF RunningOK
  <2>. QED BY <2>1, <2>2 DEF RunningOK
<1>. QED BY <1>6, <1>7, <1>8, <1>9

\* The connection is lost, or replaced by reconnectNow(): its calls are rejected.
LEMMA TerminalLost ==
    ASSUME TerminalInv, Lost
    PROVE  TerminalInv'
<1>. USE DEF TerminalInv, Lost
<1>1. /\ link \in Nat /\ run \in 0..MaxRuns /\ MaxRuns \in Nat /\ running \in Nat
      /\ error \in Nat /\ calls \subseteq made /\ made \subseteq (1..MaxRuns) \X {"write", "terminate"}
  BY TerminalAssumption DEF TypedT
<1>2. NewConnection
  OBVIOUS
<1>3. /\ \/ socket' = "connecting" /\ link' = link + 1 /\ ready' = FALSE
         \/ socket' = "none" /\ ready' = FALSE
      /\ ready' \in BOOLEAN /\ socket' \in SocketStates
  BY DEF Reconnect, Drops, SocketStates
<1>4. link' \in Nat /\ link <= link'
  BY <1>1 DEF Reconnect, Drops
<1>5. running' = 0 /\ calls' = {}
  BY DEF RejectPending
<1>6. LinkOK' /\ HostOK' /\ OutputOK' /\ processes' \in [Runs -> Processes]
  BY <1>2, <1>3, <1>4, NewConnectionInv
<1>. DEFINE Rejected == {r \in Runs : r = run /\ running # 0} \cup {c[1] : c \in calls}
<1>7. error' = IF Rejected = {} THEN error ELSE Max(Rejected)
  BY DEF RejectPending
<1>8. /\ Rejected \subseteq 0..MaxRuns /\ 0 \notin Rejected
      /\ \A r \in Rejected : r = run \/ \E c \in made : c[1] = r
      /\ running # 0 /\ run # 0 => run \in Rejected
  BY <1>1 DEF Runs
<1>. HIDE DEF Rejected
<1>9. Rejected # {} => error' \in Rejected
  BY <1>1, <1>7, <1>8, MaxIsMember
<1>10. Rejected = {} => error' = error
  BY <1>7
<1>11. TypedT'
  <2>1. error' \in Nat
    <3>1. CASE Rejected = {}
      BY <1>1, <1>10, <3>1
    <3>2. CASE Rejected # {}
      <4>1. error' \in 0..MaxRuns
        BY <1>8, <1>9, <3>2
      <4>. QED BY <1>1, <4>1
    <3>. QED BY <3>1, <3>2
  <2>2. UNCHANGED <<run, output, exitCode, made, replaced>> /\ wire' = <<>>
    BY DEF NewConnection
  <2>3. wire' \in Seq(Wires) /\ running' \in Nat
    BY <1>5, <2>2
  <2>. QED BY <1>3, <1>4, <1>5, <1>6, <2>1, <2>2, <2>3 DEF TypedT
<1>12. VerdictOK'
  <2>1. exitCode # 0 => run \in Runs /\ processes[run].state = "gone"
    BY TerminalAssumption DEF VerdictOK, TypedT, Runs
  <2>2. exitCode # 0 => processes'[run] = processes[run]
    BY <2>1 DEF NewConnection
  <2>3. UNCHANGED <<run, exitCode, made>>
    BY DEF NewConnection
  <2>4. run # 0 => exitCode # 0 \/ error' # 0
    BY <1>8, <1>9, <1>10 DEF VerdictOK
  <2>5. exitCode # 0 => exitCode = run /\ processes[run].state = "gone"
    BY DEF VerdictOK
  <2>6. error' \notin {0, run} => \E c \in made : c[1] = error'
    BY <1>8, <1>9, <1>10 DEF VerdictOK
  <2>. QED BY <1>5, <2>2, <2>3, <2>4, <2>5, <2>6 DEF VerdictOK
<1>13. RunningOK'
  BY <1>5 DEF RunningOK
<1>. QED BY <1>6, <1>11, <1>12, <1>13

\* The other events of the socket.
LEMMA TerminalOtherEvent ==
    ASSUME TerminalInv, OtherEvent
    PROVE  TerminalInv'
<1>. USE DEF TerminalInv, OtherEvent, shellVars, callVars, hostVars
<1>1. run \in 0..MaxRuns /\ MaxRuns \in Nat /\ socket \in SocketStates /\ ready \in BOOLEAN
  BY TerminalAssumption DEF TypedT
<1>2. /\ UNCHANGED link
      /\ socket \in SocketStates /\ socket' \in SocketStates
      /\ socket' # "none" <=> socket # "none"
      /\ socket \in {"established", "closing"} => socket' \in {"established", "closing"}
      /\ socket' \in {"connecting", "initializing"} => socket \in {"connecting", "initializing"}
      /\ socket' \in {"established", "closing"} => socket \in {"established", "closing", "initializing"}
  BY <1>1 DEF Opens, BecomesReady, Closes, GoesOffline, IsOpen, SocketStates
<1>3. ready' \in BOOLEAN /\ (ready' => socket' \in {"established", "closing"})
  <2>1. ready => socket \in {"established", "closing"}
    BY DEF LinkOK
  <2>2. CASE UNCHANGED ready
    BY <1>1, <1>2, <2>1, <2>2
  <2>3. CASE BecomesReady
    BY <2>3 DEF BecomesReady
  <2>4. CASE GoesOffline
    BY <2>4 DEF GoesOffline
  <2>. QED BY <2>2, <2>3, <2>4 DEF Opens, Closes
<1>4. UNCHANGED <<run, running, output, exitCode, error, calls, made, processes, wire, replaced>>
  OBVIOUS
<1>5. TypedT'
  BY <1>2, <1>3, <1>4 DEF TypedT
<1>6. LinkOK'
  BY <1>2, <1>3, <1>4 DEF LinkOK
<1>7. \A r \in Runs : Alive(r)' <=> Alive(r)
  BY <1>2, <1>4 DEF Alive, LinkOK
<1>8. HostOK'
  <2>1. ASSUME NEW j \in 1..Len(wire)
        PROVE  MessageOK(wire[j])'
    <3>1. MessageOK(wire[j])
      BY DEF HostOK
    <3>2. wire[j] \in Wires
      BY DEF TypedT
    <3>3. wire[j].of \in Runs
      BY <3>2 DEF Wires
    <3>. QED BY <1>4, <1>7, <3>1, <3>3 DEF MessageOK
  <2>. QED BY <1>4, <2>1 DEF HostOK
<1>9. OutputOK'
  <2>1. run # 0 => run \in Runs
    BY <1>1 DEF Runs
  <2>2. run # 0 => (Alive(run)' <=> Alive(run))
    BY <1>7, <2>1
  <2>. QED BY <1>4, <2>2, OutputStays
<1>10. VerdictOK'
  BY <1>4 DEF VerdictOK
<1>11. RunningOK'
  BY <1>2, <1>4 DEF RunningOK, Answer
<1>. QED BY <1>5, <1>6, <1>8, <1>9, <1>10, <1>11

-----------------------------------------------------------------------------
(* The user.                                                                *)

\* runTerminal starts a command, of which nothing can be on its way.
LEMMA TerminalRunTerminal ==
    ASSUME TerminalInv, NEW pty \in BOOLEAN, RunTerminal(pty)
    PROVE  TerminalInv'
<1>. USE DEF TerminalInv, RunTerminal, linkVars, callVars
<1>. DEFINE r == run + 1
<1>1. /\ run \in 0..MaxRuns /\ MaxRuns \in Nat /\ link \in Nat /\ processes \in [Runs -> Processes]
      /\ \A j \in 1..Len(wire) : wire[j] \in Wires /\ wire[j].of \in Runs
  <2>1. \A j \in 1..Len(wire) : wire[j] \in Wires
    BY DEF TypedT
  <2>. QED BY <2>1, TerminalAssumption DEF TypedT, Wires
<1>2. socket \in {"established", "closing"} /\ link # 0
  BY DEF LinkOK
<1>3. r \in Runs /\ r \in 0..MaxRuns /\ r # 0 /\ run' = r /\ r > run
  BY <1>1 DEF Runs
<1>4. /\ UNCHANGED <<link, socket, ready, calls, made, wire, replaced>>
      /\ output' = <<>> /\ exitCode' = 0 /\ running = 0
  OBVIOUS
<1>. DEFINE w == [NoProcess EXCEPT !.on = link, !.pty = pty, !.state = "live"]
<1>5. /\ w \in Processes /\ w.on = link /\ w.written = 0 /\ w.state = "live"
      /\ NoProcess \in Processes /\ NoProcess.on = 0 /\ NoProcess.pty = FALSE
  <2>1. NoProcess \in Processes
    BY TerminalAssumption DEF NoProcess, Processes
  <2>2. w \in Processes /\ w.on = link /\ w.written = NoProcess.written /\ w.state = "live"
    BY <1>1, <2>1 DEF Processes
  <2>. QED BY <2>1, <2>2 DEF NoProcess
<1>6. /\ processes' \in [Runs -> Processes]
      /\ \A s \in Runs : s # r => processes'[s] = processes[s]
      /\ IsOpen => processes'[r] = w
      /\ ~IsOpen => processes'[r] = NoProcess
  <2>. HIDE DEF w
  <2>1. processes[r] = NoProcess
    BY <1>3 DEF HostOK
  <2>2. CASE IsOpen
    <3>1. processes' = [processes EXCEPT ![r] = w]
      BY <1>3, <2>2 DEF w
    <3>. QED BY <1>1, <1>3, <1>5, <2>2, <3>1
  <2>3. CASE ~IsOpen
    BY <1>1, <2>1, <2>3
  <2>. QED BY <2>2, <2>3
<1>. HIDE DEF w
<1>7. /\ IsOpen => running' = link /\ error' = 0
      /\ ~IsOpen => running' = 0 /\ error' = r
  BY <1>3, <1>4
<1>. HIDE DEF r
<1>8. TypedT'
  <2>1. running' \in Nat /\ error' \in Nat /\ exitCode' \in Nat
    BY <1>1, <1>3, <1>4, <1>7
  <2>2. output' \in Seq(Characters)
    BY <1>4
  <2>. QED BY <1>3, <1>4, <1>6, <2>1, <2>2 DEF TypedT
<1>9. LinkOK'
  <2>1. ASSUME NEW s \in Runs
        PROVE  processes'[s].on <= link
    <3>1. CASE s = r
      BY <1>1, <1>5, <1>6, <3>1
    <3>2. CASE s # r
      BY <1>6, <3>2 DEF LinkOK
    <3>. QED BY <3>1, <3>2
  <2>. QED BY <1>2, <1>4, <2>1 DEF LinkOK
<1>10. HostOK'
  <2>1. \A c \in made : c[1] <= r
    <3>1. \A c \in made : c[1] \in 1..MaxRuns /\ c[1] <= run
      BY TerminalAssumption DEF HostOK, TypedT
    <3>. QED BY <1>1, <3>1 DEF r
  <2>2. \A s \in Runs : s > r => processes'[s] = NoProcess
    <3>1. \A s \in Runs : s > r => s > run /\ s # r
      BY <1>1 DEF r, Runs
    <3>. QED BY <1>6, <3>1 DEF HostOK
  <2>3. ASSUME NEW j \in 1..Len(wire)
        PROVE  MessageOK(wire[j])'
    <3>1. MessageOK(wire[j]) /\ wire[j].of \in Runs
      BY <1>1 DEF HostOK
    <3>2. wire[j].of <= run /\ wire[j].of # r /\ wire[j].of <= r
      BY <1>1, <3>1 DEF MessageOK, r, Runs
    <3>3. processes'[wire[j].of] = processes[wire[j].of]
      BY <1>6, <3>1, <3>2
    <3>. QED BY <1>3, <1>4, <3>1, <3>2, <3>3 DEF MessageOK, Alive
  <2>. QED BY <1>3, <1>4, <2>1, <2>2, <2>3 DEF HostOK
<1>11. OutputOK'
  <2>1. Chain(<<>>, 0, 0)
    BY DEF Chain
  <2>2. processes'[r].pty => Pending(wire, r, 0, processes'[r])
    <3>1. \A j \in 1..Len(wire) : wire[j].of # r
      BY <1>1 DEF HostOK, MessageOK, r, Runs
    <3>2. wire \in Seq(Wires)
      BY DEF TypedT
    <3>3. Pending(wire, r, w.written, w)
      BY <1>3, <1>5, <3>1, <3>2, PendingNone
    <3>. QED BY <1>5, <1>6, <3>3
  <2>3. ShownUpTo(0)'
    BY <1>3, <1>4, <2>1, <2>2 DEF ShownUpTo
  <2>4. 0 \in 0..Length
    BY TerminalAssumption
  <2>5. \A i \in 1..Len(output') : output'[i].of = run'
    BY <1>4
  <2>. QED BY <2>3, <2>4, <2>5 DEF OutputOK
<1>12. VerdictOK'
  BY <1>2, <1>3, <1>4, <1>7 DEF VerdictOK
<1>13. RunningOK'
  BY <1>2, <1>3, <1>4, <1>5, <1>6, <1>7 DEF RunningOK
<1>. QED BY <1>8, <1>9, <1>10, <1>11, <1>12, <1>13

\* writeTerminal and terminateTerminal make their calls.
LEMMA TerminalCallHost ==
    ASSUME TerminalInv, NEW op \in {"write", "terminate"}, CallHost(op)
    PROVE  TerminalInv'
<1>. USE DEF TerminalInv, CallHost, linkVars
<1>. DEFINE d == <<run, op>>
<1>1. /\ run \in 0..MaxRuns /\ MaxRuns \in Nat /\ run # 0 /\ running # 0 /\ d \in Calls
      /\ calls \subseteq made /\ made \subseteq Calls /\ error \in Nat
  BY TerminalAssumption DEF TypedT, RunningOK
<1>2. /\ made' = made \cup {d}
      /\ UNCHANGED <<link, socket, ready, run, running, output, exitCode, processes, wire, replaced>>
      /\ \/ calls' = calls \cup {d} /\ UNCHANGED error
         \/ error' = run /\ UNCHANGED calls
  OBVIOUS
<1>3. d[1] = run
  OBVIOUS
<1>. HIDE DEF d
<1>4. TypedT'
  <2>1. error' \in Nat
    BY <1>1, <1>2
  <2>2. calls' \subseteq made' /\ made' \subseteq Calls
    BY <1>1, <1>2
  <2>. QED BY <1>2, <2>1, <2>2 DEF TypedT
<1>5. LinkOK'
  BY <1>2 DEF LinkOK
<1>6. HostOK'
  <2>1. \A c \in made' : c[1] <= run'
    BY <1>1, <1>2, <1>3 DEF HostOK
  <2>. QED BY <1>2, <2>1 DEF HostOK, MessageOK, Alive
<1>7. OutputOK'
  <2>1. run # 0 => (Alive(run)' <=> Alive(run))
    BY <1>2 DEF Alive
  <2>. QED BY <1>2, <2>1, OutputStays
<1>8. VerdictOK'
  <2>1. error' \notin {0, run} => \E c \in made' \ calls' : c[1] = error'
    <3>1. CASE error' = run
      BY <3>1
    <3>2. CASE error' # run
      <4>1. calls' = calls \cup {d} /\ error' = error
        BY <1>2, <3>2
      <4>. QED BY <1>2, <1>3, <3>2, <4>1 DEF VerdictOK
    <3>. QED BY <3>1, <3>2
  <2>. QED BY <1>1, <1>2, <2>1 DEF VerdictOK
<1>9. RunningOK'
  BY <1>2 DEF RunningOK, Answer
<1>. QED BY <1>4, <1>5, <1>6, <1>7, <1>8, <1>9

-----------------------------------------------------------------------------
(* The host.                                                                *)

\* The process p of a command becomes w without a message.
Silently(p, w) ==
    /\ w.atExit = p.atExit /\ (p.pty => w.written = p.written)
    /\ p.state # "gone" => w.state = p.state \/ (p.state = "live" /\ w.state = "doomed")
    /\ p.state = "gone" => w.state = "gone"

\* It becomes w with the message m of it.
Saying(p, w, m) ==
    \/ /\ m.is = "delta" /\ p.pty /\ m.from = p.written /\ m.to = w.written /\ p.written <= w.written
       /\ w.atExit = p.atExit /\ w.state = p.state
    \/ /\ m.is # "delta" /\ p.state # "gone" /\ w.state = "gone"
       /\ w.written = p.written /\ w.atExit = p.written
       /\ m.to = IF p.pty THEN 0 ELSE p.written

\* What the host does to one process keeps the invariant, with the message it
\* sends of it, if any, at the end of those on their way.
LEMMA HostStep ==
    ASSUME TerminalInv, NEW r \in Runs, Reachable(r), NEW w \in Processes,
           w.on = processes[r].on, w.pty = processes[r].pty,
           processes' = [processes EXCEPT ![r] = w],
           UNCHANGED <<linkVars, shellVars, callVars, replaced>>,
           \/ UNCHANGED wire /\ Silently(processes[r], w)
           \/ \E m \in Wires : /\ m.of = r /\ wire' = Append(wire, m)
                               /\ Saying(processes[r], w, m)
    PROVE  TerminalInv'
<1>. USE DEF TerminalInv, linkVars, shellVars, callVars
<1>1. /\ run \in 0..MaxRuns /\ MaxRuns \in Nat /\ link \in Nat /\ processes \in [Runs -> Processes]
      /\ wire \in Seq(Wires)
      /\ \A j \in 1..Len(wire) : wire[j] \in Wires /\ wire[j].of \in Runs
  <2>1. \A j \in 1..Len(wire) : wire[j] \in Wires
    BY DEF TypedT
  <2>. QED BY <2>1, TerminalAssumption DEF TypedT, Wires
<1>2. UNCHANGED <<link, socket, ready, run, running, output, exitCode, error, calls, made, replaced>>
  OBVIOUS
<1>. DEFINE p == processes[r]
<1>3. /\ p \in Processes /\ processes' \in [Runs -> Processes] /\ processes'[r] = w
      /\ \A s \in Runs : s # r => processes'[s] = processes[s]
  BY <1>1
<1>4. /\ Alive(r) /\ p.on = link /\ w.on = p.on /\ w.pty = p.pty /\ r <= run
      /\ p.state = "gone" => w.state = "gone"
      /\ p.state = "gone" => w.atExit = p.atExit
      /\ p.state \in {"live", "doomed"} => w.state \in {"live", "doomed"} \/ Answer(r)'
  <2>1. p.on = link /\ socket = "established"
    BY DEF Reachable
  <2>2. link # 0
    BY <2>1 DEF LinkOK
  <2>3. p # NoProcess
    BY <2>1, <2>2 DEF NoProcess
  <2>4. r <= run
    BY <1>1, <2>3 DEF HostOK, Runs
  <2>5. p.state = "gone" => w.state = "gone" /\ w.atExit = p.atExit
    BY DEF Silently, Saying
  <2>6. p.state \in {"live", "doomed"} => w.state \in {"live", "doomed"} \/ Answer(r)'
    <3>1. CASE UNCHANGED wire /\ Silently(p, w)
      BY <3>1 DEF Silently
    <3>2. ASSUME NEW m \in Wires, m.of = r, wire' = Append(wire, m), Saying(p, w, m)
          PROVE  p.state \in {"live", "doomed"} => w.state \in {"live", "doomed"} \/ Answer(r)'
      <4>1. CASE m.is = "delta"
        BY <3>2, <4>1 DEF Saying
      <4>2. CASE m.is # "delta"
        <5>1. /\ Len(wire') = Len(wire) + 1 /\ Len(wire) \in Nat
              /\ wire'[Len(wire) + 1] = m
          BY <1>1, <3>2
        <5>2. Len(wire) + 1 \in 1..Len(wire')
          BY <5>1
        <5>3. \E j \in 1..Len(wire') : wire'[j].is # "delta" /\ wire'[j].of = r
          BY <3>2, <4>2, <5>1, <5>2
        <5>. QED BY <5>3 DEF Answer
      <4>. QED BY <4>1, <4>2
    <3>. QED BY <3>1, <3>2
  <2>. QED BY <2>1, <2>4, <2>5, <2>6 DEF Alive
<1>5. \A s \in Runs :
         /\ processes'[s].on = processes[s].on /\ processes'[s].pty = processes[s].pty
         /\ processes[s].state = "gone" =>
               processes'[s].state = "gone" /\ processes'[s].atExit = processes[s].atExit
         /\ Alive(s)' <=> Alive(s)
  <2>1. ASSUME NEW s \in Runs
        PROVE  /\ processes'[s].on = processes[s].on /\ processes'[s].pty = processes[s].pty
               /\ processes[s].state = "gone" =>
                     processes'[s].state = "gone" /\ processes'[s].atExit = processes[s].atExit
    BY <1>3, <1>4
  <2>. QED BY <1>2, <2>1 DEF Alive
<1>6. \/ UNCHANGED wire /\ Silently(p, w)
      \/ \E m \in Wires : /\ m.of = r /\ wire' = Append(wire, m)
                          /\ Saying(p, w, m)
  OBVIOUS
<1>. HIDE DEF p
<1>7. TypedT'
  <2>1. wire' \in Seq(Wires)
    BY <1>1, <1>6
  <2>. QED BY <1>2, <1>3, <2>1 DEF TypedT
<1>8. LinkOK'
  BY <1>2, <1>5 DEF LinkOK
<1>9. HostOK'
  <2>1. \A s \in Runs : s > run' => processes'[s] = NoProcess
    <3>1. \A s \in Runs : s > run => s # r
      BY <1>1, <1>4 DEF Runs
    <3>. QED BY <1>2, <1>3, <3>1 DEF HostOK
  <2>. DEFINE Good(m) ==
                /\ m.of <= run' /\ processes'[m.of].on = link' /\ socket' \in {"established", "closing"}
                /\ m.is = "delta" => processes'[m.of].pty
                /\ m.is # "delta" =>
                      /\ processes'[m.of].state = "gone"
                      /\ m.to = IF processes'[m.of].pty THEN 0 ELSE processes'[m.of].atExit
  <2>2. ASSUME NEW m \in Wires, MessageOK(m)
        PROVE  Good(m)
    <3>1. m.of \in Runs
      BY DEF Wires
    <3>2. Alive(m.of) => processes[m.of].on = link /\ socket \in {"established", "closing"}
      BY DEF Alive
    <3>. QED BY <1>2, <1>5, <2>2, <3>1, <3>2 DEF MessageOK
  <2>3. ASSUME NEW m \in Wires, m.of = r, Saying(p, w, m)
        PROVE  Good(m)
    <3>1. processes'[m.of] = w /\ w.on = link' /\ socket' \in {"established", "closing"} /\ m.of <= run'
      BY <1>2, <1>3, <1>4, <2>3 DEF Alive
    <3>. QED BY <1>4, <2>3, <3>1 DEF Saying
  <2>. HIDE DEF Good
  <2>4. \A j \in 1..Len(wire) : Good(wire[j])
    BY <1>1, <2>2 DEF HostOK
  <2>5. \A j \in 1..Len(wire') : Good(wire'[j])
    <3>1. CASE UNCHANGED wire
      BY <2>4, <3>1
    <3>2. ASSUME NEW m \in Wires, m.of = r, wire' = Append(wire, m), Saying(p, w, m)
          PROVE  \A j \in 1..Len(wire') : Good(wire'[j])
      <4>1. /\ Len(wire) \in Nat /\ Len(wire') = Len(wire) + 1 /\ wire'[Len(wire) + 1] = m
            /\ \A j \in 1..Len(wire) : wire'[j] = wire[j]
        BY <1>1, <3>2
      <4>2. Good(m)
        BY <2>3, <3>2
      <4>3. ASSUME NEW j \in 1..Len(wire')
            PROVE  Good(wire'[j])
        <5>1. CASE j \in 1..Len(wire)
          BY <2>4, <4>1, <5>1
        <5>2. CASE j \notin 1..Len(wire)
          <6>1. j = Len(wire) + 1
            BY <4>1, <5>2
          <6>. QED BY <4>1, <4>2, <6>1
        <5>. QED BY <5>1, <5>2
      <4>. QED BY <4>3
    <3>. QED BY <1>6, <3>1, <3>2
  <2>. USE DEF Good
  <2>6. \A c \in made' : c[1] <= run'
    BY <1>2 DEF HostOK
  <2>. QED BY <2>1, <2>5, <2>6 DEF HostOK, MessageOK, Alive
<1>10. OutputOK'
  <2>1. run # 0 => run \in Runs
    BY <1>1 DEF Runs
  <2>2. exitCode # 0 => run # 0 /\ processes[run].state = "gone"
    BY DEF VerdictOK
  <2>3. run # 0 => /\ processes'[run].pty = processes[run].pty
                   /\ exitCode # 0 => processes'[run].atExit = processes[run].atExit
    BY <1>5, <2>1, <2>2
  <2>4. ASSUME NEW n \in 0..Length, run # 0, processes[run].pty, Pending(wire, run, n, processes[run])
        PROVE  Pending(wire', run, n, processes'[run])
    <3>. DEFINE o == processes[run]
                u == processes'[run]
    <3>1. run \in Runs /\ o \in Processes /\ u \in Processes
      BY <1>1, <1>3, <2>1, <2>4
    <3>2. run = r => o = p /\ u = w
      BY <1>3 DEF p
    <3>3. run # r => u = o
      BY <1>3, <3>1
    <3>. HIDE DEF o, u
    <3>4. CASE UNCHANGED wire /\ Silently(p, w)
      <4>1. u.written = o.written /\ u.atExit = o.atExit
        <5>1. CASE run = r
          BY <2>4, <3>2, <3>4, <5>1 DEF Silently, o
        <5>2. CASE run # r
          BY <3>3, <5>2
        <5>. QED BY <5>1, <5>2
      <4>2. Pending(wire, run, n, o)
        BY <2>4 DEF o
      <4>3. Pending(wire, run, n, u)
        BY <4>1, <4>2, PendingOf
      <4>. QED BY <3>4, <4>3 DEF u
    <3>5. ASSUME NEW m \in Wires, m.of = r, wire' = Append(wire, m), Saying(p, w, m)
          PROVE  Pending(wire', run, n, u)
      <4>1. Pending(wire, run, n, o)
        BY <2>4 DEF o
      <4>2. /\ IF IsDelta(m, run) THEN m.from = o.written /\ m.to = u.written /\ o.written <= u.written
                                  ELSE u.written = o.written
            /\ m.of = run /\ m.is # "delta" => u.atExit = u.written
            /\ u.atExit = o.atExit \/ \A j \in 1..Len(wire) : ~(wire[j].of = run /\ wire[j].is # "delta")
        <5>1. CASE run = r
          <6>1. o = p /\ u = w
            BY <3>2, <5>1
          <6>2. p.state # "gone" => \A j \in 1..Len(wire) : ~(wire[j].of = run /\ wire[j].is # "delta")
            BY <5>1 DEF HostOK, MessageOK, p
          <6>. QED BY <3>5, <5>1, <6>1, <6>2 DEF Saying, IsDelta
        <5>2. CASE run # r
          BY <3>3, <3>5, <5>2 DEF IsDelta
        <5>. QED BY <5>1, <5>2
      <4>3. Pending(Append(wire, m), run, n, u)
        BY <1>1, <3>1, <4>1, <4>2, PendingAppend
      <4>. QED BY <3>5, <4>3
    <3>. QED BY <1>6, <3>4, <3>5 DEF u
  <2>5. run # 0 => (Alive(run)' <=> Alive(run))
    BY <1>2, <1>5, <2>1 DEF Alive
  <2>. QED BY <1>2, <2>3, <2>4, <2>5, OutputStays
<1>11. VerdictOK'
  <2>1. exitCode # 0 => run \in Runs /\ processes[run].state = "gone"
    BY <1>1 DEF VerdictOK, Runs
  <2>. QED BY <1>2, <1>5, <2>1 DEF VerdictOK
<1>12. RunningOK'
  <2>1. run # 0 => run \in Runs
    BY <1>1 DEF Runs
  <2>2. run # 0 /\ processes[run].state \in {"live", "doomed"} =>
           processes'[run].state \in {"live", "doomed"} \/ Answer(run)'
    <3>1. CASE run = r
      BY <1>2, <1>3, <1>4, <3>1 DEF p, Answer
    <3>2. CASE run # r
      BY <1>3, <2>1, <3>2
    <3>. QED BY <3>1, <3>2
  <2>3. Answer(run) => Answer(run)'
    <3>1. CASE UNCHANGED wire
      BY <1>2, <3>1 DEF Answer
    <3>2. ASSUME NEW m \in Wires, wire' = Append(wire, m)
          PROVE  Answer(run) => Answer(run)'
      <4>1. /\ Len(wire) \in Nat /\ Len(wire') = Len(wire) + 1
            /\ \A j \in 1..Len(wire) : wire'[j] = wire[j] /\ j \in 1..Len(wire')
        BY <1>1, <3>2
      <4>. QED BY <1>2, <4>1 DEF Answer
    <3>. QED BY <1>6, <3>1, <3>2
  <2>. QED BY <1>2, <2>2, <2>3 DEF RunningOK
<1>. QED BY <1>7, <1>8, <1>9, <1>10, <1>11, <1>12

\* A process writes.
LEMMA TerminalProcessWrites ==
    ASSUME TerminalInv, NEW r \in Runs, NEW to \in 1..Length, ProcessWrites(r, to)
    PROVE  TerminalInv'
<1>. USE DEF ProcessWrites
<1>. DEFINE p == processes[r]
            w == [p EXCEPT !.written = to]
<1>1. /\ p \in Processes /\ to \in 0..Length /\ p.written \in 0..Length /\ p.written < to
      /\ Length \in Nat /\ processes \in [Runs -> Processes]
  BY TerminalAssumption DEF TerminalInv, TypedT, Processes
<1>2. w \in Processes /\ w.on = p.on /\ w.pty = p.pty /\ w.state = p.state /\ w.atExit = p.atExit /\ w.written = to
  <2>. HIDE DEF p
  <2>. QED BY <1>1 DEF Processes
<1>3. processes' = [processes EXCEPT ![r] = w]
  BY <1>1
<1>4. \/ UNCHANGED wire /\ Silently(p, w)
      \/ \E m \in Wires : m.of = r /\ wire' = Append(wire, m) /\ Saying(p, w, m)
  <2>1. CASE p.pty
    <3>. DEFINE m == Delta(r, p.written, to)
    <3>1. m \in Wires /\ m.is = "delta" /\ m.of = r /\ m.from = p.written /\ m.to = to
      BY <1>1 DEF Delta, Wires
    <3>2. wire' = Append(wire, m)
      BY <2>1 DEF Sends
    <3>. HIDE DEF m, w, p
    <3>3. p.written <= w.written
      BY <1>1, <1>2
    <3>4. Saying(p, w, m)
      BY <1>2, <2>1, <3>1, <3>3 DEF Saying
    <3>. QED BY <3>1, <3>2, <3>4
  <2>2. CASE ~p.pty
    <3>1. UNCHANGED wire
      BY <2>2
    <3>. HIDE DEF w, p
    <3>. QED BY <1>2, <2>2, <3>1 DEF Silently
  <2>. QED BY <2>1, <2>2
<1>5. Reachable(r) /\ UNCHANGED <<linkVars, shellVars, callVars, replaced>>
  OBVIOUS
<1>. HIDE DEF w
<1>. QED BY <1>2, <1>3, <1>4, <1>5, HostStep

\* A process exits.
LEMMA TerminalExits ==
    ASSUME TerminalInv, NEW r \in Runs, NEW ok \in BOOLEAN, Exits(r, ok)
    PROVE  TerminalInv'
<1>. USE DEF Exits
<1>. DEFINE p == processes[r]
            w == [p EXCEPT !.state = "gone", !.atExit = p.written]
            m == ExecAnswer(r, ok, IF p.pty THEN 0 ELSE p.written)
<1>1. p \in Processes /\ p.written \in 0..Length /\ Length \in Nat /\ processes \in [Runs -> Processes]
  BY TerminalAssumption DEF TerminalInv, TypedT, Processes
<1>2. /\ w \in Processes /\ w.on = p.on /\ w.pty = p.pty /\ w.state = "gone"
      /\ w.atExit = p.written /\ w.written = p.written
  <2>. HIDE DEF p
  <2>. QED BY <1>1 DEF Processes
<1>3. processes' = [processes EXCEPT ![r] = w]
  BY <1>1
<1>4. /\ m \in Wires /\ m.is # "delta" /\ m.of = r
      /\ m.to = IF p.pty THEN 0 ELSE p.written
  <2>1. (IF p.pty THEN 0 ELSE p.written) \in 0..Length /\ 0 \in 0..Length
    BY <1>1
  <2>. HIDE DEF p
  <2>. QED BY <2>1 DEF ExecAnswer, Wires
<1>5. wire' = Append(wire, m) /\ p.state # "gone"
  BY DEF Sends
<1>6. Reachable(r) /\ UNCHANGED <<linkVars, shellVars, callVars, replaced>>
  OBVIOUS
<1>. HIDE DEF w, m
<1>7. Saying(p, w, m)
  <2>. HIDE DEF p
  <2>. QED BY <1>2, <1>4, <1>5 DEF Saying
<1>. QED BY <1>2, <1>3, <1>4, <1>5, <1>6, <1>7, HostStep

\* A termination reaches a process.
LEMMA TerminalTerminates ==
    ASSUME TerminalInv, NEW r \in Runs, Terminates(r)
    PROVE  TerminalInv'
<1>. USE DEF Terminates
<1>. DEFINE p == processes[r]
            w == [p EXCEPT !.state = "doomed"]
<1>1. p \in Processes /\ processes \in [Runs -> Processes]
  BY DEF TerminalInv, TypedT
<1>2. /\ w \in Processes /\ w.on = p.on /\ w.pty = p.pty /\ w.state = "doomed"
      /\ w.atExit = p.atExit /\ w.written = p.written
  <2>. HIDE DEF p
  <2>. QED BY <1>1 DEF Processes
<1>3. processes' = [processes EXCEPT ![r] = w]
  BY <1>1
<1>4. Reachable(r) /\ UNCHANGED <<linkVars, shellVars, callVars, wire, replaced>> /\ p.state = "live"
  OBVIOUS
<1>. HIDE DEF w
<1>5. Silently(p, w)
  <2>. HIDE DEF p
  <2>. QED BY <1>2, <1>4 DEF Silently
<1>. QED BY <1>2, <1>3, <1>4, <1>5, HostStep

-----------------------------------------------------------------------------
(* What comes back.                                                         *)

\* A message arrives: those behind it stay as they are.
LEMMA ReceivesWire ==
    ASSUME TerminalInv, NEW m, Receives(m)
    PROVE  /\ m \in Wires /\ m.of \in Runs /\ m = Head(wire) /\ wire # <<>> /\ MessageOK(m)
           /\ wire' = Tail(wire) /\ wire' \in Seq(Wires) /\ wire \in Seq(Wires)
           /\ UNCHANGED <<link, socket, ready, run, made, processes, replaced>>
           /\ LinkOK' /\ HostOK'
           /\ m.is = "delta" \/ m.of # run => (Answer(run) => Answer(run)')
<1>. USE DEF TerminalInv, Receives, linkVars
<1>1. wire \in Seq(Wires) /\ wire # <<>> /\ m = Head(wire) /\ wire' = Tail(wire)
  BY DEF TypedT
<1>2. UNCHANGED <<link, socket, ready, run, made, processes, replaced>>
  OBVIOUS
<1>3. /\ Len(wire) \in Nat \ {0} /\ m = wire[1] /\ 1 \in 1..Len(wire) /\ m \in Wires
      /\ wire' \in Seq(Wires) /\ Len(wire') = Len(wire) - 1
      /\ \A j \in 1..Len(wire') : wire'[j] = wire[j + 1] /\ j + 1 \in 1..Len(wire)
  BY <1>1
<1>4. m.of \in Runs
  BY <1>3 DEF Wires
<1>5. MessageOK(m)
  BY <1>3 DEF HostOK
<1>6. LinkOK'
  BY <1>2 DEF LinkOK
<1>7. HostOK'
  <2>1. \A k \in 1..Len(wire) : MessageOK(wire[k])
    BY DEF HostOK
  <2>2. \A j \in 1..Len(wire') : MessageOK(wire'[j])
    BY <1>3, <2>1
  <2>. QED BY <1>2, <2>2 DEF HostOK, MessageOK, Alive
<1>8. ASSUME m.is = "delta" \/ m.of # run, Answer(run)
      PROVE  Answer(run)'
  <2>1. PICK k \in 1..Len(wire) : wire[k].is # "delta" /\ wire[k].of = run
    BY <1>8 DEF Answer
  <2>2. k # 1
    BY <1>3, <1>8, <2>1
  <2>3. k - 1 \in 1..Len(wire') /\ (k - 1) + 1 = k
    BY <1>3, <2>1, <2>2
  <2>4. wire'[k - 1] = wire[k]
    BY <1>3, <2>3
  <2>. QED BY <1>2, <2>1, <2>3, <2>4 DEF Answer
<1>. QED BY <1>1, <1>2, <1>3, <1>4, <1>5, <1>6, <1>7, <1>8

\* A delta arrives.
LEMMA TerminalOutputDelta ==
    ASSUME TerminalInv, NEW m, OutputDelta(m)
    PROVE  TerminalInv'
<1>1. Receives(m) /\ m.is = "delta" /\ UNCHANGED <<running, exitCode, error, calls>>
  BY DEF OutputDelta
<1>2. /\ m \in Wires /\ m.of \in Runs /\ m = Head(wire) /\ wire # <<>> /\ MessageOK(m)
      /\ wire' = Tail(wire) /\ wire' \in Seq(Wires) /\ wire \in Seq(Wires)
      /\ UNCHANGED <<link, socket, ready, run, made, processes, replaced>>
      /\ LinkOK' /\ HostOK'
      /\ m.is = "delta" \/ m.of # run => (Answer(run) => Answer(run)')
  BY <1>1, ReceivesWire
<1>. USE DEF TerminalInv
<1>3. output' = IF m.of = run THEN output \o Decode(m.of, m.from, m.to) ELSE output
  BY DEF OutputDelta, IsShown
<1>4. /\ run \in 0..MaxRuns /\ MaxRuns \in Nat /\ processes \in [Runs -> Processes]
      /\ output \in Seq(Characters) /\ Length \in Nat
      /\ m.from \in 0..Length /\ m.to \in 0..Length
  BY <1>2, TerminalAssumption DEF TypedT, Wires
<1>5. PICK n \in 0..Length : ShownUpTo(n)
  BY DEF OutputOK
<1>6. run # 0 => run \in Runs /\ processes[run] \in Processes
  BY <1>4 DEF Runs
<1>7. CASE m.of = run
  <2>. DEFINE d == Decode(run, m.from, m.to)
  <2>1. run # 0 /\ run \in Runs /\ processes[run].pty /\ Alive(run)
    BY <1>1, <1>2, <1>4, <1>7 DEF MessageOK, Runs
  <2>2. Pending(wire, run, n, processes[run])
    BY <1>5, <2>1 DEF ShownUpTo
  <2>3. IsDelta(Head(wire), run)
    BY <1>1, <1>2, <1>7 DEF IsDelta
  <2>4. m.from = n /\ n <= m.to /\ Pending(wire', run, m.to, processes[run])
    BY <1>2, <1>6, <2>1, <2>2, <2>3, PendingTail
  <2>5. m.to \in m.from..Length
    BY <1>4, <2>4
  <2>6. /\ d \in Seq(Characters) /\ \A i \in DOMAIN d : d[i].of = run
        /\ Chain(d, m.from, m.to)
    BY <1>4, <2>1, <2>5, DecodeChain
  <2>7. output' = output \o d
    BY <1>3, <1>7
  <2>. HIDE DEF d
  <2>8. output' \in Seq(Characters)
    BY <1>4, <2>6, <2>7
  <2>9. Chain(output', 0, m.to)
    <3>1. Chain(output, 0, n)
      BY <1>5 DEF ShownUpTo
    <3>2. n \in Nat /\ m.to \in Nat /\ 0 \in Nat /\ Chain(d, n, m.to)
      BY <1>4, <2>4, <2>6
    <3>3. Chain(output \o d, 0, m.to)
      BY <1>4, <2>6, <3>1, <3>2, ChainConcat
    <3>. QED BY <2>7, <3>3
  <2>10. exitCode # 0 => processes[run].atExit <= m.to
    <3>1. exitCode # 0 => processes[run].atExit <= n
      BY <1>5 DEF ShownUpTo
    <3>2. processes[run].atExit \in Nat
      BY <1>4, <1>6, <2>1 DEF Processes
    <3>. QED BY <1>4, <2>4, <3>1, <3>2
  <2>11. ShownUpTo(m.to)'
    <3>. DEFINE k == m.to
    <3>1. UNCHANGED <<run, exitCode, processes>>
      BY <1>1, <1>2
    <3>. QED BY <2>1, <2>4, <2>9, <2>10, <3>1 DEF ShownUpTo
  <2>12. \A i \in 1..Len(output') : output'[i].of = run
    <3>1. \A i \in 1..Len(output) : output[i].of = run
      BY DEF OutputOK
    <3>2. /\ Len(output) \in Nat /\ Len(d) \in Nat /\ Len(output') = Len(output) + Len(d)
          /\ \A i \in 1..Len(output) : output'[i] = output[i]
          /\ \A i \in (Len(output) + 1)..Len(output') : output'[i] = d[i - Len(output)] /\ i - Len(output) \in DOMAIN d
      BY <1>4, <2>6, <2>7
    <3>3. ASSUME NEW i \in 1..Len(output')
          PROVE  output'[i].of = run
      <4>1. CASE i \in 1..Len(output)
        BY <3>1, <3>2, <4>1
      <4>2. CASE i \notin 1..Len(output)
        <5>1. i \in (Len(output) + 1)..Len(output')
          BY <3>2, <4>2
        <5>. QED BY <2>6, <3>2, <5>1
      <4>. QED BY <4>1, <4>2
    <3>. QED BY <3>3
  <2>13. OutputOK'
    BY <1>2, <1>4, <2>11, <2>12 DEF OutputOK
  <2>14. TypedT'
    BY <1>1, <1>2, <2>8 DEF TypedT
  <2>15. VerdictOK' /\ RunningOK'
    BY <1>1, <1>2 DEF VerdictOK, RunningOK
  <2>. QED BY <1>2, <2>13, <2>14, <2>15
<1>8. CASE m.of # run
  <2>1. output' = output
    BY <1>3, <1>8
  <2>2. ASSUME NEW k \in 0..Length, run # 0, Pending(wire, run, k, processes[run])
        PROVE  Pending(wire', run, k, processes[run])
    <3>1. ~IsDelta(Head(wire), run)
      BY <1>2, <1>8 DEF IsDelta
    <3>. QED BY <1>2, <1>6, <2>2, <3>1, PendingTail
  <2>3. OutputOK'
    <3>1. Alive(run)' <=> Alive(run)
      BY <1>2 DEF Alive
    <3>. QED BY <1>1, <1>2, <2>1, <2>2, <3>1, OutputStays
  <2>4. TypedT'
    BY <1>1, <1>2, <2>1 DEF TypedT
  <2>5. VerdictOK' /\ RunningOK'
    BY <1>1, <1>2 DEF VerdictOK, RunningOK
  <2>. QED BY <1>2, <2>3, <2>4, <2>5
<1>. QED BY <1>7, <1>8

\* The answer to command/exec arrives.
LEMMA TerminalExecAnswered ==
    ASSUME TerminalInv, NEW m, ExecAnswered(m)
    PROVE  TerminalInv'
<1>1. Receives(m) /\ m.is # "delta" /\ UNCHANGED calls
  BY DEF ExecAnswered
<1>2. /\ m \in Wires /\ m.of \in Runs /\ m = Head(wire) /\ wire # <<>> /\ MessageOK(m)
      /\ wire' = Tail(wire) /\ wire' \in Seq(Wires) /\ wire \in Seq(Wires)
      /\ UNCHANGED <<link, socket, ready, run, made, processes, replaced>>
      /\ LinkOK' /\ HostOK'
      /\ m.is = "delta" \/ m.of # run => (Answer(run) => Answer(run)')
  BY <1>1, ReceivesWire
<1>. USE DEF TerminalInv
<1>3. /\ run \in 0..MaxRuns /\ MaxRuns \in Nat /\ processes \in [Runs -> Processes]
      /\ output \in Seq(Characters) /\ Length \in Nat
      /\ m.to \in 0..Length
  BY <1>2, TerminalAssumption DEF TypedT, Wires
<1>4. run # 0 => run \in Runs /\ processes[run] \in Processes
  BY <1>3 DEF Runs
<1>5. ~IsDelta(Head(wire), run)
  BY <1>1, <1>2 DEF IsDelta
<1>6. ASSUME NEW k \in 0..Length, run # 0, Pending(wire, run, k, processes[run])
      PROVE  /\ Pending(wire', run, k, processes[run])
             /\ m.of = run => k = processes[run].atExit
  BY <1>1, <1>2, <1>4, <1>5, <1>6, PendingTail
<1>7. CASE UNCHANGED <<output, exitCode>>
  <2>1. OutputOK'
    <3>1. Alive(run)' <=> Alive(run)
      BY <1>2 DEF Alive
    <3>. QED BY <1>2, <1>6, <1>7, <3>1, OutputStays
  <2>2. CASE UNCHANGED <<running, error>> /\ (running = 0 \/ m.of # run)
    <3>1. TypedT'
      BY <1>1, <1>2, <1>7, <2>2 DEF TypedT
    <3>2. VerdictOK' /\ RunningOK'
      BY <1>1, <1>2, <1>7, <2>2 DEF VerdictOK, RunningOK
    <3>. QED BY <1>2, <2>1, <3>1, <3>2
  <2>3. CASE running # 0 /\ running' = 0 /\ error' = run
    <3>1. running' \in Nat /\ error' \in Nat
      BY <1>3, <2>3
    <3>2. TypedT'
      BY <1>1, <1>2, <1>7, <3>1 DEF TypedT
    <3>3. VerdictOK' /\ RunningOK'
      BY <1>1, <1>2, <1>7, <2>3 DEF VerdictOK, RunningOK
    <3>. QED BY <1>2, <2>1, <3>2, <3>3
  <2>4. \/ UNCHANGED <<running, error>> /\ (running = 0 \/ m.of # run)
        \/ running # 0 /\ running' = 0 /\ error' = run
        \/ exitCode' = run /\ running # 0 /\ m.of = run
    BY DEF ExecAnswered
  <2>5. ~(exitCode' = run /\ running # 0 /\ m.of = run)
    BY <1>2, <1>3, <1>7 DEF VerdictOK, Runs
  <2>. QED BY <2>2, <2>3, <2>4, <2>5
<1>8. CASE /\ running # 0 /\ m.of = run /\ running' = 0 /\ exitCode' = run /\ UNCHANGED error
           /\ output' = output \o Decode(run, 0, m.to)
  <2>. DEFINE d == Decode(run, 0, m.to)
  <2>1. /\ run # 0 /\ run \in Runs /\ Alive(run) /\ processes[run].state = "gone"
        /\ m.to = IF processes[run].pty THEN 0 ELSE processes[run].atExit
        /\ exitCode = 0 /\ processes[run].atExit \in Nat
    <3>1. run # 0 /\ run \in Runs
      BY <1>2, <1>3, <1>8 DEF Runs
    <3>2. processes[run].atExit \in Nat
      BY <1>3, <1>4, <3>1 DEF Processes
    <3>. QED BY <1>1, <1>2, <1>8, <3>1, <3>2 DEF MessageOK, VerdictOK
  <2>2. 0 \in 0..Length /\ m.to \in 0..Length
    BY <1>3
  <2>3. /\ d \in Seq(Characters) /\ \A i \in DOMAIN d : d[i].of = run
        /\ Chain(d, 0, m.to)
        /\ 0 = m.to => d = <<>>
    <3>. DEFINE z == 0
    <3>1. z \in 0..Length /\ m.to \in z..Length
      BY <2>2
    <3>. HIDE DEF z
    <3>2. /\ Decode(run, z, m.to) \in Seq(Characters)
          /\ \A i \in DOMAIN Decode(run, z, m.to) : Decode(run, z, m.to)[i].of = run
          /\ Chain(Decode(run, z, m.to), z, m.to)
          /\ z = m.to => Decode(run, z, m.to) = <<>>
      BY <2>1, <3>1, DecodeChain
    <3>. QED BY <3>2 DEF z
  <2>. HIDE DEF d
  <2>4. PICK n \in 0..Length : ShownUpTo(n)
    BY DEF OutputOK
  <2>5. \/ processes[run].pty /\ output' = output
        \/ ~processes[run].pty /\ output' = d
    <3>1. CASE processes[run].pty
      <4>1. d = <<>> /\ output' = output \o d
        BY <1>8, <2>1, <2>3, <3>1 DEF d
      <4>. QED BY <1>3, <3>1, <4>1
    <3>2. CASE ~processes[run].pty
      <4>1. output = <<>>
        BY <2>1, <2>4, <3>2 DEF ShownUpTo
      <4>2. output' = <<>> \o d
        BY <1>8, <4>1 DEF d
      <4>. QED BY <2>3, <3>2, <4>2
    <3>. QED BY <3>1, <3>2
  <2>6. /\ output' \in Seq(Characters)
        /\ \A i \in 1..Len(output') : output'[i].of = run
    BY <1>3, <2>3, <2>5 DEF OutputOK
  <2>7. \E k \in 0..Length : ShownUpTo(k)'
    <3>1. CASE processes[run].pty
      <4>1. Pending(wire, run, n, processes[run]) /\ Chain(output, 0, n)
        BY <2>1, <2>4, <3>1 DEF ShownUpTo
      <4>2. Pending(wire', run, n, processes[run]) /\ n = processes[run].atExit
        BY <1>6, <1>8, <2>1, <4>1
      <4>3. output' = output /\ processes[run].atExit <= n
        BY <2>1, <2>5, <3>1, <4>2
      <4>4. ShownUpTo(n)'
        BY <1>2, <2>1, <3>1, <4>1, <4>2, <4>3 DEF ShownUpTo
      <4>. QED BY <4>4
    <3>2. CASE ~processes[run].pty
      <4>. DEFINE k == m.to
      <4>1. k = processes[run].atExit /\ processes[run].atExit <= k /\ k \in 0..Length
        BY <2>1, <2>2, <3>2
      <4>2. output' = d /\ Chain(d, 0, k)
        BY <2>3, <2>5, <3>2
      <4>. HIDE DEF k
      <4>3. exitCode' # 0 /\ run' = run /\ processes' = processes
        BY <1>2, <1>8, <2>1
      <4>4. ShownUpTo(k)'
        BY <2>1, <3>2, <4>1, <4>2, <4>3 DEF ShownUpTo
      <4>. QED BY <4>1, <4>4
    <3>. QED BY <3>1, <3>2
  <2>8. OutputOK'
    BY <1>2, <2>6, <2>7 DEF OutputOK
  <2>9. TypedT'
    <3>1. running' \in Nat /\ exitCode' \in Nat
      BY <1>3, <1>8
    <3>. QED BY <1>1, <1>2, <1>8, <2>6, <3>1 DEF TypedT
  <2>10. VerdictOK' /\ RunningOK'
    BY <1>1, <1>2, <1>8, <2>1 DEF VerdictOK, RunningOK
  <2>. QED BY <1>2, <2>8, <2>9, <2>10
<1>. QED BY <1>2, <1>7, <1>8 DEF ExecAnswered

\* The buffered command/exec has no answer in time.
LEMMA TerminalExecTimesOut ==
    ASSUME TerminalInv, ExecTimesOut
    PROVE  TerminalInv'
<1>. USE DEF TerminalInv, ExecTimesOut, linkVars, callVars, hostVars
<1>1. /\ UNCHANGED <<link, socket, ready, run, output, exitCode, calls, made, processes, wire, replaced>>
      /\ running # 0 /\ running' = 0 /\ error' = run
  OBVIOUS
<1>2. running' \in Nat /\ error' \in Nat
  BY <1>1, TerminalAssumption DEF TypedT
<1>3. TypedT'
  BY <1>1, <1>2 DEF TypedT
<1>4. LinkOK'
  BY <1>1 DEF LinkOK
<1>5. HostOK'
  BY <1>1 DEF HostOK, MessageOK, Alive
<1>6. OutputOK'
  BY <1>1 DEF OutputOK, ShownUpTo, Alive
<1>7. VerdictOK' /\ RunningOK'
  BY <1>1 DEF VerdictOK, RunningOK
<1>. QED BY <1>3, <1>4, <1>5, <1>6, <1>7

\* A write or a termination has its answer, or none in time.
LEMMA TerminalCallEnds ==
    ASSUME TerminalInv, NEW c \in Calls, CallAnswered(c) \/ CallFails(c)
    PROVE  TerminalInv'
<1>. USE DEF TerminalInv, linkVars, hostVars
<1>1. /\ UNCHANGED <<link, socket, ready, run, running, output, exitCode, made, processes, wire, replaced>>
      /\ c \in calls /\ calls' = calls \ {c}
      /\ error' = error \/ error' = c[1]
  BY DEF CallAnswered, CallFails
<1>2. /\ run \in 0..MaxRuns /\ MaxRuns \in Nat /\ error \in Nat /\ calls \subseteq made /\ made \subseteq Calls
      /\ c[1] \in 1..MaxRuns /\ c \in made
  BY <1>1, TerminalAssumption DEF TypedT
<1>3. TypedT'
  <2>1. error' \in Nat
    BY <1>1, <1>2
  <2>2. calls' \subseteq made' /\ made' \subseteq Calls
    BY <1>1, <1>2
  <2>. QED BY <1>1, <2>1, <2>2 DEF TypedT
<1>4. LinkOK'
  BY <1>1 DEF LinkOK
<1>5. HostOK'
  BY <1>1 DEF HostOK, MessageOK, Alive
<1>6. OutputOK'
  BY <1>1 DEF OutputOK, ShownUpTo, Alive
<1>7. VerdictOK'
  <2>1. error' = error \/ (error' = c[1] /\ error' # 0)
    BY <1>1, <1>2
  <2>2. error' \notin {0, run} => \E e \in made' \ calls' : e[1] = error'
    BY <1>1, <1>2, <2>1 DEF VerdictOK
  <2>3. run # 0 /\ running = 0 => exitCode # 0 \/ error' # 0
    BY <2>1 DEF VerdictOK
  <2>. QED BY <1>1, <2>2, <2>3 DEF VerdictOK
<1>8. RunningOK'
  BY <1>1 DEF RunningOK, Answer
<1>. QED BY <1>3, <1>4, <1>5, <1>6, <1>7, <1>8

\* A step of something else.
LEMMA TerminalStutters ==
    ASSUME TerminalInv, UNCHANGED vars
    PROVE  TerminalInv'
<1>. USE DEF TerminalInv, vars, linkVars, shellVars, callVars, hostVars
<1>1. TypedT' /\ LinkOK'
  BY DEF TypedT, LinkOK
<1>2. HostOK'
  BY DEF HostOK, MessageOK, Alive
<1>3. OutputOK'
  BY DEF OutputOK, ShownUpTo, Alive
<1>4. VerdictOK' /\ RunningOK'
  BY DEF VerdictOK, RunningOK, Answer
<1>. QED BY <1>1, <1>2, <1>3, <1>4

\* Every step keeps the invariant.
LEMMA TerminalInvStep == TerminalInv /\ [TerminalNext]_vars => TerminalInv'
<1>. SUFFICES ASSUME TerminalInv, [TerminalNext]_vars
              PROVE  TerminalInv'
  OBVIOUS
<1>1. CASE Connection
  BY <1>1, TerminalConnect, TerminalLost, TerminalOtherEvent DEF Connection
<1>2. CASE TerminalUser
  BY <1>2, TerminalRunTerminal, TerminalCallHost DEF TerminalUser
<1>3. CASE Host
  BY <1>3, TerminalExits, TerminalTerminates, TerminalProcessWrites DEF Host
<1>4. CASE Delivers
  BY <1>4, TerminalOutputDelta, TerminalExecAnswered DEF Delivers
<1>5. CASE ExecTimesOut
  BY <1>5, TerminalExecTimesOut
<1>6. CASE \E c \in Calls : CallAnswered(c) \/ CallFails(c)
  BY <1>6, TerminalCallEnds
<1>7. CASE UNCHANGED vars
  BY <1>7, TerminalStutters
<1>. QED BY <1>1, <1>2, <1>3, <1>4, <1>5, <1>6, <1>7 DEF TerminalNext, HostOutcome

\* The invariant of the terminal: types, connections, the messages on their way,
\* the output shown and what follows it, and the end of the command shown.
THEOREM TerminalCorrect == TerminalSpec => []TerminalInv
BY TerminalInvInit, TerminalInvStep, PTL DEF TerminalSpec

\* The invariant is more than what the panel promises.
LEMMA TerminalInvTruthful == TerminalInv => TerminalTruthful
<1>. SUFFICES ASSUME TerminalInv PROVE TerminalTruthful
  OBVIOUS
<1>. USE DEF TerminalInv
<1>1. PICK n \in 0..Length : ShownUpTo(n)
  BY DEF OutputOK
<1>2. /\ output \in Seq(Characters) /\ run \in 0..MaxRuns /\ MaxRuns \in Nat /\ Length \in Nat
      /\ processes \in [Runs -> Processes] /\ wire \in Seq(Wires)
  BY TerminalAssumption DEF TypedT
<1>3. Chain(output, 0, n)
  BY <1>1 DEF ShownUpTo
<1>4. OutputFaithful
  <2>1. \A i \in DOMAIN output : output[i].of = run
    BY <1>2 DEF OutputOK
  <2>2. output # <<>> => output[1].at = 1
    BY <1>3 DEF Chain
  <2>3. \A i \in 2..Len(output) : Follows(output[i - 1], output[i])
    BY <1>3 DEF Chain, Follows, After
  <2>. QED BY <2>1, <2>2, <2>3 DEF OutputFaithful
<1>5. Verdict
  <2>1. ASSUME exitCode # 0, NEW b \in 1..processes[run].atExit
        PROVE  \E i \in DOMAIN output : output[i].at = b \/ (output[i].at = b - 1 /\ b - 1 \in Wide)
    <3>1. run \in Runs
      BY <1>2, <2>1 DEF VerdictOK, Runs
    <3>2. processes[run].atExit \in 0..Length /\ processes[run].atExit <= n
      BY <1>1, <1>2, <2>1, <3>1 DEF ShownUpTo, Processes
    <3>3. b \in 1..n /\ n \in Nat
      BY <1>2, <3>2
    <3>. QED BY <1>2, <1>3, <3>3, ChainCovers
  <2>. QED BY <2>1 DEF Verdict, VerdictOK
<1>6. RunningTruthful
  <2>1. Answer(run) => \E message \in Range(wire) : message.is # "delta" /\ message.of = run
    BY <1>2 DEF Answer, Range
  <2>. QED BY <2>1 DEF RunningTruthful, RunningOK
<1>. QED BY <1>4, <1>5, <1>6 DEF TerminalTruthful

\* TerminalPanel.vue: the output, the exit code or error and the sign that the
\* command runs are those of the command shown, whatever the order of deltas,
\* answers, lost connections and commands.
THEOREM TerminalTells == TerminalSpec => []TerminalTruthful
BY TerminalCorrect, TerminalInvTruthful, PTL

-----------------------------------------------------------------------------
(* The type invariant.                                                      *)

\* The bounds of what TypedT leaves open.
BoundsOK == link <= MaxLinks /\ running <= link /\ error <= run

\* Every step keeps these bounds.
LEMMA TerminalBounds ==
    ASSUME TerminalInv, BoundsOK, [TerminalNext]_vars
    PROVE  BoundsOK'
<1>. USE DEF BoundsOK
<1>1. /\ link \in Nat /\ MaxLinks \in Nat /\ run \in 0..MaxRuns /\ MaxRuns \in Nat /\ running \in Nat
      /\ error \in Nat /\ calls \subseteq made /\ made \subseteq Calls
      /\ \A c \in made : c[1] \in 1..MaxRuns /\ c[1] <= run
  BY TerminalAssumption, LinkAssumption DEF TerminalInv, TypedT, HostOK
<1>2. CASE Connect
  <2>1. link < MaxLinks /\ link' = link + 1 /\ UNCHANGED <<run, running, error>>
    BY <1>2 DEF Connect, Dial, NewConnection
  <2>. QED BY <1>1, <2>1
<1>3. CASE Lost
  <2>1. /\ link' = link \/ (link < MaxLinks /\ link' = link + 1)
        /\ UNCHANGED run /\ running' = 0
    BY <1>3 DEF Lost, Reconnect, Drops, NewConnection, RejectPending
  <2>. DEFINE Rejected == {r \in Runs : r = run /\ running # 0} \cup {c[1] : c \in calls}
  <2>2. error' = IF Rejected = {} THEN error ELSE Max(Rejected)
    BY <1>3 DEF Lost, RejectPending
  <2>3. Rejected \subseteq 0..run
    <3>1. run \in 0..run /\ \A c \in calls : c[1] \in 0..run
      <4>1. \A c \in calls : c[1] \in Nat /\ c[1] <= run
        BY <1>1
      <4>. QED BY <1>1, <4>1
    <3>. QED BY <3>1
  <2>. HIDE DEF Rejected
  <2>4. Rejected # {} => error' \in Rejected
    <3>1. run \in Nat
      BY <1>1
    <3>. QED BY <2>2, <2>3, <3>1, MaxIsMember
  <2>5. Rejected # {} => error' \in 0..run
    BY <2>3, <2>4
  <2>. QED BY <1>1, <2>1, <2>2, <2>5
<1>4. CASE OtherEvent
  <2>1. UNCHANGED <<link, run, running, error>>
    BY <1>4 DEF OtherEvent, shellVars, Opens, BecomesReady, Closes, GoesOffline
  <2>. QED BY <2>1
<1>5. ASSUME NEW pty \in BOOLEAN, RunTerminal(pty) PROVE BoundsOK'
  <2>1. /\ UNCHANGED link /\ run' = run + 1 /\ running = 0
        /\ (running' = link /\ error' = 0) \/ (running' = running /\ error' = run')
    BY <1>5 DEF RunTerminal, linkVars
  <2>. QED BY <1>1, <2>1
<1>6. ASSUME NEW op \in {"write", "terminate"}, CallHost(op) PROVE BoundsOK'
  <2>1. UNCHANGED <<link, run, running>> /\ (error' = error \/ error' = run)
    BY <1>6 DEF CallHost, linkVars
  <2>. QED BY <1>1, <2>1
<1>7. CASE Host
  <2>1. UNCHANGED <<link, run, running, error>>
    BY <1>7 DEF Host, Exits, Terminates, ProcessWrites, linkVars, shellVars
  <2>. QED BY <2>1
<1>8. CASE Delivers
  <2>1. UNCHANGED <<link, run>>
    BY <1>8 DEF Delivers, OutputDelta, ExecAnswered, Receives, linkVars
  <2>2. (running' = running \/ running' = 0) /\ (error' = error \/ error' = run)
    BY <1>8 DEF Delivers, OutputDelta, ExecAnswered
  <2>. QED BY <1>1, <2>1, <2>2
<1>9. CASE ExecTimesOut
  <2>1. UNCHANGED <<link, run>> /\ running' = 0 /\ error' = run
    BY <1>9 DEF ExecTimesOut, linkVars
  <2>. QED BY <1>1, <2>1
<1>10. ASSUME NEW c \in Calls, CallAnswered(c) \/ CallFails(c) PROVE BoundsOK'
  <2>1. UNCHANGED <<link, run, running>> /\ c \in made /\ (error' = error \/ error' = c[1])
    BY <1>1, <1>10 DEF CallAnswered, CallFails, linkVars
  <2>. QED BY <1>1, <2>1
<1>11. CASE UNCHANGED vars
  BY <1>11 DEF vars, linkVars, shellVars
<1>. QED BY <1>2, <1>3, <1>4, <1>5, <1>6, <1>7, <1>8, <1>9, <1>10, <1>11
         DEF TerminalNext, Connection, TerminalUser, HostOutcome

\* Together they are the type invariant.
LEMMA TerminalInvTypeOK == TerminalInv /\ BoundsOK => TerminalTypeOK
<1>. SUFFICES ASSUME TerminalInv, BoundsOK PROVE TerminalTypeOK
  OBVIOUS
<1>. USE DEF TerminalInv, BoundsOK
<1>1. LinkTypeOK
  BY LinkAssumption DEF TypedT, LinkTypeOK
<1>2. run \in 0..MaxRuns /\ running \in 0..link /\ replaced \in BOOLEAN
  BY DEF TypedT
<1>3. {exitCode, error} \subseteq 0..run
  BY TerminalAssumption DEF TypedT, VerdictOK
<1>4. /\ output \in Seq([of : Runs, at : 1..Length, whole : BOOLEAN])
      /\ calls \subseteq made /\ made \subseteq Calls
  BY DEF TypedT, Characters
<1>5. processes \in [Runs -> [on : 0..link, pty : BOOLEAN, written : 0..Length, atExit : 0..Length,
                              state : {"none", "live", "doomed", "gone"}]]
  <2>1. ASSUME NEW r \in Runs
        PROVE  processes[r] \in [on : 0..link, pty : BOOLEAN, written : 0..Length, atExit : 0..Length,
                                 state : {"none", "live", "doomed", "gone"}]
    <3>1. processes[r] \in Processes /\ processes[r].on <= link /\ link \in Nat
      BY DEF TypedT, LinkOK
    <3>. QED BY <3>1 DEF Processes
  <2>. QED BY <2>1 DEF TypedT
<1>. QED BY <1>1, <1>2, <1>3, <1>4, <1>5 DEF TerminalTypeOK

\* The type invariant of the terminal.
THEOREM TerminalTyped == TerminalSpec => []TerminalTypeOK
<1>1. TerminalInit => BoundsOK
  BY LinkAssumption DEF TerminalInit, LinkInit, BoundsOK
<1>2. TerminalInv /\ BoundsOK /\ [TerminalNext]_vars => BoundsOK'
  BY TerminalBounds
<1>. QED BY <1>1, <1>2, TerminalCorrect, TerminalInvTypeOK, PTL DEF TerminalSpec
=============================================================================
