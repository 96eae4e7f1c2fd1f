----------------------------- MODULE ThreadProofs -----------------------------
(***************************************************************************)
(* Proofs about ThreadSession, for any threads, and any number of turns,   *)
(* of calls awaited at a time and of connections.                          *)
(***************************************************************************)
EXTENDS ThreadSession, ListProofs

USE ThreadAssumption DEF ThreadAssumption
-----------------------------------------------------------------------------
(* The inductive invariant of opening: what is awaited and what is on its   *)
(* way.                                                                     *)

Events == {"turn/started", "turn/completed"}
Kinds == {"answer"} \cup Events
Shown == Seq([id : 1..lastTurn, live : BOOLEAN])
Sent == [kind : Kinds, call : Slots \cup {None}, thread : created,
         turn : 0..lastTurn, view : Shown]

\* What is in the inbox is about threads and turns there are.
InboxOK == inbox \in Seq(Sent)

\* The call that is answered is still awaited, and was about that thread.
Answered(m) ==
    /\ m.call \in Slots
    /\ calls[m.call].served
    /\ calls[m.call].op \in {"resume", "start", "turn"}
    /\ calls[m.call].op = "start" => m.thread \in Fresh /\ m.view = <<>>
    /\ calls[m.call].op # "start" => m.thread = calls[m.call].thread
    /\ m.turn = 0 <=> calls[m.call].op \in {"resume", "start"}

\* Every answer has its call, and no call two answers; what is no answer is
\* about a turn.
AnswersOK ==
    /\ \A i \in DOMAIN inbox : inbox[i].kind = "answer" => Answered(inbox[i])
    /\ \A i \in DOMAIN inbox : inbox[i].kind \in Events => inbox[i].call = None /\ inbox[i].turn # 0
    /\ \A i, j \in DOMAIN inbox :
          inbox[i].kind = "answer" /\ inbox[j].kind = "answer" /\ inbox[i].call = inbox[j].call
              => i = j

\* The call with the latest generation, while there is one, opens what the
\* user wants.
OpenerOK ==
    /\ loading <=> opener # None
    /\ opener # None =>
          /\ opener \in Slots /\ Opening(opener)
          /\ calls[opener].op \in {"read", "resume"} => wanted = calls[opener].thread
          /\ calls[opener].op = "start" => wanted = "new"

CallsOK == \A c \in Slots : calls[c].op \in {"read", "resume", "turn"} => calls[c].thread \in created

\* Turns are numbered in the order they start, and only the last of a thread
\* is in progress.
TurnsOK ==
    \A t \in AllThreads :
        /\ \A k \in DOMAIN turns[t] : turns[t][k] \in 1..lastTurn
        /\ \A k, l \in DOMAIN turns[t] : k < l => turns[t][k] < turns[t][l]
        /\ running[t] # 0 => turns[t] # <<>> /\ running[t] = turns[t][Len(turns[t])]
        /\ t \notin created => turns[t] = <<>>

OpenInv == TypeOK /\ InboxOK /\ CallsOK /\ AnswersOK /\ OpenerOK /\ LatestOpenWins
-----------------------------------------------------------------------------
(* The inbox.                                                               *)

\* Sequences over a set are sequences over a larger one.
LEMMA SeqMonotone ==
    ASSUME NEW S, NEW T, S \subseteq T
    PROVE  Seq(S) \subseteq Seq(T)
<1> SUFFICES ASSUME NEW s \in Seq(S) PROVE s \in Seq(T)
  OBVIOUS
<1>1. Len(s) \in Nat /\ s \in [1..Len(s) -> S]
  BY LenProperties
<1>2. s \in [1..Len(s) -> T]
  BY <1>1
<1> QED
  BY <1>1, <1>2, SeqDef

\* What has been sent stays right as threads and turns are added.
LEMMA SentGrows ==
    ASSUME NEW C, NEW D, C \subseteq D, NEW n \in Nat, NEW m \in Nat, n <= m
    PROVE  Seq([kind : Kinds, call : Slots \cup {None}, thread : C, turn : 0..n,
                view : Seq([id : 1..n, live : BOOLEAN])])
             \subseteq
           Seq([kind : Kinds, call : Slots \cup {None}, thread : D, turn : 0..m,
                view : Seq([id : 1..m, live : BOOLEAN])])
<1>1. [id : 1..n, live : BOOLEAN] \subseteq [id : 1..m, live : BOOLEAN]
  OBVIOUS
<1>2. PICK V, W : /\ V = Seq([id : 1..n, live : BOOLEAN])
                  /\ W = Seq([id : 1..m, live : BOOLEAN])
  OBVIOUS
<1>3. V \subseteq W
  BY <1>1, <1>2, SeqMonotone
<1>4. 0..n \subseteq 0..m
  OBVIOUS
<1>5. [kind : Kinds, call : Slots \cup {None}, thread : C, turn : 0..n, view : V]
        \subseteq [kind : Kinds, call : Slots \cup {None}, thread : D, turn : 0..m, view : W]
  BY <1>3, <1>4
<1>6. PICK X, Y : /\ X = [kind : Kinds, call : Slots \cup {None}, thread : C, turn : 0..n, view : V]
                  /\ Y = [kind : Kinds, call : Slots \cup {None}, thread : D, turn : 0..m, view : W]
  OBVIOUS
<1>7. Seq(X) \subseteq Seq(Y)
  BY <1>5, <1>6, SeqMonotone
<1> QED
  BY <1>2, <1>6, <1>7

\* h says where each message of the inbox was before the step.
Selected(h) ==
    /\ h \in [DOMAIN inbox' -> DOMAIN inbox]
    /\ \A k \in DOMAIN inbox' : inbox'[k] = inbox[h[k]]
    /\ \A k, l \in DOMAIN inbox' : k < l => h[k] < h[l]

\* Nothing is taken out.
LEMMA SelectsAll ==
    ASSUME InboxOK, inbox' = inbox
    PROVE  Selected([k \in DOMAIN inbox |-> k])
BY DEF InboxOK, Selected

\* The first message is taken out.
LEMMA SelectsTail ==
    ASSUME InboxOK, inbox # <<>>, inbox' = Tail(inbox)
    PROVE  /\ inbox' \in Seq(Sent)
           /\ Selected([k \in DOMAIN inbox' |-> k + 1])
           /\ 1 \in DOMAIN inbox /\ Head(inbox) = inbox[1] /\ inbox[1] \in Sent
           /\ \A i \in DOMAIN inbox : i > 1 => i - 1 \in DOMAIN inbox'
BY DEF InboxOK, Selected

\* Some messages are taken out, wherever they are.
LEMMA SelectsKept ==
    ASSUME InboxOK, NEW T, inbox' = Keep(inbox, T)
    PROVE  /\ inbox' \in Seq(Sent)
           /\ \A k \in DOMAIN inbox' : inbox'[k] \in T
           /\ \E h : /\ Selected(h)
                     /\ \A i \in DOMAIN inbox : inbox[i] \in T => \E k \in DOMAIN inbox' : h[k] = i
<1>1. inbox' \in Seq(Sent \cap T)
  BY KeepMembers DEF InboxOK
<1>2. inbox' \in Seq(Sent)
  BY <1>1, SeqMonotone
<1>3. \A k \in DOMAIN inbox' : inbox'[k] \in T
  BY <1>1
<1>4. PICK h \in [DOMAIN Keep(inbox, T) -> DOMAIN inbox] :
              /\ \A k \in DOMAIN Keep(inbox, T) : Keep(inbox, T)[k] = inbox[h[k]]
              /\ \A k, l \in DOMAIN Keep(inbox, T) : k < l => h[k] < h[l]
              /\ \A i \in DOMAIN inbox : inbox[i] \in T => \E k \in DOMAIN Keep(inbox, T) : h[k] = i
  BY KeepInOrder DEF InboxOK
<1>5. Selected(h)
  BY <1>4 DEF Selected
<1> QED
  BY <1>2, <1>3, <1>4, <1>5

\* Answers that stay keep their calls when the others change.
LEMMA AnswersStay ==
    ASSUME AnswersOK, InboxOK, inbox' \in Seq(Sent), NEW h, Selected(h),
           \A k \in DOMAIN inbox' : inbox'[k].kind = "answer" => calls'[inbox'[k].call] = calls[inbox'[k].call]
    PROVE  AnswersOK'
<1>1. DOMAIN inbox \subseteq Nat /\ DOMAIN inbox' \subseteq Nat
  BY DEF InboxOK
<1>2. ASSUME NEW k \in DOMAIN inbox', NEW l \in DOMAIN inbox', h[k] = h[l] PROVE k = l
  <2>1. k \in Nat /\ l \in Nat /\ h[k] \in Nat /\ h[l] \in Nat
    BY <1>1 DEF Selected
  <2>2. ~ (k < l) /\ ~ (l < k)
    BY <1>2, <2>1 DEF Selected
  <2> QED
    BY <2>1, <2>2
<1>3. ASSUME NEW k \in DOMAIN inbox', inbox'[k].kind = "answer" PROVE Answered(inbox[k])'
  <2>1. h[k] \in DOMAIN inbox /\ inbox'[k] = inbox[h[k]]
    BY DEF Selected
  <2>2. Answered(inbox[h[k]])
    BY <1>3, <2>1 DEF AnswersOK
  <2> QED
    BY <1>3, <2>1, <2>2 DEF Answered
<1>4. ASSUME NEW k \in DOMAIN inbox', inbox'[k].kind \in Events PROVE inbox'[k].call = None /\ inbox'[k].turn # 0
  BY <1>4 DEF AnswersOK, Selected
<1>5. ASSUME NEW k \in DOMAIN inbox', NEW l \in DOMAIN inbox',
             inbox'[k].kind = "answer", inbox'[l].kind = "answer", inbox'[k].call = inbox'[l].call
      PROVE  k = l
  <2>1. h[k] = h[l]
    BY <1>5 DEF AnswersOK, Selected
  <2> QED
    BY <1>2, <2>1
<1> QED
  BY <1>3, <1>4, <1>5 DEF AnswersOK

\* A call that is free, or not served, has no answer on its way.
LEMMA NoAnswerYet ==
    ASSUME AnswersOK, NEW c \in Slots,
           \/ Free(c)
           \/ ~calls[c].served
           \/ calls[c].op = "read"
    PROVE  \A i \in DOMAIN inbox : inbox[i].kind = "answer" => inbox[i].call # c
BY DEF AnswersOK, Answered, Free, NoCall

\* The type of the inbox grows with the threads and the turns.
LEMMA InboxGrows ==
    ASSUME TypeOK, InboxOK, created \subseteq created', lastTurn' \in Nat, lastTurn <= lastTurn'
    PROVE  inbox \in Seq(Sent)'
<1>1. lastTurn \in Nat
  BY DEF TypeOK
<1>2. PICK C, D : C = created /\ D = created'
  OBVIOUS
<1>3. PICK n \in Nat, m \in Nat : n = lastTurn /\ m = lastTurn'
  BY <1>1
<1> DEFINE X == Seq([kind : Kinds, call : Slots \cup {None}, thread : C, turn : 0..n,
                     view : Seq([id : 1..n, live : BOOLEAN])])
           Y == Seq([kind : Kinds, call : Slots \cup {None}, thread : D, turn : 0..m,
                     view : Seq([id : 1..m, live : BOOLEAN])])
<1>4. X \subseteq Y
  BY <1>2, <1>3, SentGrows
<1>5. inbox \in X
  BY <1>2, <1>3 DEF InboxOK, Sent, Shown
<1>6. Seq(Sent)' = Y
  BY <1>2, <1>3 DEF Sent, Shown
<1> HIDE DEF X, Y
<1> QED
  BY <1>4, <1>5, <1>6

\* Calls that change none of this.
LEMMA Opened ==
    ASSUME TypeOK, InboxOK, CallsOK, AnswersOK, NEW c \in Slots, NEW w \in Calls,
           calls' = [calls EXCEPT ![c] = w],
           w.op \in {"read", "resume", "turn"} => w.thread \in created
    PROVE  /\ calls' \in [Slots -> Calls]
           /\ \A d \in Slots : calls'[d] = IF d = c THEN w ELSE calls[d]
           /\ \A d \in Slots : calls'[d].op \in {"read", "resume", "turn"} => calls'[d].thread \in created
BY DEF TypeOK, CallsOK

\* Beginning to open or start a thread.
LEMMA BeginKeeps ==
    ASSUME OpenInv, NEW c \in Slots, NEW op \in {"read", "start"}, NEW t, NEW ask \in BOOLEAN, NEW want,
           op = "read" => t \in created /\ want = t,
           op = "start" => t = None /\ want = "new",
           Begin(c, op, t, ask, want), connected' \in BOOLEAN, losses' = losses
    PROVE  OpenInv'
<1> DEFINE w == Await(op, t, ask)
<1>1. /\ TypeOK /\ InboxOK /\ CallsOK /\ AnswersOK /\ Free(c)
      /\ calls' = [calls EXCEPT ![c] = w] /\ opener' = c /\ loading' = TRUE /\ wanted' = want
      /\ UNCHANGED <<serverVars, inbox, pageVars>>
  BY DEF OpenInv, Begin
<1>2. w \in Calls /\ w.op = op /\ w.thread = t
  BY <1>1 DEF Await, Calls, Ops, TypeOK, AllThreads
<1> HIDE DEF w
<1>3. /\ calls' \in [Slots -> Calls]
      /\ \A d \in Slots : calls'[d] = IF d = c THEN w ELSE calls[d]
      /\ \A d \in Slots : calls'[d].op \in {"read", "resume", "turn"} => calls'[d].thread \in created
  BY <1>1, <1>2, Opened
<1>4. TypeOK'
  BY <1>1, <1>2, <1>3 DEF TypeOK, serverVars, pageVars, AllThreads
<1>5. InboxOK'
  BY <1>1 DEF InboxOK, Sent, Shown, serverVars
<1>6. CallsOK'
  BY <1>1, <1>3 DEF CallsOK, serverVars
<1>7. AnswersOK'
  <2>1. \A i \in DOMAIN inbox : inbox[i].kind = "answer" => inbox[i].call \in Slots /\ inbox[i].call # c
    BY <1>1, NoAnswerYet DEF AnswersOK, Answered
  <2>2. Selected([k \in DOMAIN inbox |-> k]) /\ inbox' = inbox /\ inbox \in Seq(Sent)
    BY <1>1, SelectsAll DEF InboxOK
  <2> QED
    BY <1>1, <1>3, <2>1, <2>2, AnswersStay
<1>8. OpenerOK'
  BY <1>1, <1>2, <1>3 DEF OpenerOK, Opening
<1>9. LatestOpenWins'
  BY <1>1 DEF LatestOpenWins
<1> QED
  BY <1>4, <1>5, <1>6, <1>7, <1>8, <1>9 DEF OpenInv

\* The user asks for a turn.
LEMMA StartTurnKeeps ==
    ASSUME OpenInv, NEW c \in Slots, StartTurn(c)
    PROVE  OpenInv'
<1> DEFINE w == Await("turn", active, FALSE)
<1>1. /\ TypeOK /\ InboxOK /\ CallsOK /\ AnswersOK /\ OpenerOK /\ Free(c) /\ active # None
      /\ calls' = [calls EXCEPT ![c] = w]
      /\ UNCHANGED <<serverVars, inbox, linkVars, openVars, pageVars>>
  BY DEF OpenInv, StartTurn
<1>2. w \in Calls /\ w.op = "turn" /\ w.thread = active /\ active \in created
  BY <1>1 DEF Await, Calls, Ops, TypeOK, AllThreads
<1> HIDE DEF w
<1>3. /\ calls' \in [Slots -> Calls]
      /\ \A d \in Slots : calls'[d] = IF d = c THEN w ELSE calls[d]
      /\ \A d \in Slots : calls'[d].op \in {"read", "resume", "turn"} => calls'[d].thread \in created
  BY <1>1, <1>2, Opened
<1>4. TypeOK'
  BY <1>1, <1>2, <1>3 DEF TypeOK, serverVars, pageVars, linkVars, openVars
<1>5. InboxOK'
  BY <1>1 DEF InboxOK, Sent, Shown, serverVars
<1>6. CallsOK'
  BY <1>1, <1>3 DEF CallsOK, serverVars
<1>7. AnswersOK'
  <2>1. \A i \in DOMAIN inbox : inbox[i].kind = "answer" => inbox[i].call \in Slots /\ inbox[i].call # c
    BY <1>1, NoAnswerYet DEF AnswersOK, Answered
  <2>2. Selected([k \in DOMAIN inbox |-> k]) /\ inbox' = inbox /\ inbox \in Seq(Sent)
    BY <1>1, SelectsAll DEF InboxOK
  <2> QED
    BY <1>1, <1>3, <2>1, <2>2, AnswersStay
<1>8. OpenerOK'
  <2>1. opener # c
    BY <1>1 DEF OpenerOK, Opening, Free, NoCall
  <2> QED
    BY <1>1, <1>3, <2>1 DEF OpenerOK, Opening, openVars
<1>9. LatestOpenWins'
  BY <1>1 DEF OpenInv, LatestOpenWins, openVars, pageVars
<1> QED
  BY <1>4, <1>5, <1>6, <1>7, <1>8, <1>9 DEF OpenInv

\* What the server does changes no part of the page.
LEMMA ServedTypes ==
    ASSUME OpenInv, calls' \in [Slots -> Calls],
           \A d \in Slots : calls'[d].op = calls[d].op /\ calls'[d].thread = calls[d].thread,
           UNCHANGED <<linkVars, openVars, pageVars>>,
           turns' \in [AllThreads -> Seq(TurnIds)], lastTurn' \in 0..MaxTurns, lastTurn <= lastTurn',
           running' \in [AllThreads -> 0..lastTurn'],
           created \subseteq created', created' \subseteq AllThreads, subscribed' \subseteq created'
    PROVE  TypeOK' /\ CallsOK' /\ OpenerOK' /\ LatestOpenWins'
<1>1. TypeOK /\ CallsOK /\ OpenerOK /\ LatestOpenWins
  BY DEF OpenInv
<1>2. TypeOK'
  <2>1. activeTurn' \in 0..lastTurn'
    BY <1>1 DEF TypeOK, pageVars
  <2>2. active' \in created' \cup {None}
    BY <1>1 DEF TypeOK, pageVars
  <2>3. \A c \in Slots : calls'[c].op = "turn" => calls'[c].thread \in created'
    BY <1>1 DEF TypeOK
  <2>4. /\ connected' \in BOOLEAN /\ losses' \in 0..MaxLosses
        /\ opener' \in Slots \cup {None} /\ loading' \in BOOLEAN
        /\ loaded' \in BOOLEAN /\ view' \in Views
        /\ wanted' \in AllThreads \cup {"any", "new"}
        /\ synced' \in BOOLEAN /\ crossed' \in BOOLEAN
    BY <1>1 DEF TypeOK, linkVars, openVars, pageVars
  <2> QED
    BY <2>1, <2>2, <2>3, <2>4 DEF TypeOK
<1>3. CallsOK'
  BY <1>1 DEF CallsOK
<1>4. OpenerOK'
  BY <1>1 DEF OpenerOK, Opening, openVars
<1>5. LatestOpenWins'
  BY <1>1 DEF LatestOpenWins, openVars, pageVars
<1> QED
  BY <1>2, <1>3, <1>4, <1>5

\* An event is sent, or none.
LEMMA EventSent ==
    ASSUME OpenInv, UNCHANGED calls, inbox \in Seq(Sent)',
           NEW kind \in Events, NEW t \in created', NEW u \in 1..lastTurn', lastTurn' \in Nat,
           inbox' = inbox \o Notify(kind, t, u)
    PROVE  InboxOK' /\ AnswersOK'
<1> DEFINE E == Event(kind, t, u)
<1>1. <<>> \in Shown'
  BY EmptySeq DEF Shown
<1>2. /\ E \in Sent' /\ E.kind \in Events /\ E.call = None /\ E.turn # 0 /\ E.kind # "answer"
  BY <1>1 DEF Event, Sent, Kinds, Events
<1>3. PICK S : S = Sent' /\ Seq(S) = Seq(Sent)'
  OBVIOUS
<1>4. inbox' = inbox \/ inbox' = Append(inbox, E)
  BY <1>2, <1>3 DEF Notify
<1> HIDE DEF E
<1>5. inbox' \in Seq(S)
  <2>1. E \in S /\ inbox \in Seq(S)
    BY <1>2, <1>3
  <2>2. PICK e \in S, s \in Seq(S) : e = E /\ s = inbox
    BY <2>1
  <2>3. Append(s, e) \in Seq(S)
    OBVIOUS
  <2> QED
    BY <1>4, <2>2, <2>3
<1>6. \A i \in DOMAIN inbox' :
         \/ i \in DOMAIN inbox /\ inbox'[i] = inbox[i]
         \/ inbox'[i] = E
  BY <1>2, <1>3, <1>4
<1>7. AnswersOK
  BY DEF OpenInv
<1>8. AnswersOK'
  <2>1. ASSUME NEW i \in DOMAIN inbox', inbox'[i].kind = "answer"
        PROVE  /\ Answered(inbox[i])'
               /\ i \in DOMAIN inbox /\ inbox'[i] = inbox[i]
    <3>1. i \in DOMAIN inbox /\ inbox'[i] = inbox[i]
      BY <1>2, <1>6, <2>1
    <3>2. Answered(inbox[i])
      BY <1>7, <2>1, <3>1 DEF AnswersOK
    <3> QED
      BY <3>1, <3>2 DEF Answered
  <2>2. ASSUME NEW i \in DOMAIN inbox', inbox'[i].kind \in Events
        PROVE  inbox'[i].call = None /\ inbox'[i].turn # 0
    BY <1>2, <1>6, <1>7, <2>2 DEF AnswersOK
  <2>3. ASSUME NEW i \in DOMAIN inbox', NEW j \in DOMAIN inbox',
               inbox'[i].kind = "answer", inbox'[j].kind = "answer", inbox'[i].call = inbox'[j].call
        PROVE  i = j
    BY <1>7, <2>1, <2>3 DEF AnswersOK
  <2> QED
    BY <2>1, <2>2, <2>3 DEF AnswersOK
<1> QED
  BY <1>3, <1>5, <1>8 DEF InboxOK

\* An answer is sent, and perhaps an event behind it.
LEMMA AnswerSent ==
    ASSUME OpenInv, NEW c \in Slots, NEW op \in {"resume", "start", "turn"}, Serve(c, op),
           inbox \in Seq(Sent)', NEW A \in Sent', NEW tail \in Seq(Sent)',
           \/ tail = <<>>
           \/ Len(tail) = 1 /\ tail[1].kind \in Events /\ tail[1].call = None /\ tail[1].turn # 0,
           A.kind = "answer", A.call = c,
           A.turn = 0 <=> op \in {"resume", "start"},
           op = "start" => A.thread \in Fresh /\ A.view = <<>>,
           op # "start" => A.thread = calls[c].thread,
           inbox' = (inbox \o <<A>>) \o tail
    PROVE  /\ InboxOK' /\ AnswersOK'
           /\ calls' \in [Slots -> Calls]
           /\ \A d \in Slots : calls'[d].op = calls[d].op /\ calls'[d].thread = calls[d].thread
<1>1. /\ TypeOK /\ AnswersOK /\ calls[c].op = op /\ ~calls[c].served
      /\ calls' = [calls EXCEPT ![c].served = TRUE]
  BY DEF OpenInv, Serve
<1>2. /\ calls' \in [Slots -> Calls]
      /\ \A d \in Slots : d # c => calls'[d] = calls[d]
      /\ calls'[c].served /\ calls'[c].op = op /\ calls'[c].thread = calls[c].thread
  BY <1>1 DEF TypeOK, Calls
<1>3. PICK S : S = Sent' /\ Seq(S) = Seq(Sent)'
  OBVIOUS
<1>4. PICK n \in Nat : n = Len(inbox)
  BY <1>3
<1>5. /\ inbox' \in Seq(S)
      /\ \A i \in DOMAIN inbox' :
            \/ i \in 1..n /\ inbox'[i] = inbox[i]
            \/ i = n + 1 /\ inbox'[i] = A
            \/ inbox'[i].kind \in Events /\ inbox'[i].call = None /\ inbox'[i].turn # 0
  <2>1. CASE tail = <<>>
    <3>1. inbox' = Append(inbox, A)
      BY <1>3, <2>1
    <3> QED
      BY <1>3, <1>4, <3>1
  <2>2. CASE tail # <<>>
    <3>1. tail = <<tail[1]>> /\ tail[1] \in S
      BY <1>3, <2>2
    <3>2. PICK e \in S : e = tail[1]
      BY <3>1
    <3>3. inbox' = Append(Append(inbox, A), e)
      <4>1. PICK a \in S, s \in Seq(S) : a = A /\ s = inbox
        BY <1>3
      <4>2. (s \o <<a>>) \o <<e>> = Append(Append(s, a), e)
        OBVIOUS
      <4> QED
        BY <3>1, <3>2, <4>1, <4>2
    <3> QED
      BY <1>3, <1>4, <2>2, <3>2, <3>3
  <2> QED
    BY <2>1, <2>2
<1>6. \A i \in DOMAIN inbox : inbox[i].kind = "answer" => inbox[i].call \in Slots /\ inbox[i].call # c
  BY <1>1, NoAnswerYet DEF AnswersOK, Answered
<1>7. DOMAIN inbox = 1..n
  BY <1>3, <1>4
<1>8. ASSUME NEW i \in DOMAIN inbox', inbox'[i].kind = "answer"
      PROVE  /\ Answered(inbox[i])'
             /\ \/ i \in 1..n /\ inbox'[i] = inbox[i] /\ inbox'[i].call # c
                \/ i = n + 1 /\ inbox'[i] = A
  <2>1. CASE i \in 1..n /\ inbox'[i] = inbox[i]
    <3>1. Answered(inbox[i]) /\ inbox[i].call \in Slots /\ inbox[i].call # c
      BY <1>1, <1>6, <1>7, <1>8, <2>1 DEF AnswersOK
    <3> QED
      BY <1>2, <2>1, <3>1 DEF Answered
  <2>2. CASE i = n + 1 /\ inbox'[i] = A
    BY <1>2, <2>2 DEF Answered
  <2> QED
    BY <1>5, <1>8, <2>1, <2>2 DEF Events
<1>9. ASSUME NEW i \in DOMAIN inbox', inbox'[i].kind \in Events PROVE inbox'[i].call = None /\ inbox'[i].turn # 0
  BY <1>1, <1>5, <1>7, <1>9 DEF AnswersOK, Events
<1>10. ASSUME NEW i \in DOMAIN inbox', NEW j \in DOMAIN inbox',
              inbox'[i].kind = "answer", inbox'[j].kind = "answer", inbox'[i].call = inbox'[j].call
       PROVE  i = j
  BY <1>1, <1>7, <1>8, <1>10 DEF AnswersOK
<1>11. AnswersOK'
  BY <1>8, <1>9, <1>10 DEF AnswersOK
<1>12. InboxOK'
  BY <1>3, <1>5 DEF InboxOK
<1>13. \A d \in Slots : calls'[d].op = calls[d].op /\ calls'[d].thread = calls[d].thread
  BY <1>1, <1>2
<1> QED
  BY <1>2, <1>11, <1>12, <1>13

\* A turn starts: the types.
LEMMA TurnStartsTypes ==
    ASSUME TypeOK, NEW t \in AllThreads, TurnStarts(t)
    PROVE  /\ turns' \in [AllThreads -> Seq(TurnIds)]
           /\ lastTurn' \in 0..MaxTurns /\ lastTurn' = lastTurn + 1 /\ lastTurn <= lastTurn'
           /\ running' \in [AllThreads -> 0..lastTurn']
           /\ t \in created /\ created' = created /\ subscribed' = subscribed
           /\ created' \subseteq AllThreads /\ subscribed' \subseteq created'
<1>1. PICK n \in 0..MaxTurns : n = lastTurn
  BY DEF TypeOK
<1>2. n + 1 \in TurnIds /\ n + 1 \in 0..MaxTurns /\ 0..n \subseteq 0..(n + 1)
  BY <1>1 DEF TurnStarts, TurnIds
<1>3. turns[t] \in Seq(TurnIds)
  BY DEF TypeOK
<1>4. Append(turns[t], n + 1) \in Seq(TurnIds)
  BY <1>2, <1>3
<1>5. turns' \in [AllThreads -> Seq(TurnIds)]
  BY <1>1, <1>4 DEF TypeOK, TurnStarts
<1>6. running' \in [AllThreads -> 0..(n + 1)]
  BY <1>1, <1>2 DEF TypeOK, TurnStarts
<1> QED
  BY <1>1, <1>2, <1>5, <1>6 DEF TypeOK, TurnStarts

\* The report of a thread has its turns only.
LEMMA ReportTypes ==
    ASSUME TypeOK, NEW t \in AllThreads, \A k \in DOMAIN turns[t] : turns[t][k] \in 1..lastTurn
    PROVE  Report(t) \in Shown
<1>1. PICK n \in Nat : n = Len(turns[t]) /\ DOMAIN turns[t] = 1..n
  BY DEF TypeOK
<1>2. Report(t) \in [1..n -> [id : 1..lastTurn, live : BOOLEAN]]
  BY <1>1 DEF Report
<1> QED
  BY <1>2, SeqDef DEF Shown

\* The server keeps the invariant.
LEMMA ServerKeeps ==
    ASSUME OpenInv, TurnsOK, Server
    PROVE  OpenInv'
<1>1. TypeOK /\ CallsOK /\ InboxOK /\ lastTurn \in Nat
  BY DEF OpenInv, TypeOK
<1>2. ASSUME NEW c \in Slots, ServeResume(c) PROVE OpenInv'
  <2> DEFINE t == calls[c].thread
             A == Answer(c, t, 0, Report(t))
  <2>1. /\ Serve(c, "resume") /\ UNCHANGED <<turns, running, lastTurn, created>>
        /\ subscribed' = subscribed \cup {t} /\ inbox' = Append(inbox, A)
        /\ t \in created /\ UNCHANGED <<linkVars, openVars, pageVars>>
    BY <1>1, <1>2 DEF ServeResume, Serve, CallsOK
  <2>2. Report(t) \in Shown
    BY <1>1, <2>1, ReportTypes DEF TurnsOK, TypeOK
  <2>3. /\ A \in Sent' /\ A.kind = "answer" /\ A.call = c /\ A.turn = 0 /\ A.thread = t
        /\ inbox \in Seq(Sent)'
    BY <1>1, <2>1, <2>2 DEF Answer, Sent, Shown, Kinds, InboxOK
  <2>4. inbox' = (inbox \o <<A>>) \o <<>> /\ <<>> \in Seq(Sent)'
    <3>1. PICK S : S = Sent' /\ Seq(S) = Seq(Sent)'
      OBVIOUS
    <3> HIDE DEF A
    <3>2. PICK a \in S, s \in Seq(S) : a = A /\ s = inbox
      BY <2>3, <3>1
    <3>3. Append(s, a) = (s \o <<a>>) \o <<>> /\ <<>> \in Seq(S)
      OBVIOUS
    <3> QED
      BY <2>1, <3>1, <3>2, <3>3
  <2> HIDE DEF A
  <2>5. /\ InboxOK' /\ AnswersOK'
        /\ calls' \in [Slots -> Calls]
        /\ \A d \in Slots : calls'[d].op = calls[d].op /\ calls'[d].thread = calls[d].thread
    BY <2>1, <2>3, <2>4, AnswerSent
  <2>6. TypeOK' /\ CallsOK' /\ OpenerOK' /\ LatestOpenWins'
    BY <1>1, <2>1, <2>5, ServedTypes DEF TypeOK
  <2> QED
    BY <2>5, <2>6 DEF OpenInv
<1>3. ASSUME NEW c \in Slots, ServeStart(c) PROVE OpenInv'
  <2>1. PICK t \in Fresh \ created :
           /\ Serve(c, "start") /\ UNCHANGED <<turns, running, lastTurn>>
           /\ created' = created \cup {t} /\ subscribed' = subscribed \cup {t}
           /\ inbox' = Append(inbox, Answer(c, t, 0, <<>>))
           /\ UNCHANGED <<linkVars, openVars, pageVars>>
    BY <1>3 DEF ServeStart, Serve
  <2> DEFINE A == Answer(c, t, 0, <<>>)
  <2>2. inbox \in Seq(Sent)'
    BY <1>1, <2>1, InboxGrows
  <2>3. <<>> \in Shown'
    BY EmptySeq DEF Shown
  <2>4. /\ A \in Sent' /\ A.kind = "answer" /\ A.call = c /\ A.turn = 0 /\ A.thread = t
        /\ A.view = <<>>
    BY <1>1, <2>1, <2>3 DEF Answer, Sent, Kinds
  <2>5. inbox' = (inbox \o <<A>>) \o <<>> /\ <<>> \in Seq(Sent)'
    <3>1. PICK S : S = Sent' /\ Seq(S) = Seq(Sent)'
      OBVIOUS
    <3> HIDE DEF A
    <3>2. PICK a \in S, s \in Seq(S) : a = A /\ s = inbox
      BY <2>2, <2>4, <3>1
    <3>3. Append(s, a) = (s \o <<a>>) \o <<>> /\ <<>> \in Seq(S)
      OBVIOUS
    <3>4. inbox' = Append(inbox, A)
      BY <2>1 DEF A
    <3> QED
      BY <3>1, <3>2, <3>3, <3>4
  <2> HIDE DEF A
  <2>6. /\ InboxOK' /\ AnswersOK'
        /\ calls' \in [Slots -> Calls]
        /\ \A d \in Slots : calls'[d].op = calls[d].op /\ calls'[d].thread = calls[d].thread
    BY <2>1, <2>2, <2>4, <2>5, AnswerSent
  <2>7. TypeOK' /\ CallsOK' /\ OpenerOK' /\ LatestOpenWins'
    BY <1>1, <2>1, <2>6, ServedTypes DEF TypeOK, AllThreads
  <2> QED
    BY <2>6, <2>7 DEF OpenInv
<1>4. ASSUME NEW c \in Slots, ServeTurn(c) PROVE OpenInv'
  <2> DEFINE t == calls[c].thread
             u == lastTurn + 1
             A == Answer(c, t, u, <<>>)
             tail == Notify("turn/started", t, u)
  <2>1. /\ Serve(c, "turn") /\ TurnStarts(t) /\ t \in AllThreads
        /\ inbox' = (inbox \o <<A>>) \o tail
        /\ UNCHANGED <<linkVars, openVars, pageVars>>
    BY <1>1, <1>4 DEF ServeTurn, Serve, CallsOK, TypeOK
  <2>2. /\ turns' \in [AllThreads -> Seq(TurnIds)]
        /\ lastTurn' \in 0..MaxTurns /\ lastTurn' = lastTurn + 1 /\ lastTurn <= lastTurn'
        /\ running' \in [AllThreads -> 0..lastTurn']
        /\ t \in created /\ created' = created /\ subscribed' = subscribed
        /\ created' \subseteq AllThreads /\ subscribed' \subseteq created'
    BY <1>1, <2>1, TurnStartsTypes
  <2>3. inbox \in Seq(Sent)'
    BY <1>1, <2>2, InboxGrows
  <2>4. <<>> \in Shown'
    BY EmptySeq DEF Shown
  <2>5. u \in 0..lastTurn' /\ u # 0
    BY <1>1, <2>2
  <2>6. /\ A \in Sent' /\ A.kind = "answer" /\ A.call = c /\ A.turn # 0 /\ A.thread = t
    BY <2>1, <2>2, <2>4, <2>5 DEF Answer, Sent, Kinds
  <2>7. /\ tail \in Seq(Sent)'
        /\ \/ tail = <<>>
           \/ Len(tail) = 1 /\ tail[1].kind \in Events /\ tail[1].call = None /\ tail[1].turn # 0
    <3> DEFINE E == Event("turn/started", t, u)
    <3>1. E \in Sent' /\ E.kind \in Events /\ E.call = None /\ E.turn # 0
      BY <2>2, <2>4, <2>5 DEF Event, Sent, Kinds, Events
    <3>2. tail = <<>> \/ tail = <<E>>
      BY DEF Notify
    <3> HIDE DEF E, tail
    <3>3. PICK S : S = Sent' /\ Seq(S) = Seq(Sent)'
      OBVIOUS
    <3>4. PICK e \in S : e = E
      BY <3>1, <3>3
    <3>5. /\ <<>> \in Seq(S) /\ <<e>> \in Seq(S)
          /\ Len(<<e>>) = 1 /\ <<e>>[1] = e
      OBVIOUS
    <3> QED
      BY <3>1, <3>2, <3>3, <3>4, <3>5
  <2> HIDE DEF A, tail
  <2>8. /\ InboxOK' /\ AnswersOK'
        /\ calls' \in [Slots -> Calls]
        /\ \A d \in Slots : calls'[d].op = calls[d].op /\ calls'[d].thread = calls[d].thread
    BY <2>1, <2>3, <2>6, <2>7, AnswerSent
  <2>9. TypeOK' /\ CallsOK' /\ OpenerOK' /\ LatestOpenWins'
    BY <1>1, <2>1, <2>2, <2>8, ServedTypes
  <2> QED
    BY <2>8, <2>9 DEF OpenInv
<1>5. ASSUME NEW t \in AllThreads, TurnElsewhere(t) PROVE OpenInv'
  <2>1. /\ TurnStarts(t) /\ inbox' = inbox \o Notify("turn/started", t, lastTurn + 1)
        /\ UNCHANGED <<linkVars, calls, openVars, pageVars>>
    BY <1>5 DEF TurnElsewhere
  <2>2. /\ turns' \in [AllThreads -> Seq(TurnIds)]
        /\ lastTurn' \in 0..MaxTurns /\ lastTurn' = lastTurn + 1 /\ lastTurn <= lastTurn'
        /\ running' \in [AllThreads -> 0..lastTurn']
        /\ t \in created /\ created' = created /\ subscribed' = subscribed
        /\ created' \subseteq AllThreads /\ subscribed' \subseteq created'
    BY <1>1, <2>1, TurnStartsTypes
  <2>3. inbox \in Seq(Sent)'
    BY <1>1, <2>2, InboxGrows
  <2>4. lastTurn + 1 \in 1..lastTurn' /\ lastTurn' \in Nat
    BY <1>1, <2>2
  <2>5. InboxOK' /\ AnswersOK'
    BY <2>1, <2>2, <2>3, <2>4, EventSent DEF Events
  <2>6. TypeOK' /\ CallsOK' /\ OpenerOK' /\ LatestOpenWins'
    BY <1>1, <2>1, <2>2, ServedTypes DEF TypeOK
  <2> QED
    BY <2>5, <2>6 DEF OpenInv
<1>6. ASSUME NEW t \in AllThreads, TurnEnds(t) PROVE OpenInv'
  <2>1. /\ running[t] # 0 /\ running' = [running EXCEPT ![t] = 0]
        /\ inbox' = inbox \o Notify("turn/completed", t, running[t])
        /\ UNCHANGED <<turns, lastTurn, created, subscribed, linkVars, calls, openVars, pageVars>>
    BY <1>6 DEF TurnEnds
  <2>2. t \in created /\ running[t] \in 1..lastTurn
    BY <1>1, <2>1 DEF TurnsOK, TypeOK
  <2>3. inbox \in Seq(Sent)'
    BY <1>1, <2>1, InboxGrows
  <2>4. InboxOK' /\ AnswersOK'
    BY <1>1, <2>1, <2>2, <2>3, EventSent DEF Events
  <2>5. running' \in [AllThreads -> 0..lastTurn']
    BY <1>1, <2>1 DEF TypeOK
  <2>6. TypeOK' /\ CallsOK' /\ OpenerOK' /\ LatestOpenWins'
    BY <1>1, <2>1, <2>5, ServedTypes DEF TypeOK
  <2> QED
    BY <2>4, <2>6 DEF OpenInv
<1> QED
  BY <1>2, <1>3, <1>4, <1>5, <1>6 DEF Server

\* Turns stay numbered in order.
LEMMA TurnsKept ==
    ASSUME TypeOK, TurnsOK, Next
    PROVE  TurnsOK'
<1>1. lastTurn \in Nat /\ running \in [AllThreads -> Nat] /\ turns \in [AllThreads -> Seq(TurnIds)]
  BY DEF TypeOK
<1>2. ASSUME NEW t \in AllThreads, TurnStarts(t) PROVE TurnsOK'
  <2>1. PICK n \in Nat : n = lastTurn
    BY <1>1
  <2>2. PICK s \in Seq(TurnIds) : s = turns[t]
    BY <1>1
  <2>3. PICK l \in Nat : l = Len(s) /\ DOMAIN s = 1..l
    OBVIOUS
  <2>4. n + 1 \in TurnIds
    BY <1>2, <2>1 DEF TurnStarts, TurnIds
  <2>5. PICK q : q = Append(s, n + 1)
    OBVIOUS
  <2>6. /\ DOMAIN q = 1..(l + 1) /\ Len(q) = l + 1 /\ q[l + 1] = n + 1
        /\ \A k \in 1..l : q[k] = s[k]
        /\ q # <<>>
    BY <2>3, <2>4, <2>5
  <2>7. /\ turns' = [turns EXCEPT ![t] = q] /\ running' = [running EXCEPT ![t] = n + 1]
        /\ lastTurn' = n + 1 /\ created' = created /\ t \in created
    BY <1>2, <2>1, <2>2, <2>5 DEF TurnStarts
  <2>8. ASSUME NEW r \in AllThreads, r # t
        PROVE  /\ \A k \in DOMAIN turns'[r] : turns'[r][k] \in 1..lastTurn'
               /\ \A k, m \in DOMAIN turns'[r] : k < m => turns'[r][k] < turns'[r][m]
               /\ running'[r] # 0 => turns'[r] # <<>> /\ running'[r] = turns'[r][Len(turns'[r])]
               /\ r \notin created' => turns'[r] = <<>>
    <3>1. turns'[r] = turns[r] /\ running'[r] = running[r]
      BY <1>1, <2>7, <2>8
    <3>2. 1..n \subseteq 1..(n + 1)
      OBVIOUS
    <3> QED
      BY <2>1, <2>7, <3>1, <3>2 DEF TurnsOK
  <2>9. turns'[t] = q /\ running'[t] = n + 1
    BY <1>1, <2>7
  <2>10. \A k \in 1..l : s[k] \in 1..n
    BY <2>1, <2>2, <2>3 DEF TurnsOK
  <2>11. \A k \in 1..(l + 1) : q[k] \in 1..(n + 1)
    <3> SUFFICES ASSUME NEW k \in 1..(l + 1) PROVE q[k] \in 1..(n + 1)
      OBVIOUS
    <3>1. CASE k = l + 1
      BY <2>6, <3>1
    <3>2. CASE k # l + 1
      <4>1. k \in 1..l
        BY <3>2
      <4> QED
        BY <2>6, <2>10, <4>1
    <3> QED
      BY <3>1, <3>2
  <2>12. ASSUME NEW k \in 1..(l + 1), NEW m \in 1..(l + 1), k < m PROVE q[k] < q[m]
    <3>1. k \in 1..l
      BY <2>12
    <3>2. CASE m = l + 1
      BY <2>6, <2>10, <3>1, <3>2
    <3>3. CASE m # l + 1
      <4>1. m \in 1..l
        BY <3>3
      <4> QED
        BY <2>2, <2>3, <2>6, <2>12, <3>1, <4>1 DEF TurnsOK
    <3> QED
      BY <3>2, <3>3
  <2> QED
    BY <2>6, <2>7, <2>8, <2>9, <2>11, <2>12 DEF TurnsOK
<1>3. ASSUME UNCHANGED <<turns, lastTurn, created>>,
             \A t \in AllThreads : running'[t] = 0 \/ running'[t] = running[t]
      PROVE  TurnsOK'
  BY <1>3 DEF TurnsOK
<1>4. ASSUME UNCHANGED <<turns, running, lastTurn>>, created \subseteq created' PROVE TurnsOK'
  BY <1>4 DEF TurnsOK
<1>5. ASSUME UNCHANGED serverVars PROVE TurnsOK'
  BY <1>5 DEF TurnsOK, serverVars
<1>6. CASE User
  BY <1>5, <1>6 DEF User, OpenThread, StartThread, SendFirstMessage, StartTurn, Begin
<1>7. CASE Server
  <2>1. ASSUME NEW c \in Slots, ServeTurn(c) PROVE TurnsOK'
    <3>1. calls[c].thread \in AllThreads
      BY <2>1 DEF ServeTurn, Serve, TypeOK
    <3> QED
      BY <1>2, <2>1, <3>1 DEF ServeTurn
  <2>2. ASSUME NEW c \in Slots, ServeResume(c) \/ ServeStart(c) PROVE TurnsOK'
    <3>1. UNCHANGED <<turns, running, lastTurn>> /\ created \subseteq created'
      BY <2>2 DEF ServeResume, ServeStart
    <3> QED
      BY <1>4, <3>1
  <2>3. ASSUME NEW t \in AllThreads, TurnElsewhere(t) PROVE TurnsOK'
    BY <1>2, <2>3 DEF TurnElsewhere
  <2>4. ASSUME NEW t \in AllThreads, TurnEnds(t) PROVE TurnsOK'
    <3>1. UNCHANGED <<turns, lastTurn, created>> /\ running' = [running EXCEPT ![t] = 0]
      BY <2>4 DEF TurnEnds
    <3>2. \A r \in AllThreads : running'[r] = 0 \/ running'[r] = running[r]
      BY <1>1, <3>1
    <3> QED
      BY <1>3, <3>1, <3>2
  <2> QED
    BY <1>7, <2>1, <2>2, <2>3, <2>4 DEF Server
<1>8. CASE Page
  <2>1. ASSUME Lost PROVE TurnsOK'
    <3>1. UNCHANGED <<turns, running, lastTurn>> /\ created \subseteq created'
      BY <2>1 DEF Lost
    <3> QED
      BY <1>4, <3>1
  <2>2. ASSUME Ready PROVE TurnsOK'
    BY <1>5, <2>2 DEF Ready, Begin
  <2>3. ASSUME \/ ResumeAnswered \/ StartAnswered \/ TurnAnswered
               \/ TurnStarted \/ TurnCompleted
               \/ \E c \in Slots : ReadAnswered(c) \/ Fails(c)
        PROVE  TurnsOK'
    <3>1. UNCHANGED serverVars
      BY <2>3 DEF ResumeAnswered, StartAnswered, TurnAnswered, TurnStarted, TurnCompleted,
                  ReadAnswered, Fails, AnswerTo, Receive
    <3> QED
      BY <1>5, <3>1
  <2> QED
    BY <1>8, <2>1, <2>2, <2>3 DEF Page
<1> QED
  BY <1>6, <1>7, <1>8 DEF Next

\* findActiveTurn finds a turn in progress when there is one.
LEMMA FindsActiveTurn ==
    ASSUME NEW S, NEW v \in Seq(S)
    PROVE  /\ (\E k \in DOMAIN v : v[k].live) => \E k \in DOMAIN v : v[k].live /\ FindActiveTurn(v) = v[k].id
           /\ ~(\E k \in DOMAIN v : v[k].live) => FindActiveTurn(v) = 0
<1>1. PICK T : T = {turn \in Range(v) : turn.live}
  OBVIOUS
<1>2. PICK q : q = Keep(v, T)
  OBVIOUS
<1>3. /\ q \in Seq(S \cap T)
      /\ \A k \in DOMAIN q : \E i \in DOMAIN v : q[k] = v[i]
      /\ \A i \in DOMAIN v : v[i] \in T => \E k \in DOMAIN q : q[k] = v[i]
  <2>2. /\ Keep(v, T) \in Seq(S \cap T)
        /\ \A k \in DOMAIN Keep(v, T) : \E i \in DOMAIN v : Keep(v, T)[k] = v[i]
        /\ \A i \in DOMAIN v : v[i] \in T => \E k \in DOMAIN Keep(v, T) : Keep(v, T)[k] = v[i]
    BY KeepMembers
  <2> QED
    BY <1>2, <2>2
<1>4. FindActiveTurn(v) = IF q = <<>> THEN 0 ELSE Last(q).id
  BY <1>1, <1>2 DEF FindActiveTurn
<1>5. \A i \in DOMAIN v : v[i].live => v[i] \in T
  BY <1>1 DEF Range
<1>6. \A k \in DOMAIN q : q[k].live
  BY <1>1, <1>3
<1>7. CASE q = <<>>
  <2>1. ~ \E k \in DOMAIN v : v[k].live
    BY <1>3, <1>5, <1>7
  <2> QED
    BY <1>4, <1>7, <2>1
<1>8. CASE q # <<>>
  <2>1. Len(q) \in DOMAIN q /\ Last(q) = q[Len(q)]
    BY <1>3, <1>8 DEF Last
  <2>2. PICK i \in DOMAIN v : q[Len(q)] = v[i]
    BY <1>3, <2>1
  <2>3. v[i].live /\ FindActiveTurn(v) = v[i].id
    BY <1>4, <1>6, <1>8, <2>1, <2>2
  <2> QED
    BY <1>5, <2>3
<1> QED
  BY <1>7, <1>8

\* The first message of the inbox, an answer.
LEMMA AnswerTaken ==
    ASSUME OpenInv, NEW op \in {"resume", "start", "turn"}, AnswerTo(op)
    PROVE  /\ Head(inbox) = inbox[1] /\ 1 \in DOMAIN inbox /\ Head(inbox) \in Sent
           /\ Head(inbox).kind = "answer" /\ Head(inbox).call \in Slots
           /\ calls[Head(inbox).call].op = op /\ Answered(Head(inbox))
           /\ InboxOK'
           /\ UNCHANGED <<serverVars, linkVars>>
           /\ \A w \in Calls :
                 calls' = [calls EXCEPT ![Head(inbox).call] = w] => AnswersOK'
<1>1. /\ TypeOK /\ InboxOK /\ AnswersOK /\ inbox # <<>> /\ inbox' = Tail(inbox)
      /\ Head(inbox).kind = "answer" /\ calls[Head(inbox).call].op = op
      /\ UNCHANGED <<serverVars, linkVars>>
  BY DEF OpenInv, AnswerTo, Receive
<1>2. /\ inbox' \in Seq(Sent)
      /\ Selected([k \in DOMAIN inbox' |-> k + 1])
      /\ 1 \in DOMAIN inbox /\ Head(inbox) = inbox[1] /\ inbox[1] \in Sent
  BY <1>1, SelectsTail
<1>3. Answered(Head(inbox)) /\ Head(inbox).call \in Slots
  BY <1>1, <1>2 DEF AnswersOK, Answered
<1>4. InboxOK'
  BY <1>1, <1>2 DEF InboxOK, Sent, Shown, serverVars
<1>5. ASSUME NEW w \in Calls, calls' = [calls EXCEPT ![Head(inbox).call] = w]
      PROVE  AnswersOK'
  <2> DEFINE h == [k \in DOMAIN inbox' |-> k + 1]
  <2>1. /\ \A k \in DOMAIN inbox' : h[k] # 1 /\ inbox'[k] = inbox[h[k]] /\ h[k] \in DOMAIN inbox
        /\ Selected(h)
    BY <1>2 DEF Selected
  <2> HIDE DEF h
  <2>2. \A k \in DOMAIN inbox' : inbox'[k].kind = "answer" =>
             inbox'[k].call # Head(inbox).call /\ inbox'[k].call \in Slots
    BY <1>1, <1>2, <2>1 DEF AnswersOK, Answered
  <2>3. \A d \in Slots : d # Head(inbox).call => calls'[d] = calls[d]
    BY <1>1, <1>3, <1>5 DEF TypeOK
  <2> QED
    BY <1>1, <1>2, <2>1, <2>2, <2>3, AnswersStay
<1> QED
  BY <1>1, <1>2, <1>3, <1>4, <1>5

\* What becomes of a call: it is over, or goes on with a turn for the thread
\* shown.
LEMMA ThenSends ==
    ASSUME NEW c \in Slots, ThenSend(c), calls \in [Slots -> Calls],
           active' \in created \cup {None}, created \subseteq AllThreads
    PROVE  \E w \in Calls : /\ calls' = [calls EXCEPT ![c] = w]
                            /\ w.op \in {"none", "turn"}
                            /\ w.op = "turn" => w.thread \in created
<1>1. CASE calls[c].ask /\ active' # None /\ FindActiveTurn(view') = 0
  <2>1. PICK w : w = Await("turn", active', TRUE)
    OBVIOUS
  <2>2. w \in Calls /\ w.op = "turn" /\ w.thread \in created
    BY <1>1, <2>1 DEF Await, Calls, Ops
  <2>3. calls' = [calls EXCEPT ![c] = w]
    BY <1>1, <2>1 DEF ThenSend
  <2> QED
    BY <2>2, <2>3
<1>2. CASE ~(calls[c].ask /\ active' # None /\ FindActiveTurn(view') = 0)
  <2>1. NoCall \in Calls /\ NoCall.op = "none"
    BY DEF NoCall, Calls, Ops
  <2>2. calls' = [calls EXCEPT ![c] = NoCall]
    BY <1>2 DEF ThenSend
  <2> QED
    BY <2>1, <2>2
<1> QED
  BY <1>1, <1>2

\* A call ends, whatever becomes of it, with the loading if it was the
\* latest.
LEMMA CallEnds ==
    ASSUME OpenInv, NEW c \in Slots, NEW w \in Calls, calls' = [calls EXCEPT ![c] = w],
           w.op \in {"none", "turn"}, w.op = "turn" => w.thread \in created,
           UNCHANGED <<serverVars, linkVars>>,
           IF c = opener THEN Loaded ELSE UNCHANGED <<opener, loading>>
    PROVE  /\ calls' \in [Slots -> Calls]
           /\ \A d \in Slots : calls'[d].op = "turn" => calls'[d].thread \in created'
           /\ CallsOK'
           /\ wanted' = wanted \/ c = opener => OpenerOK'
<1>1. TypeOK /\ CallsOK /\ OpenerOK
  BY DEF OpenInv
<1>2. /\ calls' \in [Slots -> Calls]
      /\ \A d \in Slots : calls'[d] = IF d = c THEN w ELSE calls[d]
  BY <1>1 DEF TypeOK
<1>3. \A d \in Slots : calls'[d].op = "turn" => calls'[d].thread \in created'
  BY <1>1, <1>2 DEF TypeOK, serverVars
<1>4. CallsOK'
  BY <1>1, <1>2 DEF CallsOK, serverVars
<1>5. ASSUME wanted' = wanted \/ c = opener PROVE OpenerOK'
  <2>1. CASE c = opener
    BY <2>1 DEF OpenerOK, Loaded
  <2>2. CASE c # opener
    BY <1>1, <1>2, <1>5, <2>2 DEF OpenerOK, Opening
  <2> QED
    BY <2>1, <2>2
<1> QED
  BY <1>2, <1>3, <1>4, <1>5

\* What the page is told of a thread, and the turn it finds in progress there.
LEMMA ShownTypes ==
    ASSUME TypeOK, NEW v, v \in Shown
    PROVE  /\ v \in Views
           /\ FindActiveTurn(v) \in 0..lastTurn
           /\ (\E k \in DOMAIN v : v[k].live) => \E k \in DOMAIN v : v[k].live /\ FindActiveTurn(v) = v[k].id
           /\ ~(\E k \in DOMAIN v : v[k].live) => FindActiveTurn(v) = 0
<1> DEFINE S == [id : 1..lastTurn, live : BOOLEAN]
           T == [id : TurnIds, live : BOOLEAN]
<1>1. v \in Seq(S) /\ Views = Seq(T)
  BY DEF Shown, Views
<1>2. S \subseteq T /\ \A x \in S : x.id \in 0..lastTurn
  BY DEF TypeOK, TurnIds
<1>3. 0 \in 0..lastTurn
  BY DEF TypeOK
<1> HIDE DEF S, T
<1>4. /\ (\E k \in DOMAIN v : v[k].live) => \E k \in DOMAIN v : v[k].live /\ FindActiveTurn(v) = v[k].id
      /\ ~(\E k \in DOMAIN v : v[k].live) => FindActiveTurn(v) = 0
  BY <1>1, FindsActiveTurn
<1>5. v \in Views
  BY <1>1, <1>2, SeqMonotone
<1>6. \A k \in DOMAIN v : v[k] \in S
  BY <1>1
<1> QED
  BY <1>2, <1>3, <1>4, <1>5, <1>6

\* The answer to thread/resume.
LEMMA ResumeAnsweredKeeps ==
    ASSUME OpenInv, ResumeAnswered
    PROVE  OpenInv'
<1> DEFINE m == Head(inbox)
           c == m.call
<1>1. /\ TypeOK /\ OpenerOK /\ LatestOpenWins /\ AnswerTo("resume")
      /\ calls' = [calls EXCEPT ![c] = NoCall]
  BY DEF OpenInv, ResumeAnswered
<1>2. /\ m \in Sent /\ c \in Slots /\ calls[c].op = "resume" /\ Answered(m) /\ InboxOK'
      /\ UNCHANGED <<serverVars, linkVars>>
      /\ \A w \in Calls : calls' = [calls EXCEPT ![c] = w] => AnswersOK'
  BY <1>1, AnswerTaken
<1>3. NoCall \in Calls /\ NoCall.op = "none"
  BY DEF NoCall, Calls, Ops
<1>4. AnswersOK'
  BY <1>1, <1>2, <1>3
<1>5. \/ /\ c # opener
         /\ UNCHANGED <<openVars, pageVars>>
      \/ /\ c = opener
         /\ Loaded
         /\ active' = m.thread /\ loaded' = TRUE /\ view' = m.view
         /\ activeTurn' = FindActiveTurn(m.view)
         /\ synced' = TRUE /\ crossed' = FALSE
         /\ UNCHANGED wanted
  BY DEF ResumeAnswered, IsLatest
<1> HIDE DEF m, c
<1>6. /\ calls' \in [Slots -> Calls]
      /\ \A d \in Slots : calls'[d].op = "turn" => calls'[d].thread \in created'
      /\ CallsOK' /\ OpenerOK'
  <2>1. IF c = opener THEN Loaded ELSE UNCHANGED <<opener, loading>>
    BY <1>5 DEF openVars
  <2>2. wanted' = wanted
    BY <1>5 DEF openVars
  <2> QED
    BY <1>1, <1>2, <1>3, <2>1, <2>2, CallEnds
<1>7. CASE c # opener /\ UNCHANGED <<openVars, pageVars>>
  <2>1. TypeOK'
    BY <1>1, <1>2, <1>6, <1>7 DEF TypeOK, serverVars, linkVars, openVars, pageVars
  <2>2. LatestOpenWins'
    BY <1>1, <1>7 DEF LatestOpenWins, openVars, pageVars
  <2> QED
    BY <1>2, <1>4, <1>6, <2>1, <2>2 DEF OpenInv
<1>8. CASE /\ c = opener
           /\ Loaded
           /\ active' = m.thread /\ loaded' = TRUE /\ view' = m.view
           /\ activeTurn' = FindActiveTurn(m.view)
           /\ synced' = TRUE /\ crossed' = FALSE
           /\ UNCHANGED wanted
  <2>1. m.thread \in created /\ m.thread = calls[c].thread
    BY <1>2 DEF Sent, Answered, c
  <2>2. FindActiveTurn(m.view) \in 0..lastTurn /\ m.view \in Views
    <3>1. m.view \in Shown
      BY <1>2 DEF Sent
    <3> QED
      BY <1>1, <3>1, ShownTypes
  <2>3. TypeOK'
    BY <1>1, <1>2, <1>6, <1>8, <2>1, <2>2 DEF TypeOK, serverVars, linkVars, Loaded
  <2>4. LatestOpenWins'
    BY <1>1, <1>2, <1>8, <2>1 DEF LatestOpenWins, OpenerOK
  <2> QED
    BY <1>2, <1>4, <1>6, <2>3, <2>4 DEF OpenInv
<1> QED
  BY <1>5, <1>7, <1>8

\* The answer to thread/start.
LEMMA StartAnsweredKeeps ==
    ASSUME OpenInv, StartAnswered
    PROVE  OpenInv'
<1> DEFINE m == Head(inbox)
           c == m.call
<1>1. TypeOK /\ OpenerOK /\ LatestOpenWins /\ AnswerTo("start") /\ ThenSend(c)
  BY DEF OpenInv, StartAnswered
<1>2. /\ m \in Sent /\ c \in Slots /\ calls[c].op = "start" /\ Answered(m) /\ InboxOK'
      /\ UNCHANGED <<serverVars, linkVars>>
      /\ \A w \in Calls : calls' = [calls EXCEPT ![c] = w] => AnswersOK'
  BY <1>1, AnswerTaken
<1>3. \/ /\ c # opener
         /\ UNCHANGED <<openVars, pageVars>>
      \/ /\ c = opener
         /\ Loaded
         /\ active' = m.thread /\ loaded' = TRUE /\ view' = <<>>
         /\ synced' = TRUE /\ crossed' = (activeTurn # 0)
         /\ UNCHANGED <<activeTurn, wanted>>
  BY DEF StartAnswered, IsLatest
<1>4. m.thread \in created /\ m.thread \in Fresh
  BY <1>2 DEF Sent, Answered
<1> HIDE DEF m, c
<1>5. active' \in created \cup {None}
  BY <1>1, <1>3, <1>4 DEF TypeOK, pageVars
<1>6. PICK w \in Calls : /\ calls' = [calls EXCEPT ![c] = w]
                         /\ w.op \in {"none", "turn"}
                         /\ w.op = "turn" => w.thread \in created
  <2>1. calls \in [Slots -> Calls] /\ created \subseteq AllThreads
    BY <1>1 DEF TypeOK
  <2> QED
    BY <1>1, <1>2, <1>5, <2>1, ThenSends
<1>7. AnswersOK'
  BY <1>2, <1>6
<1>8. /\ calls' \in [Slots -> Calls]
      /\ \A d \in Slots : calls'[d].op = "turn" => calls'[d].thread \in created'
      /\ CallsOK' /\ OpenerOK'
  <2>1. IF c = opener THEN Loaded ELSE UNCHANGED <<opener, loading>>
    BY <1>3 DEF openVars
  <2>2. wanted' = wanted
    BY <1>3 DEF openVars
  <2> QED
    BY <1>2, <1>6, <2>1, <2>2, CallEnds
<1>9. CASE c # opener /\ UNCHANGED <<openVars, pageVars>>
  <2>1. TypeOK'
    BY <1>1, <1>2, <1>8, <1>9 DEF TypeOK, serverVars, linkVars, openVars, pageVars
  <2>2. LatestOpenWins'
    BY <1>1, <1>9 DEF LatestOpenWins, openVars, pageVars
  <2> QED
    BY <1>2, <1>7, <1>8, <2>1, <2>2 DEF OpenInv
<1>10. CASE /\ c = opener
            /\ Loaded
            /\ active' = m.thread /\ loaded' = TRUE /\ view' = <<>>
            /\ synced' = TRUE /\ crossed' = (activeTurn # 0)
            /\ UNCHANGED <<activeTurn, wanted>>
  <2>1. view' \in Views
    <3>1. <<>> \in Views
      BY EmptySeq, Zenon DEF Views
    <3> QED
      BY <1>10, <3>1
  <2>2. crossed' \in BOOLEAN
    BY <1>10, Zenon
  <2>3. TypeOK'
    BY <1>1, <1>2, <1>4, <1>8, <1>10, <2>1, <2>2 DEF TypeOK, serverVars, linkVars, Loaded
  <2>4. LatestOpenWins'
    BY <1>1, <1>2, <1>4, <1>10 DEF LatestOpenWins, OpenerOK
  <2> QED
    BY <1>2, <1>7, <1>8, <2>3, <2>4 DEF OpenInv
<1> QED
  BY <1>3, <1>9, <1>10

\* upsertTurn keeps the type of the turns shown.
LEMMA UpsertTypes ==
    ASSUME TypeOK, NEW u \in 1..lastTurn, NEW live \in BOOLEAN, UpsertTurn(u, live)
    PROVE  view' \in Views
<1> DEFINE turn == [id |-> u, live |-> live]
           T == [id : TurnIds, live : BOOLEAN]
<1>1. turn \in T /\ view \in Seq(T)
  BY DEF TypeOK, TurnIds, Views
<1>2. \/ view' = view
      \/ view' = [i \in DOMAIN view |-> IF view[i].id = u THEN turn ELSE view[i]]
      \/ view' = Append(view, turn)
  BY DEF UpsertTurn
<1> HIDE DEF turn, T
<1>3. view' \in Seq(T)
  <2>1. PICK x \in T, s \in Seq(T) : x = turn /\ s = view
    BY <1>1
  <2>2. PICK n \in Nat : n = Len(s) /\ DOMAIN s = 1..n /\ \A i \in 1..n : s[i] \in T
    BY <2>1
  <2>3. [i \in 1..n |-> IF s[i].id = u THEN x ELSE s[i]] \in [1..n -> T]
    BY <2>2
  <2>4. [i \in 1..n |-> IF s[i].id = u THEN x ELSE s[i]] \in Seq(T)
    BY <2>2, <2>3, SeqDef
  <2>5. Append(s, x) \in Seq(T)
    OBVIOUS
  <2> QED
    BY <1>2, <2>1, <2>2, <2>4, <2>5
<1> QED
  BY <1>3 DEF Views, T

\* The answer to turn/start or review/start.
LEMMA TurnAnsweredKeeps ==
    ASSUME OpenInv, TurnAnswered
    PROVE  OpenInv'
<1> DEFINE m == Head(inbox)
           c == m.call
<1>1. /\ TypeOK /\ OpenerOK /\ LatestOpenWins /\ AnswerTo("turn")
      /\ calls' = [calls EXCEPT ![c] = NoCall]
      /\ UpsertTurn(m.turn, TRUE) /\ activeTurn' = m.turn
      /\ crossed' = (crossed \/ m.thread # active)
      /\ UNCHANGED <<openVars, active, loaded, synced>>
  BY DEF OpenInv, TurnAnswered
<1>2. /\ m \in Sent /\ c \in Slots /\ calls[c].op = "turn" /\ Answered(m) /\ InboxOK'
      /\ UNCHANGED <<serverVars, linkVars>>
      /\ \A w \in Calls : calls' = [calls EXCEPT ![c] = w] => AnswersOK'
  BY <1>1, AnswerTaken
<1>3. NoCall \in Calls /\ NoCall.op = "none"
  BY DEF NoCall, Calls, Ops
<1>4. AnswersOK'
  BY <1>1, <1>2, <1>3
<1>5. m.turn \in 1..lastTurn /\ lastTurn \in Nat
  BY <1>1, <1>2 DEF Sent, Answered, TypeOK
<1> HIDE DEF m, c
<1>6. c # opener
  BY <1>1, <1>2 DEF OpenerOK, Opening
<1>7. /\ calls' \in [Slots -> Calls]
      /\ \A d \in Slots : calls'[d].op = "turn" => calls'[d].thread \in created'
      /\ CallsOK' /\ OpenerOK'
  <2>1. UNCHANGED <<opener, loading>> /\ wanted' = wanted
    BY <1>1 DEF openVars
  <2> QED
    BY <1>1, <1>2, <1>3, <1>6, <2>1, CallEnds
<1>8. view' \in Views
  BY <1>1, <1>5, UpsertTypes
<1>9. crossed' \in BOOLEAN
  BY <1>1, Zenon DEF TypeOK
<1>10. TypeOK'
  BY <1>1, <1>2, <1>5, <1>7, <1>8, <1>9 DEF TypeOK, serverVars, linkVars, openVars
<1>11. LatestOpenWins'
  BY <1>1 DEF LatestOpenWins, openVars
<1> QED
  BY <1>2, <1>4, <1>7, <1>10, <1>11 DEF OpenInv

\* turn/started and turn/completed; no call changes.
LEMMA EventTaken ==
    ASSUME OpenInv, NEW kind \in Events, NEW live \in BOOLEAN, NEW a \in {0, Head(inbox).turn},
           Receive(kind),
           IF InScope
           THEN UpsertTurn(Head(inbox).turn, live) /\ activeTurn' = a
           ELSE UNCHANGED <<view, activeTurn>>,
           UNCHANGED <<calls, openVars, active, loaded, synced, crossed>>
    PROVE  OpenInv'
<1> DEFINE m == Head(inbox)
<1>1. /\ TypeOK /\ InboxOK /\ AnswersOK /\ inbox # <<>> /\ inbox' = Tail(inbox)
      /\ UNCHANGED <<serverVars, linkVars>> /\ OpenerOK /\ LatestOpenWins /\ CallsOK
  BY DEF OpenInv, Receive
<1>2. /\ inbox' \in Seq(Sent)
      /\ Selected([k \in DOMAIN inbox' |-> k + 1])
      /\ 1 \in DOMAIN inbox /\ m = inbox[1] /\ inbox[1] \in Sent
  BY <1>1, SelectsTail
<1>3. InboxOK'
  BY <1>1, <1>2 DEF InboxOK, Sent, Shown, serverVars
<1>4. AnswersOK'
  BY <1>1, <1>2, AnswersStay
<1>5. m.turn \in 1..lastTurn /\ lastTurn \in Nat
  <2>1. m.kind \in Events
    BY DEF Receive
  <2>2. m.turn # 0
    BY <1>1, <1>2, <2>1 DEF AnswersOK
  <2> QED
    BY <1>1, <1>2, <2>2 DEF Sent, TypeOK
<1> HIDE DEF m
<1>6. view' \in Views /\ activeTurn' \in 0..lastTurn
  <2>1. CASE InScope
    <3>1. view' \in Views
      BY <1>1, <1>5, <2>1, UpsertTypes DEF m
    <3> QED
      BY <1>5, <2>1, <3>1 DEF m
  <2>2. CASE ~InScope
    BY <1>1, <2>2 DEF TypeOK
  <2> QED
    BY <2>1, <2>2
<1>7. TypeOK'
  BY <1>1, <1>6 DEF TypeOK, serverVars, linkVars, openVars
<1>8. CallsOK' /\ OpenerOK' /\ LatestOpenWins'
  BY <1>1 DEF CallsOK, OpenerOK, Opening, LatestOpenWins, openVars, serverVars
<1> QED
  BY <1>3, <1>4, <1>7, <1>8 DEF OpenInv

\* thread/read answered.
LEMMA ReadAnsweredKeeps ==
    ASSUME OpenInv, NEW c \in Slots, ReadAnswered(c)
    PROVE  OpenInv'
<1> DEFINE w == Await("resume", calls[c].thread, FALSE)
<1>1. /\ TypeOK /\ InboxOK /\ CallsOK /\ AnswersOK /\ OpenerOK /\ LatestOpenWins
      /\ calls[c].op = "read" /\ calls' = [calls EXCEPT ![c] = w]
      /\ UNCHANGED <<serverVars, inbox, linkVars, openVars, pageVars>>
  BY DEF OpenInv, ReadAnswered, TypeOK
<1>2. w \in Calls /\ w.op = "resume" /\ w.thread = calls[c].thread /\ w.thread \in created
  BY <1>1 DEF Await, Calls, Ops, TypeOK, AllThreads, CallsOK
<1> HIDE DEF w
<1>3. /\ calls' \in [Slots -> Calls]
      /\ \A d \in Slots : calls'[d] = IF d = c THEN w ELSE calls[d]
      /\ \A d \in Slots : calls'[d].op \in {"read", "resume", "turn"} => calls'[d].thread \in created
  BY <1>1, <1>2, Opened
<1>4. TypeOK'
  BY <1>1, <1>2, <1>3 DEF TypeOK, serverVars, pageVars, linkVars, openVars
<1>5. InboxOK'
  BY <1>1 DEF InboxOK, Sent, Shown, serverVars
<1>6. CallsOK'
  BY <1>1, <1>3 DEF CallsOK, serverVars
<1>7. AnswersOK'
  <2>1. \A i \in DOMAIN inbox : inbox[i].kind = "answer" => inbox[i].call \in Slots /\ inbox[i].call # c
    BY <1>1, NoAnswerYet DEF AnswersOK, Answered
  <2>2. Selected([k \in DOMAIN inbox |-> k]) /\ inbox' = inbox /\ inbox \in Seq(Sent)
    BY <1>1, SelectsAll DEF InboxOK
  <2> QED
    BY <1>1, <1>3, <2>1, <2>2, AnswersStay
<1>8. OpenerOK'
  BY <1>1, <1>2, <1>3 DEF OpenerOK, Opening, openVars
<1>9. LatestOpenWins'
  BY <1>1 DEF LatestOpenWins, openVars, pageVars
<1> QED
  BY <1>4, <1>5, <1>6, <1>7, <1>8, <1>9 DEF OpenInv

\* A call fails; its answer, if there is one on its way, finds no call.
LEMMA FailsKeeps ==
    ASSUME OpenInv, NEW c \in Slots, Fails(c)
    PROVE  OpenInv'
<1> DEFINE T == {m \in Range(inbox) : m.call # c}
<1>1. /\ TypeOK /\ InboxOK /\ AnswersOK /\ OpenerOK /\ LatestOpenWins
      /\ inbox' = Keep(inbox, T) /\ ThenSend(c)
      /\ UNCHANGED <<serverVars, linkVars, pageVars>>
      /\ IF c = opener THEN Loaded /\ wanted' = "any" ELSE UNCHANGED openVars
  BY DEF OpenInv, Fails, IsLatest
<1>2. \A m \in T : m.call # c
  OBVIOUS
<1> HIDE DEF T
<1>3. /\ inbox' \in Seq(Sent)
      /\ \A k \in DOMAIN inbox' : inbox'[k] \in T
  BY <1>1, SelectsKept
<1>4. PICK h : Selected(h)
  BY <1>1, SelectsKept
<1>5. PICK w \in Calls : /\ calls' = [calls EXCEPT ![c] = w]
                         /\ w.op \in {"none", "turn"}
                         /\ w.op = "turn" => w.thread \in created
  <2>1. /\ calls \in [Slots -> Calls] /\ created \subseteq AllThreads
        /\ active' \in created \cup {None}
    BY <1>1 DEF TypeOK, pageVars
  <2> QED
    BY <1>1, <2>1, ThenSends
<1>6. InboxOK'
  BY <1>1, <1>3 DEF InboxOK, Sent, Shown, serverVars
<1>7. AnswersOK'
  <2>1. \A d \in Slots : d # c => calls'[d] = calls[d]
    BY <1>1, <1>5 DEF TypeOK
  <2>2. ASSUME NEW k \in DOMAIN inbox', inbox'[k].kind = "answer"
        PROVE  calls'[inbox'[k].call] = calls[inbox'[k].call]
    <3>1. inbox'[k].call # c
      BY <1>2, <1>3
    <3>2. inbox'[k].call \in Slots
      BY <1>1, <1>4, <2>2 DEF AnswersOK, Answered, Selected
    <3> QED
      BY <2>1, <3>1, <3>2
  <2> QED
    BY <1>1, <1>3, <1>4, <2>2, AnswersStay
<1>8. /\ calls' \in [Slots -> Calls]
      /\ \A d \in Slots : calls'[d].op = "turn" => calls'[d].thread \in created'
      /\ CallsOK' /\ OpenerOK'
  <2>1. IF c = opener THEN Loaded ELSE UNCHANGED <<opener, loading>>
    BY <1>1 DEF openVars
  <2>2. wanted' = wanted \/ c = opener
    BY <1>1 DEF openVars
  <2> QED
    BY <1>1, <1>5, <2>1, <2>2, CallEnds
<1>9. TypeOK'
  <2>1. opener' \in Slots \cup {None} /\ loading' \in BOOLEAN /\ wanted' \in AllThreads \cup {"any", "new"}
    BY <1>1 DEF TypeOK, Loaded, openVars
  <2> QED
    BY <1>1, <1>8, <2>1 DEF TypeOK, serverVars, linkVars, pageVars
<1>10. LatestOpenWins'
  BY <1>1 DEF LatestOpenWins, openVars, pageVars
<1> QED
  BY <1>6, <1>7, <1>8, <1>9, <1>10 DEF OpenInv

\* The connection is lost.
LEMMA LostKeeps ==
    ASSUME OpenInv, Lost
    PROVE  OpenInv'
<1>1. TypeOK /\ LatestOpenWins
  BY DEF OpenInv
<1>2. /\ connected' = FALSE /\ losses < MaxLosses /\ losses' = losses + 1
      /\ inbox' = <<>> /\ subscribed' = {} /\ synced' = FALSE
      /\ calls' = [c \in Slots |-> NoCall]
      /\ opener' = None /\ loading' = FALSE
      /\ wanted' = IF loading THEN "any" ELSE wanted
      /\ UNCHANGED <<turns, running, lastTurn, created,
                     active, loaded, view, activeTurn, crossed>>
  BY DEF Lost
<1>3. NoCall \in Calls /\ NoCall.op = "none"
  BY DEF NoCall, Calls, Ops
<1>4. inbox' \in Seq(Sent)'
  <2>1. PICK S : S = Sent' /\ Seq(S) = Seq(Sent)'
    OBVIOUS
  <2>2. <<>> \in Seq(S)
    OBVIOUS
  <2> QED
    BY <1>2, <2>1, <2>2
<1>5. connected' \in BOOLEAN /\ loading' \in BOOLEAN /\ synced' \in BOOLEAN
  BY <1>2, Zenon
<1>6. losses' \in 0..MaxLosses
  BY <1>1, <1>2 DEF TypeOK
<1>7. TypeOK'
  BY <1>1, <1>2, <1>3, <1>5, <1>6 DEF TypeOK
<1>8. CallsOK' /\ OpenerOK'
  BY <1>2, <1>3 DEF CallsOK, OpenerOK
<1>9. AnswersOK'
  <2>1. DOMAIN inbox' = {}
    BY <1>2
  <2> QED
    BY <2>1 DEF AnswersOK
<1>10. LatestOpenWins'
  BY <1>1, <1>2 DEF LatestOpenWins
<1> QED
  BY <1>4, <1>7, <1>8, <1>9, <1>10 DEF OpenInv, InboxOK

\* What the user asks for, and the page once it is connected.
LEMMA UserKeeps ==
    ASSUME OpenInv, User \/ Ready
    PROVE  OpenInv'
<1>1. ASSUME NEW c \in Slots, NEW t \in created, OpenThread(c, t) PROVE OpenInv'
  BY <1>1, BeginKeeps DEF OpenThread, linkVars, OpenInv, TypeOK
<1>2. ASSUME NEW c \in Slots, StartThread(c) PROVE OpenInv'
  BY <1>2, BeginKeeps DEF StartThread, linkVars, OpenInv, TypeOK
<1>3. ASSUME NEW c \in Slots, SendFirstMessage(c) PROVE OpenInv'
  BY <1>3, BeginKeeps DEF SendFirstMessage, linkVars, OpenInv, TypeOK
<1>4. ASSUME Ready PROVE OpenInv'
  <2>1. connected' = TRUE /\ losses' = losses
    BY <1>4 DEF Ready
  <2>2. CASE active = None
    <3>1. UNCHANGED <<serverVars, inbox, calls, openVars, pageVars>>
      BY <1>4, <2>2 DEF Ready
    <3>2. TypeOK'
      BY <2>1, <3>1 DEF OpenInv, TypeOK, serverVars, openVars, pageVars
    <3>3. InboxOK' /\ CallsOK' /\ OpenerOK' /\ LatestOpenWins'
      BY <3>1 DEF OpenInv, InboxOK, Sent, Shown, CallsOK, OpenerOK, Opening, LatestOpenWins,
                  serverVars, openVars, pageVars
    <3>4. AnswersOK'
      BY <3>1 DEF OpenInv, AnswersOK, Answered
    <3> QED
      BY <3>2, <3>3, <3>4 DEF OpenInv
  <2>3. CASE active # None
    <3>1. PICK c \in Slots : Begin(c, "read", active, FALSE, active)
      BY <1>4, <2>3 DEF Ready
    <3>2. active \in created
      BY <2>3 DEF OpenInv, TypeOK
    <3> QED
      BY <2>1, <3>1, <3>2, BeginKeeps
  <2> QED
    BY <2>2, <2>3
<1> QED
  BY <1>1, <1>2, <1>3, <1>4, StartTurnKeeps DEF User

\* Opening keeps its invariant, whatever anyone does.
LEMMA OpenNext ==
    ASSUME OpenInv, TurnsOK, [Next]_vars
    PROVE  OpenInv'
<1>1. CASE UNCHANGED vars
  <2>1. UNCHANGED <<serverVars, inbox, linkVars, calls, openVars, pageVars>>
    BY <1>1 DEF vars
  <2>2. TypeOK'
    BY <2>1 DEF OpenInv, TypeOK, serverVars, linkVars, openVars, pageVars
  <2>3. InboxOK' /\ CallsOK' /\ OpenerOK' /\ LatestOpenWins'
    BY <2>1 DEF OpenInv, InboxOK, Sent, Shown, CallsOK, OpenerOK, Opening, LatestOpenWins,
                serverVars, openVars, pageVars
  <2>4. AnswersOK'
    BY <2>1 DEF OpenInv, AnswersOK, Answered
  <2> QED
    BY <2>2, <2>3, <2>4 DEF OpenInv
<1>2. CASE User \/ Ready
  BY <1>2, UserKeeps
<1>3. CASE Server
  BY <1>3, ServerKeeps
<1>4. CASE ResumeAnswered
  BY <1>4, ResumeAnsweredKeeps
<1>5. CASE StartAnswered
  BY <1>5, StartAnsweredKeeps
<1>6. CASE TurnAnswered
  BY <1>6, TurnAnsweredKeeps
<1>7. CASE TurnStarted
  <2>1. PICK a \in {0, Head(inbox).turn} : a = Head(inbox).turn
    OBVIOUS
  <2> QED
    BY <1>7, <2>1, EventTaken DEF TurnStarted, Events
<1>8. CASE TurnCompleted
  BY <1>8, EventTaken DEF TurnCompleted, Events
<1>9. CASE Lost
  BY <1>9, LostKeeps
<1>10. ASSUME NEW c \in Slots, ReadAnswered(c) \/ Fails(c) PROVE OpenInv'
  BY <1>10, ReadAnsweredKeeps, FailsKeeps
<1> QED
  BY <1>1, <1>2, <1>3, <1>4, <1>5, <1>6, <1>7, <1>8, <1>9, <1>10 DEF Next, Page

\* A page that has just been loaded awaits nothing.
LEMMA OpenInit ==
    ASSUME Init
    PROVE  OpenInv /\ TurnsOK
<1>1. NoCall \in Calls /\ NoCall.op = "none"
  BY DEF NoCall, Calls, Ops
<1>2. /\ <<>> \in Seq(TurnIds) /\ <<>> \in Views /\ <<>> \in Seq(Sent)
      /\ DOMAIN <<>> = {}
  <2>1. \A S : <<>> \in Seq(S)
    BY EmptySeq
  <2> QED
    BY <2>1 DEF Views
<1>3. TypeOK
  <2>1. /\ turns \in [AllThreads -> Seq(TurnIds)]
        /\ running \in [AllThreads -> 0..lastTurn] /\ lastTurn \in 0..MaxTurns
        /\ calls \in [Slots -> Calls]
        /\ view \in Views
    BY <1>1, <1>2 DEF Init
  <2>2. connected \in BOOLEAN /\ loading \in BOOLEAN /\ loaded \in BOOLEAN
        /\ synced \in BOOLEAN /\ crossed \in BOOLEAN
    BY Zenon DEF Init
  <2> QED
    BY <1>1, <2>1, <2>2 DEF Init, TypeOK, AllThreads
<1>4. InboxOK /\ AnswersOK
  BY <1>2 DEF Init, InboxOK, AnswersOK
<1>5. CallsOK /\ OpenerOK /\ LatestOpenWins
  BY <1>1 DEF Init, CallsOK, OpenerOK, LatestOpenWins
<1>6. TurnsOK
  BY <1>2 DEF Init, TurnsOK
<1> QED
  BY <1>3, <1>4, <1>5, <1>6 DEF OpenInv

\* The invariant of opening holds in every reachable state.
THEOREM OpenInductive == Spec => [](OpenInv /\ TurnsOK)
<1>1. Init => OpenInv /\ TurnsOK
  BY OpenInit
<1>2. OpenInv /\ TurnsOK /\ [Next]_vars => (OpenInv /\ TurnsOK)'
  <2> SUFFICES ASSUME OpenInv, TurnsOK, [Next]_vars PROVE OpenInv' /\ TurnsOK'
    OBVIOUS
  <2>1. OpenInv'
    BY OpenNext
  <2>2. CASE Next
    <3>1. TypeOK
      BY DEF OpenInv
    <3> QED
      BY <2>1, <2>2, <3>1, TurnsKept
  <2>3. CASE UNCHANGED vars
    BY <2>1, <2>3 DEF TurnsOK, vars, serverVars
  <2> QED
    BY <2>2, <2>3
<1> QED
  BY <1>1, <1>2, PTL DEF Spec

\* The loading indicator is shown exactly while the latest thread to be
\* opened or started is on its way (loadingConversation and
\* openThreadGeneration).
THEOREM LoadingIsTruthful == Spec => []LoadingTruthful
<1>1. OpenInv => LoadingTruthful
  BY DEF OpenInv, OpenerOK, LoadingTruthful, TypeOK
<1> QED
  BY <1>1, OpenInductive, PTL

\* Whatever the order of the answers, the thread shown in the end is the one
\* last asked for (openThread, startThread).
THEOREM LatestIsShown == Spec => []LatestOpenWins
<1>1. OpenInv => LatestOpenWins
  BY DEF OpenInv
<1> QED
  BY <1>1, OpenInductive, PTL
-----------------------------------------------------------------------------
(* The inductive invariant of mirroring: q stands for the inbox, s for the  *)
(* turns of the thread t, r for the one in progress.                        *)

IsStart(m, t, u) == m.kind = "turn/started" /\ m.thread = t /\ m.turn = u
IsEnd(m, t, u) == m.kind = "turn/completed" /\ m.thread = t /\ m.turn = u
StartsAfter(q, t, u, i) == \E j \in DOMAIN q : j > i /\ IsStart(q[j], t, u)
EndsAfter(q, t, u, i) == \E j \in DOMAIN q : j > i /\ IsEnd(q[j], t, u)

\* A turn was in progress when the first i messages had been sent.
LiveAt(q, r, t, u, i) == u = r \/ EndsAfter(q, t, u, i)

\* All that happens in a thread after an event that is still in the inbox is
\* behind it there, once and in order.
Ordered(q, s, r, t) ==
    \A j \in DOMAIN q, u \in TurnIds :
        /\ IsStart(q[j], t, u) \/ IsEnd(q[j], t, u) =>
              /\ \E k \in DOMAIN s : s[k] = u
              /\ \A k \in DOMAIN s : s[k] > u => StartsAfter(q, t, s[k], j)
        /\ IsStart(q[j], t, u) =>
              /\ LiveAt(q, r, t, u, j)
              /\ \A i \in DOMAIN q : IsStart(q[i], t, u) => i = j
        /\ IsEnd(q[j], t, u) =>
              /\ u # r
              /\ \A i \in DOMAIN q : IsStart(q[i], t, u) => i < j
              /\ \A i \in DOMAIN q : IsEnd(q[i], t, u) => i = j

EventsOK ==
    \A t \in AllThreads :
        /\ Ordered(inbox, turns[t], running[t], t)
        /\ \A j \in DOMAIN inbox :
              inbox[j].kind \in Events /\ inbox[j].thread = t => t \in subscribed

\* v is the thread as it was when the first i messages had been sent.
Shows(q, s, r, t, v, i) ==
    /\ DOMAIN v \subseteq DOMAIN s
    /\ \A k \in DOMAIN s : k \in DOMAIN v <=> ~StartsAfter(q, t, s[k], i)
    /\ \A k \in DOMAIN v : v[k].id = s[k] /\ (v[k].live <=> LiveAt(q, r, t, s[k], i))

Snapshot(m) == m.kind = "answer" /\ m.turn = 0

\* A snapshot on its way is the thread as it was when it was sent.
SnapshotsOK ==
    \A j \in DOMAIN inbox : Snapshot(inbox[j]) =>
        /\ inbox[j].thread \in subscribed
        /\ LET t == inbox[j].thread
           IN  Shows(inbox, turns[t], running[t], t, inbox[j].view, j)

\* Right behind the answer to turn/start comes the notification, but for a
\* thread of which no snapshot has been sent.
TurnAnswersOK ==
    \A j \in DOMAIN inbox :
        inbox[j].kind = "answer" /\ inbox[j].turn # 0 =>
            \/ j + 1 \in DOMAIN inbox /\ IsStart(inbox[j + 1], inbox[j].thread, inbox[j].turn)
            \/ /\ ~(synced /\ active = inbox[j].thread)
               /\ \A i \in DOMAIN inbox :
                     Snapshot(inbox[i]) /\ inbox[i].thread = inbox[j].thread => i > j

\* a is the turn in progress of the view v.
Runs(v, a) ==
    IF \E k \in DOMAIN v : v[k].live
    THEN \E k \in DOMAIN v : v[k].live /\ a = v[k].id
    ELSE a = 0

\* The page shows its thread as it was when the last message it has handled
\* was sent, or, after an answer to turn/start, the one that is next.
ShowsAt(i) == Shows(inbox, turns[active], running[active], active, view, i)
PageOK ==
    /\ synced => loaded /\ active \in subscribed
    /\ synced /\ ~crossed =>
          /\ Runs(view, activeTurn)
          /\ \/ ShowsAt(0)
             \/ /\ 1 \in DOMAIN inbox /\ inbox[1].thread = active
                /\ inbox[1].kind = "turn/started"
                /\ ShowsAt(1)

MirrorInv == EventsOK /\ SnapshotsOK /\ TurnAnswersOK /\ PageOK
-----------------------------------------------------------------------------
(* What the next message of the inbox makes of the thread shown.            *)

\* Nothing, when it is no event of the thread.
LEMMA NextIsOther ==
    ASSUME NEW q, NEW s, NEW r, NEW t, NEW v, NEW m \in Nat, DOMAIN q = 1..m, NEW i \in 0..(m - 1),
           q[i + 1].kind \in Events => q[i + 1].thread # t,
           Shows(q, s, r, t, v, i)
    PROVE  Shows(q, s, r, t, v, i + 1)
<1>1. \A j \in DOMAIN q : j > i => j = i + 1 \/ j > i + 1
  OBVIOUS
<1>2. \A x : ~IsStart(q[i + 1], t, x) /\ ~IsEnd(q[i + 1], t, x)
  BY DEF IsStart, IsEnd, Events
<1>3. \A j \in DOMAIN q : j > i + 1 => j > i
  OBVIOUS
<1>4. \A x : StartsAfter(q, t, x, i) <=> StartsAfter(q, t, x, i + 1)
  BY <1>1, <1>2, <1>3 DEF StartsAfter
<1>5. \A x : EndsAfter(q, t, x, i) <=> EndsAfter(q, t, x, i + 1)
  BY <1>1, <1>2, <1>3 DEF EndsAfter
<1>6. \A x : LiveAt(q, r, t, x, i) <=> LiveAt(q, r, t, x, i + 1)
  BY <1>5 DEF LiveAt
<1> QED
  BY <1>4, <1>6 DEF Shows

\* The turns of a thread, in the order they started.
Increasing(s) == /\ s \in Seq(TurnIds)
                 /\ \A k, l \in DOMAIN s : k < l => s[k] < s[l]

\* Of two turns of a thread the later one has the larger number.
LEMMA Earlier ==
    ASSUME NEW s, Increasing(s), NEW k \in DOMAIN s, NEW l \in DOMAIN s
    PROVE  /\ k \in Nat /\ l \in Nat /\ s[k] \in Nat /\ s[l] \in Nat
           /\ s[k] < s[l] => k < l
           /\ s[k] = s[l] => k = l
<1>1. k \in Nat /\ l \in Nat /\ s[k] \in Nat /\ s[l] \in Nat
  BY DEF Increasing, TurnIds
<1>2. k < l => s[k] < s[l]
  BY DEF Increasing
<1>3. l < k => s[l] < s[k]
  BY DEF Increasing
<1> QED
  BY <1>1, <1>2, <1>3

\* After turn/started for u, the turns are those before it and u.
LEMMA NextIsStart ==
    ASSUME NEW q, NEW s, NEW r, NEW t, NEW m \in Nat, DOMAIN q = 1..m, NEW i \in 0..(m - 1),
           NEW u \in TurnIds, IsStart(q[i + 1], t, u), Ordered(q, s, r, t), Increasing(s)
    PROVE  \E n \in DOMAIN s :
              /\ s[n] = u /\ LiveAt(q, r, t, u, i + 1)
              /\ \A k \in DOMAIN s : StartsAfter(q, t, s[k], i) <=> k >= n
              /\ \A k \in DOMAIN s : StartsAfter(q, t, s[k], i + 1) <=> k > n
              /\ \A k \in DOMAIN s : LiveAt(q, r, t, s[k], i) <=> LiveAt(q, r, t, s[k], i + 1)
<1>1. i + 1 \in DOMAIN q /\ DOMAIN q \subseteq Nat /\ i \in Nat
  OBVIOUS
<1>2. PICK n \in DOMAIN s : s[n] = u
  BY <1>1 DEF Ordered
<1>3. \A x : ~IsEnd(q[i + 1], t, x)
  BY DEF IsStart, IsEnd
<1>4. \A j \in DOMAIN q : (j > i <=> j = i + 1 \/ j > i + 1)
  BY <1>1
<1>5. \A x : EndsAfter(q, t, x, i) <=> EndsAfter(q, t, x, i + 1)
  BY <1>3, <1>4 DEF EndsAfter
<1>6. \A j \in DOMAIN q : IsStart(q[j], t, u) => j = i + 1
  BY <1>1 DEF Ordered
<1>7. ASSUME NEW k \in DOMAIN s, k > n PROVE StartsAfter(q, t, s[k], i + 1)
  <2>1. s[k] > u
    BY <1>2, <1>7 DEF Increasing, TurnIds
  <2> QED
    BY <1>1, <2>1 DEF Ordered
<1>8. ASSUME NEW k \in DOMAIN s, k < n PROVE ~StartsAfter(q, t, s[k], i)
  <2>1. s[n] > s[k] /\ s[k] \in TurnIds
    BY <1>8 DEF Increasing, TurnIds
  <2> SUFFICES ASSUME NEW j \in DOMAIN q, j > i, IsStart(q[j], t, s[k]) PROVE FALSE
    BY DEF StartsAfter
  <2>2. j # i + 1
    BY <1>2, <2>1 DEF IsStart, TurnIds
  <2>3. StartsAfter(q, t, s[n], j)
    BY <2>1 DEF Ordered
  <2>4. PICK l \in DOMAIN q : l > j /\ IsStart(q[l], t, u)
    BY <1>2, <2>3 DEF StartsAfter
  <2> QED
    BY <1>1, <1>4, <1>6, <2>2, <2>4
<1>9. StartsAfter(q, t, u, i) /\ ~StartsAfter(q, t, u, i + 1)
  <2>1. i + 1 > i /\ ~(i + 1 > i + 1)
    BY <1>1
  <2> QED
    BY <1>1, <1>6, <2>1 DEF StartsAfter
<1>10. \A x : StartsAfter(q, t, x, i + 1) => StartsAfter(q, t, x, i)
  BY <1>4 DEF StartsAfter
<1>11. ASSUME NEW k \in DOMAIN s
       PROVE  /\ StartsAfter(q, t, s[k], i) <=> k >= n
              /\ StartsAfter(q, t, s[k], i + 1) <=> k > n
  <2>1. k \in Nat /\ n \in Nat
    BY DEF Increasing
  <2>2. CASE k < n
    BY <1>8, <1>10, <2>1, <2>2
  <2>3. CASE k = n
    BY <1>2, <1>9, <2>1, <2>3
  <2>4. CASE k > n
    BY <1>7, <1>10, <2>1, <2>4
  <2> QED
    BY <2>1, <2>2, <2>3, <2>4
<1>12. LiveAt(q, r, t, u, i + 1)
  BY <1>1 DEF Ordered
<1>13. \A k \in DOMAIN s : LiveAt(q, r, t, s[k], i) <=> LiveAt(q, r, t, s[k], i + 1)
  BY <1>5 DEF LiveAt
<1> QED
  BY <1>2, <1>11, <1>12, <1>13

\* After turn/completed for u, the turns are the same and u, which was one of
\* them, was the only one in progress.
LEMMA NextIsEnd ==
    ASSUME NEW q, NEW s, NEW r, NEW t, NEW m \in Nat, DOMAIN q = 1..m, NEW i \in 0..(m - 1),
           NEW u \in TurnIds, IsEnd(q[i + 1], t, u), Ordered(q, s, r, t), Increasing(s),
           r # 0 => s # <<>> /\ r = s[Len(s)]
    PROVE  \E n \in DOMAIN s :
              /\ s[n] = u /\ ~StartsAfter(q, t, u, i)
              /\ \A k \in DOMAIN s : StartsAfter(q, t, s[k], i) <=> StartsAfter(q, t, s[k], i + 1)
              /\ \A k \in DOMAIN s : k # n =>
                    (LiveAt(q, r, t, s[k], i) <=> LiveAt(q, r, t, s[k], i + 1))
              /\ \A k \in DOMAIN s : LiveAt(q, r, t, s[k], i + 1) => StartsAfter(q, t, s[k], i + 1)
<1>1. i + 1 \in DOMAIN q /\ DOMAIN q \subseteq Nat /\ i \in Nat
  OBVIOUS
<1>2. PICK n \in DOMAIN s : s[n] = u
  BY <1>1 DEF Ordered
<1>3. \A x : ~IsStart(q[i + 1], t, x)
  BY DEF IsStart, IsEnd
<1>4. \A j \in DOMAIN q : (j > i <=> j = i + 1 \/ j > i + 1)
  BY <1>1
<1>5. \A x : StartsAfter(q, t, x, i) <=> StartsAfter(q, t, x, i + 1)
  BY <1>3, <1>4 DEF StartsAfter
<1>6. \A j \in DOMAIN q : IsStart(q[j], t, u) => j < i + 1
  BY <1>1 DEF Ordered
<1>7. ~StartsAfter(q, t, u, i)
  BY <1>1, <1>6 DEF StartsAfter
<1>8. ASSUME NEW k \in DOMAIN s, k # n
      PROVE  LiveAt(q, r, t, s[k], i) <=> LiveAt(q, r, t, s[k], i + 1)
  <2>1. s[k] # u
    BY <1>2, <1>8, Earlier
  <2>2. ~IsEnd(q[i + 1], t, s[k])
    BY <2>1 DEF IsEnd
  <2>3. EndsAfter(q, t, s[k], i) <=> EndsAfter(q, t, s[k], i + 1)
    BY <1>4, <2>2 DEF EndsAfter
  <2> QED
    BY <2>3 DEF LiveAt
<1>9. ASSUME NEW k \in DOMAIN s, LiveAt(q, r, t, s[k], i + 1)
      PROVE  StartsAfter(q, t, s[k], i + 1)
  <2>1. k \in Nat /\ n \in Nat /\ s[k] \in TurnIds
    BY DEF Increasing
  <2>2. CASE k > n
    <3>1. s[k] > u
      BY <1>2, <2>2 DEF Increasing, TurnIds
    <3> QED
      BY <1>1, <3>1 DEF Ordered
  <2>3. CASE k = n
    <3>1. ~EndsAfter(q, t, u, i + 1)
      <4>1. \A j \in DOMAIN q : IsEnd(q[j], t, u) => j = i + 1
        BY <1>1 DEF Ordered
      <4>2. ~(i + 1 > i + 1)
        BY <1>1
      <4> QED
        BY <4>1, <4>2 DEF EndsAfter
    <3>2. u # r
      BY <1>1 DEF Ordered
    <3> QED
      BY <1>2, <1>9, <2>3, <3>1, <3>2 DEF LiveAt
  <2>4. CASE k < n
    <3>1. s[n] > s[k]
      BY <2>4 DEF Increasing, TurnIds
    <3>2. CASE s[k] = r
      <4>1. Len(s) \in DOMAIN s /\ s[k] = s[Len(s)] /\ k < Len(s)
        BY <2>1, <2>4, <3>2 DEF Increasing, TurnIds
      <4> QED
        BY <2>1, <4>1, Earlier
    <3>3. CASE EndsAfter(q, t, s[k], i + 1)
      <4>1. PICK j \in DOMAIN q : j > i + 1 /\ IsEnd(q[j], t, s[k])
        BY <3>3 DEF EndsAfter
      <4>2. StartsAfter(q, t, s[n], j)
        BY <2>1, <3>1, <4>1 DEF Ordered
      <4>3. PICK l \in DOMAIN q : l > j /\ IsStart(q[l], t, u)
        BY <1>2, <4>2 DEF StartsAfter
      <4> QED
        BY <1>1, <1>6, <4>1, <4>3
    <3> QED
      BY <1>9, <3>2, <3>3 DEF LiveAt
  <2> QED
    BY <2>1, <2>2, <2>3, <2>4
<1> QED
  BY <1>2, <1>5, <1>7, <1>8, <1>9

\* v with the turn u, in progress or not, instead of the one it has.
Replaced(v, u, live) ==
    [k \in DOMAIN v |-> IF v[k].id = u THEN [id |-> u, live |-> live] ELSE v[k]]

\* turn/started on a view that has not got the turn.
LEMMA StartIsAdded ==
    ASSUME NEW q, NEW s, NEW r, NEW t, NEW m \in Nat, DOMAIN q = 1..m, NEW i \in 0..(m - 1),
           NEW u \in TurnIds, IsStart(q[i + 1], t, u), Ordered(q, s, r, t), Increasing(s),
           NEW v \in Views, Shows(q, s, r, t, v, i)
    PROVE  /\ \A k \in DOMAIN v : v[k].id # u
           /\ Shows(q, s, r, t, Append(v, [id |-> u, live |-> TRUE]), i + 1)
           /\ Runs(Append(v, [id |-> u, live |-> TRUE]), u)
<1>1. PICK n \in DOMAIN s :
              /\ s[n] = u /\ LiveAt(q, r, t, u, i + 1)
              /\ \A k \in DOMAIN s : StartsAfter(q, t, s[k], i) <=> k >= n
              /\ \A k \in DOMAIN s : StartsAfter(q, t, s[k], i + 1) <=> k > n
              /\ \A k \in DOMAIN s : LiveAt(q, r, t, s[k], i) <=> LiveAt(q, r, t, s[k], i + 1)
  BY NextIsStart
<1>2. PICK c \in Nat : c = Len(v) /\ DOMAIN v = 1..c
  BY DEF Views
<1>3. PICK z \in Nat : z = Len(s) /\ DOMAIN s = 1..z
  BY DEF Increasing
<1>4. \A k \in 1..z : k \in 1..c <=> k < n
  BY <1>1, <1>2, <1>3 DEF Shows
<1>5. c = n - 1
  <2>1. n \in 1..z /\ c <= z
    BY <1>2, <1>3 DEF Shows
  <2>2. n \notin 1..c
    BY <1>4, <2>1
  <2>3. n - 1 > 0 => n - 1 \in 1..c
    BY <1>4, <2>1
  <2> QED
    BY <2>1, <2>2, <2>3
<1>6. \A k \in DOMAIN v : v[k].id = s[k] /\ k \in DOMAIN s /\ k < n
  BY <1>2, <1>3, <1>4, <1>5 DEF Shows
<1>7. \A k \in DOMAIN v : v[k].id # u
  BY <1>1, <1>6, Earlier
<1> DEFINE x == [id |-> u, live |-> TRUE]
           w == Append(v, x)
<1>8. /\ DOMAIN w = 1..n /\ w[n] = x
      /\ \A k \in 1..c : w[k] = v[k]
  <2>1. x \in [id : TurnIds, live : BOOLEAN]
    OBVIOUS
  <2>2. PICK T : T = [id : TurnIds, live : BOOLEAN] /\ v \in Seq(T) /\ x \in T
    BY <2>1 DEF Views
  <2> HIDE DEF x
  <2> QED
    BY <1>2, <1>3, <1>5, <2>2
<1>9. x.id = u /\ x.live = TRUE
  OBVIOUS
<1> HIDE DEF x, w
<1>10. \A k \in 1..n : k \in 1..c \/ k = n
  BY <1>2, <1>3, <1>5
<1>11. ASSUME NEW k \in DOMAIN w
       PROVE  w[k].id = s[k] /\ (w[k].live <=> LiveAt(q, r, t, s[k], i + 1))
  <2>1. CASE k = n
    BY <1>1, <1>8, <1>9, <2>1
  <2>2. CASE k \in 1..c
    <3>1. w[k] = v[k] /\ k \in DOMAIN v /\ k \in DOMAIN s
      BY <1>2, <1>6, <1>8, <2>2
    <3> QED
      BY <1>1, <3>1 DEF Shows
  <2> QED
    BY <1>8, <1>10, <1>11, <2>1, <2>2
<1>12. Shows(q, s, r, t, w, i + 1)
  <2>1. DOMAIN w \subseteq DOMAIN s
    BY <1>3, <1>8
  <2>2. \A k \in DOMAIN s : k \in DOMAIN w <=> ~(k > n)
    BY <1>3, <1>8
  <2> QED
    BY <1>1, <1>11, <2>1, <2>2 DEF Shows
<1>13. Runs(w, u)
  <2>1. n \in DOMAIN w /\ w[n].live /\ u = w[n].id
    BY <1>3, <1>8, <1>9
  <2> QED
    BY <2>1 DEF Runs
<1> QED
  BY <1>7, <1>12, <1>13 DEF w, x

\* turn/started on a view that has got it already, from the answer.
LEMMA StartIsKnown ==
    ASSUME NEW q, NEW s, NEW r, NEW t, NEW m \in Nat, DOMAIN q = 1..m, NEW i \in 0..(m - 1),
           NEW u \in TurnIds, IsStart(q[i + 1], t, u), Ordered(q, s, r, t), Increasing(s),
           NEW v, Shows(q, s, r, t, v, i + 1)
    PROVE  /\ \E k \in DOMAIN v : v[k].id = u
           /\ Shows(q, s, r, t, Replaced(v, u, TRUE), i + 1)
           /\ Runs(Replaced(v, u, TRUE), u)
<1>1. PICK n \in DOMAIN s :
              /\ s[n] = u /\ LiveAt(q, r, t, u, i + 1)
              /\ \A k \in DOMAIN s : StartsAfter(q, t, s[k], i + 1) <=> k > n
  BY NextIsStart
<1>2. n \in DOMAIN v /\ v[n].id = u
  BY <1>1 DEF Shows, Increasing
<1> DEFINE w == Replaced(v, u, TRUE)
<1>3. /\ DOMAIN w = DOMAIN v
      /\ \A k \in DOMAIN v : v[k].id = u => w[k].id = u /\ w[k].live = TRUE
      /\ \A k \in DOMAIN v : v[k].id # u => w[k] = v[k]
  BY DEF Replaced
<1> HIDE DEF w
<1>4. ASSUME NEW k \in DOMAIN v
      PROVE  w[k].id = s[k] /\ (w[k].live <=> LiveAt(q, r, t, s[k], i + 1))
  <2>1. v[k].id = s[k] /\ (v[k].live <=> LiveAt(q, r, t, s[k], i + 1))
    BY DEF Shows
  <2>2. CASE v[k].id = u
    BY <1>1, <1>3, <2>1, <2>2
  <2>3. CASE v[k].id # u
    BY <1>3, <2>1, <2>3
  <2> QED
    BY <2>2, <2>3
<1>5. Shows(q, s, r, t, w, i + 1)
  BY <1>3, <1>4 DEF Shows
<1>6. Runs(w, u)
  BY <1>2, <1>3 DEF Runs
<1> QED
  BY <1>2, <1>5, <1>6 DEF w

\* turn/completed.
LEMMA EndIsShown ==
    ASSUME NEW q, NEW s, NEW r, NEW t, NEW m \in Nat, DOMAIN q = 1..m, NEW i \in 0..(m - 1),
           NEW u \in TurnIds, IsEnd(q[i + 1], t, u), Ordered(q, s, r, t), Increasing(s),
           r # 0 => s # <<>> /\ r = s[Len(s)],
           NEW v, Shows(q, s, r, t, v, i)
    PROVE  /\ \E k \in DOMAIN v : v[k].id = u
           /\ Shows(q, s, r, t, Replaced(v, u, FALSE), i + 1)
           /\ Runs(Replaced(v, u, FALSE), 0)
<1>1. PICK n \in DOMAIN s :
              /\ s[n] = u /\ ~StartsAfter(q, t, u, i)
              /\ \A k \in DOMAIN s : StartsAfter(q, t, s[k], i) <=> StartsAfter(q, t, s[k], i + 1)
              /\ \A k \in DOMAIN s : k # n =>
                    (LiveAt(q, r, t, s[k], i) <=> LiveAt(q, r, t, s[k], i + 1))
              /\ \A k \in DOMAIN s : LiveAt(q, r, t, s[k], i + 1) => StartsAfter(q, t, s[k], i + 1)
  BY NextIsEnd
<1>2. n \in DOMAIN v /\ v[n].id = u
  BY <1>1 DEF Shows
<1> DEFINE w == Replaced(v, u, FALSE)
<1>3. /\ DOMAIN w = DOMAIN v
      /\ \A k \in DOMAIN v : v[k].id = u => w[k].id = u /\ w[k].live = FALSE
      /\ \A k \in DOMAIN v : v[k].id # u => w[k] = v[k]
  BY DEF Replaced
<1> HIDE DEF w
<1>4. \A k \in DOMAIN v : k \in DOMAIN s /\ ~StartsAfter(q, t, s[k], i)
  BY DEF Shows
<1>5. \A k \in DOMAIN v : ~LiveAt(q, r, t, s[k], i + 1)
  BY <1>1, <1>4
<1>6. ASSUME NEW k \in DOMAIN v
      PROVE  w[k].id = s[k] /\ ~w[k].live
  <2>1. v[k].id = s[k] /\ (v[k].live <=> LiveAt(q, r, t, s[k], i)) /\ k \in DOMAIN s
    BY DEF Shows
  <2>2. CASE v[k].id = u
    BY <1>3, <2>1, <2>2
  <2>3. CASE v[k].id # u
    <3>1. k # n
      BY <1>1, <2>1, <2>3
    <3> QED
      BY <1>1, <1>3, <1>5, <2>1, <2>3, <3>1
  <2> QED
    BY <2>2, <2>3
<1>7. Shows(q, s, r, t, w, i + 1)
  BY <1>1, <1>3, <1>5, <1>6 DEF Shows
<1>8. Runs(w, 0)
  BY <1>3, <1>6 DEF Runs
<1> QED
  BY <1>2, <1>7, <1>8 DEF w
-----------------------------------------------------------------------------
(* What a change of the inbox leaves as it was.                             *)

\* p is q without its first d messages and without some answers: h says where
\* each message of p was.
Rest(p, q, h, d) ==
    /\ h \in [DOMAIN p -> DOMAIN q]
    /\ \A k \in DOMAIN p : p[k] = q[h[k]] /\ h[k] > d
    /\ \A k, l \in DOMAIN p : k < l => h[k] < h[l]
    /\ \A i \in DOMAIN q : i > d /\ q[i].kind \in Events => \E k \in DOMAIN p : h[k] = i

\* What followed a message follows it still.
LEMMA RestFollows ==
    ASSUME NEW p, NEW q, NEW h, NEW d \in Nat, NEW m \in Nat, NEW n \in Nat,
           DOMAIN p = 1..m, DOMAIN q = 1..n, Rest(p, q, h, d),
           NEW i \in 0..m, NEW e \in Nat, IF i = 0 THEN e = d ELSE e = h[i],
           NEW t, NEW u
    PROVE  /\ StartsAfter(p, t, u, i) <=> StartsAfter(q, t, u, e)
           /\ EndsAfter(p, t, u, i) <=> EndsAfter(q, t, u, e)
<1>1. \A k \in DOMAIN p : k \in Nat /\ h[k] \in Nat /\ h[k] \in DOMAIN q
  BY DEF Rest
<1>2. ASSUME NEW k \in DOMAIN p PROVE k > i <=> h[k] > e
  <2>1. CASE i = 0
    BY <1>1, <2>1 DEF Rest
  <2>2. CASE i # 0
    <3>1. i \in DOMAIN p /\ e = h[i]
      BY <2>2
    <3>2. k < i => h[k] < h[i]
      BY <3>1 DEF Rest
    <3>3. i < k => h[i] < h[k]
      BY <3>1 DEF Rest
    <3> QED
      BY <1>1, <3>1, <3>2, <3>3
  <2> QED
    BY <2>1, <2>2
<1>3. e >= d
  BY <1>1 DEF Rest
<1>4. ASSUME NEW j \in DOMAIN q, j > e, IsStart(q[j], t, u) \/ IsEnd(q[j], t, u)
      PROVE  \E k \in DOMAIN p : k > i /\ p[k] = q[j]
  <2>1. j > d /\ q[j].kind \in Events
    BY <1>3, <1>4 DEF IsStart, IsEnd, Events
  <2>2. PICK k \in DOMAIN p : h[k] = j
    BY <2>1 DEF Rest
  <2> QED
    BY <1>2, <1>4, <2>2 DEF Rest
<1>5. ASSUME NEW k \in DOMAIN p, k > i
      PROVE  \E j \in DOMAIN q : j > e /\ q[j] = p[k]
  BY <1>1, <1>2, <1>5 DEF Rest
<1> QED
  BY <1>4, <1>5 DEF StartsAfter, EndsAfter

\* A view that was right in the inbox is right in what is left of it.
LEMMA RestShows ==
    ASSUME NEW p, NEW q, NEW h, NEW d \in Nat, NEW m \in Nat, NEW n \in Nat,
           DOMAIN p = 1..m, DOMAIN q = 1..n, Rest(p, q, h, d),
           NEW i \in 0..m, NEW e \in Nat, IF i = 0 THEN e = d ELSE e = h[i],
           NEW t, NEW s, NEW r, NEW v, Shows(q, s, r, t, v, e)
    PROVE  Shows(p, s, r, t, v, i)
<1>1. \A x : /\ StartsAfter(p, t, x, i) <=> StartsAfter(q, t, x, e)
             /\ EndsAfter(p, t, x, i) <=> EndsAfter(q, t, x, e)
  BY RestFollows
<1>2. \A x : LiveAt(p, r, t, x, i) <=> LiveAt(q, r, t, x, e)
  BY <1>1 DEF LiveAt
<1> QED
  BY <1>1, <1>2 DEF Shows

\* What is left of the inbox is in order.
LEMMA RestOrdered ==
    ASSUME NEW p, NEW q, NEW h, NEW d \in Nat, NEW m \in Nat, NEW n \in Nat,
           DOMAIN p = 1..m, DOMAIN q = 1..n, Rest(p, q, h, d),
           NEW t, NEW s, NEW r, Ordered(q, s, r, t)
    PROVE  Ordered(p, s, r, t)
<1>1. \A k \in DOMAIN p : k \in Nat /\ h[k] \in Nat /\ h[k] \in DOMAIN q /\ p[k] = q[h[k]]
  BY DEF Rest
<1>2. ASSUME NEW k \in DOMAIN p, NEW l \in DOMAIN p
      PROVE  (h[k] = h[l] => k = l) /\ (h[k] < h[l] => k < l)
  <2>1. (k < l => h[k] < h[l]) /\ (l < k => h[l] < h[k])
    BY DEF Rest
  <2> QED
    BY <1>1, <2>1
<1>3. ASSUME NEW j \in DOMAIN p, NEW x
      PROVE  /\ StartsAfter(p, t, x, j) <=> StartsAfter(q, t, x, h[j])
             /\ EndsAfter(p, t, x, j) <=> EndsAfter(q, t, x, h[j])
  <2>1. j \in 0..m /\ j # 0 /\ h[j] \in Nat
    BY <1>1
  <2> QED
    BY <2>1, RestFollows
<1>4. ASSUME NEW j \in DOMAIN p, NEW u \in TurnIds, IsStart(p[j], t, u) \/ IsEnd(p[j], t, u)
      PROVE  /\ \E k \in DOMAIN s : s[k] = u
             /\ \A k \in DOMAIN s : s[k] > u => StartsAfter(p, t, s[k], j)
  BY <1>1, <1>3, <1>4 DEF Ordered
<1>5. ASSUME NEW j \in DOMAIN p, NEW u \in TurnIds, IsStart(p[j], t, u)
      PROVE  /\ LiveAt(p, r, t, u, j)
             /\ \A i \in DOMAIN p : IsStart(p[i], t, u) => i = j
  <2>1. LiveAt(q, r, t, u, h[j])
    BY <1>1, <1>5 DEF Ordered
  <2>2. \A i \in DOMAIN p : IsStart(p[i], t, u) => h[i] = h[j]
    BY <1>1, <1>5 DEF Ordered
  <2> QED
    BY <1>2, <1>3, <2>1, <2>2 DEF LiveAt
<1>6. ASSUME NEW j \in DOMAIN p, NEW u \in TurnIds, IsEnd(p[j], t, u)
      PROVE  /\ u # r
             /\ \A i \in DOMAIN p : IsStart(p[i], t, u) => i < j
             /\ \A i \in DOMAIN p : IsEnd(p[i], t, u) => i = j
  <2>1. u # r
    BY <1>1, <1>6 DEF Ordered
  <2>2. \A i \in DOMAIN p : /\ IsStart(p[i], t, u) => h[i] < h[j]
                            /\ IsEnd(p[i], t, u) => h[i] = h[j]
    BY <1>1, <1>6 DEF Ordered
  <2> QED
    BY <1>2, <2>1, <2>2
<1> QED
  BY <1>4, <1>5, <1>6 DEF Ordered

\* p is q and, behind it, the messages from n + 1 to m.
Longer(p, q, m, n) ==
    /\ m \in Nat /\ n \in Nat /\ n <= m
    /\ DOMAIN p = 1..m /\ DOMAIN q = 1..n
    /\ \A i \in 1..n : p[i] = q[i]

\* The thread t is as it was, and none of the new messages is an event of it.
Quiet(p, t, m, n) == \A i \in (n + 1)..m : p[i].kind \in Events => p[i].thread # t

\* What follows a message is the same when no event of t is added.
LEMMA QuietFollows ==
    ASSUME NEW p, NEW q, NEW m, NEW n, NEW t, Longer(p, q, m, n), Quiet(p, t, m, n), NEW i, NEW u
    PROVE  /\ StartsAfter(p, t, u, i) <=> StartsAfter(q, t, u, i)
           /\ EndsAfter(p, t, u, i) <=> EndsAfter(q, t, u, i)
<1>1. \A j \in DOMAIN p : IsStart(p[j], t, u) \/ IsEnd(p[j], t, u) => j \in DOMAIN q /\ p[j] = q[j]
  BY DEF Longer, Quiet, IsStart, IsEnd, Events
<1>2. \A j \in DOMAIN q : j \in DOMAIN p /\ p[j] = q[j]
  BY DEF Longer
<1> QED
  BY <1>1, <1>2 DEF StartsAfter, EndsAfter

\* A view of t and the order of its events stay right when no event of t is
\* added.
LEMMA QuietKeeps ==
    ASSUME NEW p, NEW q, NEW m, NEW n, NEW t, Longer(p, q, m, n), Quiet(p, t, m, n),
           NEW s, NEW r
    PROVE  /\ \A v, i : Shows(q, s, r, t, v, i) => Shows(p, s, r, t, v, i)
           /\ Ordered(q, s, r, t) => Ordered(p, s, r, t)
<1>1. \A x, i : /\ StartsAfter(p, t, x, i) <=> StartsAfter(q, t, x, i)
                /\ EndsAfter(p, t, x, i) <=> EndsAfter(q, t, x, i)
  BY QuietFollows
<1>2. \A x, i : LiveAt(p, r, t, x, i) <=> LiveAt(q, r, t, x, i)
  BY <1>1 DEF LiveAt
<1>3. ASSUME NEW v, NEW i, Shows(q, s, r, t, v, i) PROVE Shows(p, s, r, t, v, i)
  BY <1>1, <1>2, <1>3 DEF Shows
<1>4. \A j \in DOMAIN p, u \in TurnIds :
         IsStart(p[j], t, u) \/ IsEnd(p[j], t, u) => j \in DOMAIN q /\ p[j] = q[j]
  BY DEF Longer, Quiet, IsStart, IsEnd, Events
<1>5. ASSUME Ordered(q, s, r, t) PROVE Ordered(p, s, r, t)
  <2>1. ASSUME NEW j \in DOMAIN p, NEW u \in TurnIds, IsStart(p[j], t, u) \/ IsEnd(p[j], t, u)
        PROVE  /\ \E k \in DOMAIN s : s[k] = u
               /\ \A k \in DOMAIN s : s[k] > u => StartsAfter(p, t, s[k], j)
    BY <1>1, <1>4, <1>5, <2>1 DEF Ordered
  <2>2. ASSUME NEW j \in DOMAIN p, NEW u \in TurnIds, IsStart(p[j], t, u)
        PROVE  /\ LiveAt(p, r, t, u, j)
               /\ \A i \in DOMAIN p : IsStart(p[i], t, u) => i = j
    BY <1>2, <1>4, <1>5, <2>2 DEF Ordered
  <2>3. ASSUME NEW j \in DOMAIN p, NEW u \in TurnIds, IsEnd(p[j], t, u)
        PROVE  /\ u # r
               /\ \A i \in DOMAIN p : IsStart(p[i], t, u) => i < j
               /\ \A i \in DOMAIN p : IsEnd(p[i], t, u) => i = j
    BY <1>4, <1>5, <2>3 DEF Ordered
  <2> QED
    BY <2>1, <2>2, <2>3 DEF Ordered
<1> QED
  BY <1>3, <1>5

\* A turn of the thread has started, and its notification is the last message.
LEMMA StartFollows ==
    ASSUME NEW p, NEW q, NEW m, NEW n, NEW t, Longer(p, q, m, n), n < m, Quiet(p, t, m - 1, n),
           NEW u \in TurnIds, IsStart(p[m], t, u), NEW i \in 0..n, NEW x
    PROVE  /\ x # u => (StartsAfter(p, t, x, i) <=> StartsAfter(q, t, x, i))
           /\ StartsAfter(p, t, u, i)
           /\ EndsAfter(p, t, x, i) <=> EndsAfter(q, t, x, i)
<1>1. m \in DOMAIN p /\ m > i
  BY DEF Longer
<1>2. \A j \in DOMAIN p : j \in DOMAIN q \/ j \in (n + 1)..(m - 1) \/ j = m
  BY DEF Longer
<1>3. ASSUME NEW j \in DOMAIN p, IsStart(p[j], t, x) \/ IsEnd(p[j], t, x)
      PROVE  (j \in DOMAIN q /\ p[j] = q[j]) \/ j = m
  BY <1>2, <1>3 DEF Longer, Quiet, IsStart, IsEnd, Events
<1>4. \A j \in DOMAIN q : j \in DOMAIN p /\ p[j] = q[j]
  BY DEF Longer
<1>5. ~IsEnd(p[m], t, x) /\ (x # u => ~IsStart(p[m], t, x))
  BY DEF IsStart, IsEnd
<1> QED
  BY <1>1, <1>3, <1>4, <1>5 DEF StartsAfter, EndsAfter

\* They stay right when a turn of t starts and its notification is added.
LEMMA StartKeeps ==
    ASSUME NEW p, NEW q, NEW m, NEW n, NEW t, Longer(p, q, m, n), n < m, Quiet(p, t, m - 1, n),
           NEW u \in TurnIds, IsStart(p[m], t, u), NEW s, Increasing(s),
           \A k \in DOMAIN s : s[k] < u,
           Ordered(q, s, 0, t)
    PROVE  /\ \A v, i : i \in 0..n /\ Shows(q, s, 0, t, v, i) => Shows(p, Append(s, u), u, t, v, i)
           /\ Ordered(p, Append(s, u), u, t)
<1>1. PICK c \in Nat : c = Len(s) /\ DOMAIN s = 1..c /\ \A k \in 1..c : s[k] \in TurnIds
  BY DEF Increasing
<1>2. PICK z : z = Append(s, u)
  OBVIOUS
<1>3. DOMAIN z = 1..(c + 1) /\ z[c + 1] = u /\ \A k \in 1..c : z[k] = s[k]
  BY <1>1, <1>2 DEF Increasing
<1>4. \A k \in DOMAIN z : (k \in DOMAIN s /\ z[k] = s[k]) \/ (k = c + 1 /\ z[k] = u /\ k \notin DOMAIN s)
  BY <1>1, <1>3
<1>5. \A k \in DOMAIN s : k \in DOMAIN z /\ z[k] = s[k] /\ s[k] # u /\ s[k] # 0 /\ s[k] \in TurnIds /\ s[k] < u
  BY <1>1, <1>3 DEF TurnIds
<1>6. ASSUME NEW i \in 0..n
      PROVE  /\ \A x : x # u => (StartsAfter(p, t, x, i) <=> StartsAfter(q, t, x, i))
             /\ StartsAfter(p, t, u, i)
             /\ \A x : EndsAfter(p, t, x, i) <=> EndsAfter(q, t, x, i)
             /\ \A x : x # u /\ x # 0 => (LiveAt(p, u, t, x, i) <=> LiveAt(q, 0, t, x, i))
  <2>1. /\ \A x : x # u => (StartsAfter(p, t, x, i) <=> StartsAfter(q, t, x, i))
        /\ StartsAfter(p, t, u, i)
        /\ \A x : EndsAfter(p, t, x, i) <=> EndsAfter(q, t, x, i)
    BY StartFollows
  <2> QED
    BY <2>1 DEF LiveAt
<1>7. ASSUME NEW v, NEW i \in 0..n, Shows(q, s, 0, t, v, i) PROVE Shows(p, z, u, t, v, i)
  <2>1. DOMAIN v \subseteq DOMAIN z
    BY <1>5, <1>7 DEF Shows
  <2>2. ASSUME NEW k \in DOMAIN z PROVE k \in DOMAIN v <=> ~StartsAfter(p, t, z[k], i)
    <3>1. CASE k \in DOMAIN s /\ z[k] = s[k]
      BY <1>5, <1>6, <1>7, <3>1 DEF Shows
    <3>2. CASE z[k] = u /\ k \notin DOMAIN s
      BY <1>6, <1>7, <3>2 DEF Shows
    <3> QED
      BY <1>4, <3>1, <3>2
  <2>3. ASSUME NEW k \in DOMAIN v
        PROVE  v[k].id = z[k] /\ (v[k].live <=> LiveAt(p, u, t, z[k], i))
    BY <1>5, <1>6, <1>7 DEF Shows
  <2> QED
    BY <2>1, <2>2, <2>3 DEF Shows
<1>8. \A j \in DOMAIN q, x \in TurnIds : IsStart(q[j], t, x) \/ IsEnd(q[j], t, x) => x # u /\ x < u
  BY <1>5 DEF Ordered
<1>9. ASSUME NEW j \in DOMAIN p, NEW x \in TurnIds, IsStart(p[j], t, x) \/ IsEnd(p[j], t, x)
      PROVE  \/ j \in DOMAIN q /\ j \in 0..n /\ p[j] = q[j] /\ j < m
             \/ j = m /\ x = u /\ IsStart(p[j], t, x) /\ ~IsEnd(p[j], t, x)
  <2>1. j \in DOMAIN q \/ j \in (n + 1)..(m - 1) \/ j = m
    BY DEF Longer
  <2>2. CASE j \in DOMAIN q
    BY <2>2 DEF Longer
  <2>3. CASE j \in (n + 1)..(m - 1)
    BY <1>9, <2>3 DEF Quiet, IsStart, IsEnd, Events
  <2>4. CASE j = m
    BY <1>9, <2>4 DEF IsStart, IsEnd
  <2> QED
    BY <2>1, <2>2, <2>3, <2>4
<1>10. ASSUME NEW j \in DOMAIN p, NEW x \in TurnIds, IsStart(p[j], t, x) \/ IsEnd(p[j], t, x)
       PROVE  /\ \E k \in DOMAIN z : z[k] = x
              /\ \A k \in DOMAIN z : z[k] > x => StartsAfter(p, t, z[k], j)
  <2>1. CASE j \in DOMAIN q /\ j \in 0..n /\ p[j] = q[j]
    <3>1. \E k \in DOMAIN s : s[k] = x
      BY <1>10, <2>1 DEF Ordered
    <3>2. ASSUME NEW k \in DOMAIN z, z[k] > x PROVE StartsAfter(p, t, z[k], j)
      <4>1. CASE k \in DOMAIN s /\ z[k] = s[k]
        <5>1. StartsAfter(q, t, s[k], j)
          BY <1>10, <2>1, <3>2, <4>1 DEF Ordered
        <5> QED
          BY <1>5, <1>6, <2>1, <4>1, <5>1
      <4>2. CASE z[k] = u
        BY <1>6, <2>1, <4>2
      <4> QED
        BY <1>4, <4>1, <4>2
    <3> QED
      BY <1>5, <3>1, <3>2
  <2>2. CASE j = m /\ x = u
    <3>1. c + 1 \in DOMAIN z
      BY <1>1, <1>3
    <3>2. \A k \in DOMAIN z : ~(z[k] > u)
      BY <1>4, <1>5 DEF TurnIds
    <3> QED
      BY <1>3, <2>2, <3>1, <3>2
  <2> QED
    BY <1>9, <1>10, <2>1, <2>2
<1>11. ASSUME NEW j \in DOMAIN p, NEW x \in TurnIds, IsStart(p[j], t, x)
       PROVE  /\ LiveAt(p, u, t, x, j)
              /\ \A i \in DOMAIN p : IsStart(p[i], t, x) => i = j
  <2>1. CASE j \in DOMAIN q /\ j \in 0..n /\ p[j] = q[j]
    <3>1. LiveAt(q, 0, t, x, j) /\ \A i \in DOMAIN q : IsStart(q[i], t, x) => i = j
      BY <1>11, <2>1 DEF Ordered
    <3>2. x # u /\ x # 0
      BY <1>8, <1>11, <2>1 DEF TurnIds
    <3> QED
      BY <1>6, <1>9, <2>1, <3>1, <3>2
  <2>2. CASE j = m /\ x = u
    <3>1. \A i \in DOMAIN p : IsStart(p[i], t, u) => i = m
      BY <1>8, <1>9
    <3> QED
      BY <2>2, <3>1 DEF LiveAt
  <2> QED
    BY <1>9, <1>11, <2>1, <2>2
<1>12. ASSUME NEW j \in DOMAIN p, NEW x \in TurnIds, IsEnd(p[j], t, x)
       PROVE  /\ x # u
              /\ \A i \in DOMAIN p : IsStart(p[i], t, x) => i < j
              /\ \A i \in DOMAIN p : IsEnd(p[i], t, x) => i = j
  <2>1. j \in DOMAIN q /\ j \in 0..n /\ p[j] = q[j]
    BY <1>9, <1>12
  <2>2. x # u
    BY <1>8, <1>12, <2>1
  <2>3. /\ \A i \in DOMAIN q : IsStart(q[i], t, x) => i < j
        /\ \A i \in DOMAIN q : IsEnd(q[i], t, x) => i = j
    BY <1>12, <2>1 DEF Ordered
  <2> QED
    BY <1>9, <2>2, <2>3
<1> QED
  BY <1>2, <1>7, <1>10, <1>11, <1>12 DEF Ordered

\* The turn in progress of the thread has ended, and its notification is the
\* last message.
LEMMA EndKeeps ==
    ASSUME NEW p, NEW q, NEW m, NEW n, NEW t, Longer(p, q, m, n), n < m, Quiet(p, t, m - 1, n),
           NEW r \in TurnIds, IsEnd(p[m], t, r), NEW s, Increasing(s),
           s # <<>>, r = s[Len(s)],
           Ordered(q, s, r, t)
    PROVE  /\ \A v, i : i \in 0..n /\ Shows(q, s, r, t, v, i) => Shows(p, s, 0, t, v, i)
           /\ Ordered(p, s, 0, t)
<1>1. m \in DOMAIN p /\ \A i \in 0..n : m > i
  BY DEF Longer
<1>2. ASSUME NEW j \in DOMAIN p, NEW x, IsStart(p[j], t, x) \/ IsEnd(p[j], t, x)
      PROVE  \/ j \in DOMAIN q /\ j \in 0..n /\ p[j] = q[j] /\ j < m
             \/ j = m /\ x = r /\ IsEnd(p[j], t, x) /\ ~IsStart(p[j], t, x)
  <2>1. j \in DOMAIN q \/ j \in (n + 1)..(m - 1) \/ j = m
    BY DEF Longer
  <2>2. CASE j \in DOMAIN q
    BY <2>2 DEF Longer
  <2>3. CASE j \in (n + 1)..(m - 1)
    BY <1>2, <2>3 DEF Quiet, IsStart, IsEnd, Events
  <2>4. CASE j = m
    BY <1>2, <2>4 DEF IsStart, IsEnd
  <2> QED
    BY <2>1, <2>2, <2>3, <2>4
<1>3. \A j \in DOMAIN q : j \in DOMAIN p /\ p[j] = q[j]
  BY DEF Longer
<1>4. ASSUME NEW i \in 0..n
      PROVE  /\ \A x : StartsAfter(p, t, x, i) <=> StartsAfter(q, t, x, i)
             /\ \A x : EndsAfter(p, t, x, i) <=> x = r \/ EndsAfter(q, t, x, i)
  BY <1>1, <1>2, <1>3 DEF StartsAfter, EndsAfter
<1>5. ASSUME NEW i \in 0..n, NEW x, x # 0 PROVE LiveAt(p, 0, t, x, i) <=> LiveAt(q, r, t, x, i)
  BY <1>4, <1>5 DEF LiveAt
<1>6. \A k \in DOMAIN s : s[k] # 0 /\ s[k] \in TurnIds
  BY DEF Increasing, TurnIds
<1>7. ASSUME NEW v, NEW i \in 0..n, Shows(q, s, r, t, v, i) PROVE Shows(p, s, 0, t, v, i)
  BY <1>4, <1>5, <1>6, <1>7 DEF Shows
<1>8. Len(s) \in DOMAIN s /\ \A k \in DOMAIN s : ~(s[k] > r)
  <2>1. Len(s) \in DOMAIN s /\ \A k \in DOMAIN s : k <= Len(s) /\ k \in Nat
    BY DEF Increasing
  <2>2. \A k \in DOMAIN s : k < Len(s) => s[k] < s[Len(s)]
    BY <2>1 DEF Increasing
  <2> QED
    BY <1>6, <2>1, <2>2 DEF TurnIds
<1>9. ASSUME NEW j \in DOMAIN p, NEW x \in TurnIds, IsStart(p[j], t, x) \/ IsEnd(p[j], t, x)
      PROVE  /\ \E k \in DOMAIN s : s[k] = x
             /\ \A k \in DOMAIN s : s[k] > x => StartsAfter(p, t, s[k], j)
  <2>1. CASE j \in DOMAIN q /\ j \in 0..n /\ p[j] = q[j]
    BY <1>4, <1>9, <2>1 DEF Ordered
  <2>2. CASE j = m /\ x = r
    BY <1>8, <2>2
  <2> QED
    BY <1>2, <1>9, <2>1, <2>2
<1>10. ASSUME NEW j \in DOMAIN p, NEW x \in TurnIds, IsStart(p[j], t, x)
       PROVE  /\ LiveAt(p, 0, t, x, j)
              /\ \A i \in DOMAIN p : IsStart(p[i], t, x) => i = j
  <2>1. j \in DOMAIN q /\ j \in 0..n /\ p[j] = q[j]
    BY <1>2, <1>10
  <2>2. LiveAt(q, r, t, x, j) /\ \A i \in DOMAIN q : IsStart(q[i], t, x) => i = j
    BY <1>10, <2>1 DEF Ordered
  <2>3. x # 0
    BY DEF TurnIds
  <2> QED
    BY <1>2, <1>5, <2>1, <2>2, <2>3
<1>11. ASSUME NEW j \in DOMAIN p, NEW x \in TurnIds, IsEnd(p[j], t, x)
       PROVE  /\ x # 0
              /\ \A i \in DOMAIN p : IsStart(p[i], t, x) => i < j
              /\ \A i \in DOMAIN p : IsEnd(p[i], t, x) => i = j
  <2>1. x # 0
    BY DEF TurnIds
  <2>2. CASE j \in DOMAIN q /\ j \in 0..n /\ p[j] = q[j]
    <3>1. /\ x # r
          /\ \A i \in DOMAIN q : IsStart(q[i], t, x) => i < j
          /\ \A i \in DOMAIN q : IsEnd(q[i], t, x) => i = j
      BY <1>11, <2>2 DEF Ordered
    <3> QED
      BY <1>2, <2>1, <3>1
  <2>3. CASE j = m /\ x = r
    <3>1. \A i \in DOMAIN q : ~IsEnd(q[i], t, r)
      BY DEF Ordered
    <3> QED
      BY <1>2, <2>1, <2>3, <3>1
  <2> QED
    BY <1>2, <1>11, <2>2, <2>3
<1> QED
  BY <1>7, <1>9, <1>10, <1>11 DEF Ordered
-----------------------------------------------------------------------------
(* What the server sends.                                                   *)

\* A thread of which the inbox has no event.
LEMMA NoEvents ==
    ASSUME NEW q, NEW s, NEW r, NEW t, \A j \in DOMAIN q : q[j].kind \in Events => q[j].thread # t
    PROVE  Ordered(q, s, r, t)
BY DEF Ordered, IsStart, IsEnd, Events

\* Messages are about threads and turns there are.
LEMMA MessagesOfThreads ==
    ASSUME OpenInv, NEW j \in DOMAIN inbox
    PROVE  /\ inbox[j] \in Sent /\ inbox[j].thread \in created /\ inbox[j].thread \in AllThreads
           /\ inbox[j].kind \in Events => inbox[j].turn \in TurnIds
           /\ inbox[j].turn \in 0..lastTurn
<1>1. InboxOK /\ TypeOK /\ AnswersOK
  BY DEF OpenInv
<1>2. inbox[j] \in Sent
  BY <1>1 DEF InboxOK
<1>3. inbox[j].thread \in created /\ inbox[j].turn \in 0..lastTurn
  BY <1>2 DEF Sent
<1>4. inbox[j].kind \in Events => inbox[j].turn # 0
  BY <1>1 DEF AnswersOK
<1> QED
  BY <1>1, <1>2, <1>3, <1>4 DEF TypeOK, TurnIds

\* The invariant, given what becomes of each thread and of the new messages.
LEMMA SendsKeep ==
    ASSUME OpenInv, MirrorInv, NEW m, NEW n, Longer(inbox', inbox, m, n),
           subscribed \subseteq subscribed', UNCHANGED pageVars,
           \A t \in AllThreads : Ordered(inbox', turns'[t], running'[t], t),
           \A t \in subscribed : \A v, i :
              i \in 0..n /\ Shows(inbox, turns[t], running[t], t, v, i)
                 => Shows(inbox', turns'[t], running'[t], t, v, i),
           \A j \in (n + 1)..m : inbox'[j].kind \in Events => inbox'[j].thread \in subscribed',
           \A j \in (n + 1)..m : Snapshot(inbox'[j]) =>
              /\ inbox'[j].thread \in subscribed'
              /\ Shows(inbox', turns'[inbox'[j].thread], running'[inbox'[j].thread],
                       inbox'[j].thread, inbox'[j].view, j),
           \A j \in (n + 1)..m : inbox'[j].kind = "answer" /\ inbox'[j].turn # 0 =>
              \/ j + 1 \in DOMAIN inbox' /\ IsStart(inbox'[j + 1], inbox'[j].thread, inbox'[j].turn)
              \/ /\ ~(synced /\ active = inbox'[j].thread)
                 /\ \A i \in DOMAIN inbox' :
                       Snapshot(inbox'[i]) /\ inbox'[i].thread = inbox'[j].thread => i > j
    PROVE  MirrorInv'
<1>1. /\ m \in Nat /\ n \in Nat /\ n <= m
      /\ DOMAIN inbox' = 1..m /\ DOMAIN inbox = 1..n
      /\ \A i \in 1..n : inbox'[i] = inbox[i]
      /\ \A i \in 1..m : i \in 1..n \/ i \in (n + 1)..m
      /\ \A i \in 1..n : i \in 1..m /\ i \in 0..n
  BY DEF Longer
<1>2. EventsOK'
  <2>1. ASSUME NEW j \in DOMAIN inbox', inbox'[j].kind \in Events PROVE inbox'[j].thread \in subscribed'
    <3>1. CASE j \in 1..n
      <4>1. inbox[j].kind \in Events /\ j \in DOMAIN inbox /\ inbox'[j] = inbox[j]
        BY <1>1, <2>1, <3>1
      <4>2. inbox[j].thread \in AllThreads
        BY <4>1, MessagesOfThreads
      <4>3. inbox[j].thread \in subscribed
        BY <4>1, <4>2 DEF MirrorInv, EventsOK
      <4> QED
        BY <4>1, <4>3
    <3>2. CASE j \in (n + 1)..m
      BY <2>1, <3>2
    <3> QED
      BY <1>1, <3>1, <3>2
  <2> QED
    BY <2>1 DEF EventsOK
<1>3. SnapshotsOK'
  <2>1. ASSUME NEW j \in DOMAIN inbox', Snapshot(inbox'[j])
        PROVE  /\ inbox'[j].thread \in subscribed'
               /\ Shows(inbox', turns'[inbox'[j].thread], running'[inbox'[j].thread],
                        inbox'[j].thread, inbox'[j].view, j)
    <3>1. CASE j \in 1..n
      <4>1. Snapshot(inbox[j]) /\ j \in DOMAIN inbox /\ inbox'[j] = inbox[j] /\ j \in 0..n
        BY <1>1, <2>1, <3>1
      <4>2. /\ inbox[j].thread \in subscribed
            /\ Shows(inbox, turns[inbox[j].thread], running[inbox[j].thread],
                     inbox[j].thread, inbox[j].view, j)
        BY <4>1 DEF MirrorInv, SnapshotsOK
      <4> QED
        BY <4>1, <4>2
    <3>2. CASE j \in (n + 1)..m
      BY <2>1, <3>2
    <3> QED
      BY <1>1, <3>1, <3>2
  <2> QED
    BY <2>1 DEF SnapshotsOK
<1>4. TurnAnswersOK'
  <2>1. ASSUME NEW j \in DOMAIN inbox', inbox'[j].kind = "answer", inbox'[j].turn # 0
        PROVE  \/ j + 1 \in DOMAIN inbox' /\ IsStart(inbox'[j + 1], inbox'[j].thread, inbox'[j].turn)
               \/ /\ ~(synced /\ active = inbox'[j].thread)
                  /\ \A i \in DOMAIN inbox' :
                        Snapshot(inbox'[i]) /\ inbox'[i].thread = inbox'[j].thread => i > j
    <3>1. CASE j \in 1..n
      <4>1. inbox'[j] = inbox[j] /\ j \in DOMAIN inbox
        BY <1>1, <3>1
      <4>2. CASE j + 1 \in DOMAIN inbox /\ IsStart(inbox[j + 1], inbox[j].thread, inbox[j].turn)
        BY <1>1, <4>1, <4>2
      <4>3. CASE /\ ~(synced /\ active = inbox[j].thread)
                 /\ \A i \in DOMAIN inbox :
                       Snapshot(inbox[i]) /\ inbox[i].thread = inbox[j].thread => i > j
        <5>1. \A i \in (n + 1)..m : i > j
          BY <1>1, <3>1
        <5> QED
          BY <1>1, <4>1, <4>3, <5>1
      <4> QED
        BY <2>1, <4>1, <4>2, <4>3 DEF MirrorInv, TurnAnswersOK
    <3>2. CASE j \in (n + 1)..m
      BY <2>1, <3>2
    <3> QED
      BY <1>1, <3>1, <3>2
  <2>2. synced' = synced /\ active' = active
    BY DEF pageVars
  <2> QED
    BY <2>1, <2>2 DEF TurnAnswersOK
<1>5. PageOK'
  <2>1. UNCHANGED <<active, loaded, view, activeTurn, synced, crossed>>
    BY DEF pageVars
  <2>2. ASSUME synced, NEW i \in 0..n, ShowsAt(i)
        PROVE  Shows(inbox', turns'[active], running'[active], active, view, i)
    BY <2>2 DEF MirrorInv, PageOK, ShowsAt
  <2>3. 0 \in 0..n /\ (1 \in DOMAIN inbox => 1 \in 0..n /\ 1 \in DOMAIN inbox' /\ inbox'[1] = inbox[1])
    BY <1>1
  <2>4. synced => loaded /\ active \in subscribed'
    BY DEF MirrorInv, PageOK
  <2>5. ASSUME synced, ~crossed
        PROVE  /\ Runs(view, activeTurn)
               /\ \/ Shows(inbox', turns'[active], running'[active], active, view, 0)
                  \/ /\ 1 \in DOMAIN inbox' /\ inbox'[1].thread = active
                     /\ inbox'[1].kind = "turn/started"
                     /\ Shows(inbox', turns'[active], running'[active], active, view, 1)
    BY <2>2, <2>3, <2>5 DEF MirrorInv, PageOK
  <2> QED
    BY <2>1, <2>4, <2>5 DEF PageOK, ShowsAt
<1> QED
  BY <1>2, <1>3, <1>4, <1>5 DEF MirrorInv

\* What the proofs about sending know of a thread.
LEMMA ThreadFacts ==
    ASSUME OpenInv, TurnsOK, NEW t \in AllThreads
    PROVE  /\ Increasing(turns[t]) /\ running[t] \in 0..lastTurn
           /\ lastTurn \in Nat /\ lastTurn <= MaxTurns
           /\ \A k \in DOMAIN turns[t] : turns[t][k] <= lastTurn
           /\ running[t] # 0 => turns[t] # <<>> /\ running[t] = turns[t][Len(turns[t])]
           /\ t \notin created => turns[t] = <<>>
BY DEF OpenInv, TypeOK, TurnsOK, Increasing

\* An answer is appended.
LEMMA OneLonger ==
    ASSUME OpenInv, NEW a, inbox' = Append(inbox, a)
    PROVE  \E n \in Nat : /\ Longer(inbox', inbox, n + 1, n)
                          /\ inbox'[n + 1] = a
                          /\ \A j \in (n + 1)..(n + 1) : j = n + 1
                          /\ DOMAIN inbox = 1..n /\ n = Len(inbox)
<1>1. inbox \in Seq(Sent)
  BY DEF OpenInv, InboxOK
<1>2. PICK n \in Nat : n = Len(inbox) /\ DOMAIN inbox = 1..n
  BY <1>1
<1>3. /\ DOMAIN inbox' = 1..(n + 1) /\ inbox'[n + 1] = a
      /\ \A i \in 1..n : inbox'[i] = inbox[i]
  BY <1>1, <1>2
<1>4. Longer(inbox', inbox, n + 1, n)
  BY <1>2, <1>3 DEF Longer
<1> QED
  BY <1>2, <1>3, <1>4

\* The answer to thread/resume is the thread as it is.
LEMMA ServeResumeMirrors ==
    ASSUME OpenInv, TurnsOK, MirrorInv, NEW c \in Slots, ServeResume(c)
    PROVE  MirrorInv'
<1> DEFINE t == calls[c].thread
           A == Answer(c, t, 0, Report(t))
<1>1. /\ UNCHANGED <<turns, running>> /\ subscribed' = subscribed \cup {t}
      /\ inbox' = Append(inbox, A) /\ t \in AllThreads /\ UNCHANGED pageVars
  BY DEF ServeResume, Serve, OpenInv, CallsOK, TypeOK
<1>2. A.kind = "answer" /\ A.turn = 0 /\ A.thread = t /\ A.view = Report(t)
  BY DEF Answer
<1> HIDE DEF A, t
<1>3. PICK n \in Nat : /\ Longer(inbox', inbox, n + 1, n)
                       /\ inbox'[n + 1] = A
                       /\ \A j \in (n + 1)..(n + 1) : j = n + 1
                       /\ DOMAIN inbox = 1..n /\ n = Len(inbox)
  BY <1>1, OneLonger
<1>4. ASSUME NEW r \in AllThreads
      PROVE  /\ \A v, i : Shows(inbox, turns[r], running[r], r, v, i)
                             => Shows(inbox', turns'[r], running'[r], r, v, i)
             /\ Ordered(inbox', turns'[r], running'[r], r)
  <2>1. Quiet(inbox', r, n + 1, n)
    BY <1>2, <1>3 DEF Quiet, Events
  <2>2. Ordered(inbox, turns[r], running[r], r)
    BY DEF MirrorInv, EventsOK
  <2> QED
    BY <1>1, <1>3, <2>1, <2>2, QuietKeeps
<1>5. Shows(inbox', turns'[t], running'[t], t, Report(t), n + 1)
  <2>1. \A j \in DOMAIN inbox' : ~(j > n + 1)
    BY <1>3 DEF Longer
  <2>2. \A x : ~StartsAfter(inbox', t, x, n + 1) /\ ~EndsAfter(inbox', t, x, n + 1)
    BY <2>1 DEF StartsAfter, EndsAfter
  <2>3. \A x : LiveAt(inbox', running[t], t, x, n + 1) <=> x = running[t]
    BY <2>2 DEF LiveAt
  <2>4. /\ DOMAIN Report(t) = DOMAIN turns[t]
        /\ \A k \in DOMAIN turns[t] : /\ Report(t)[k].id = turns[t][k]
                                      /\ Report(t)[k].live <=> turns[t][k] = running[t]
    BY DEF Report
  <2>5. Shows(inbox', turns[t], running[t], t, Report(t), n + 1)
    BY <2>2, <2>3, <2>4 DEF Shows
  <2> QED
    BY <1>1, <2>5
<1>6. \A j \in (n + 1)..(n + 1) :
         /\ inbox'[j].kind \notin Events
         /\ inbox'[j].thread \in subscribed'
         /\ Shows(inbox', turns'[inbox'[j].thread], running'[inbox'[j].thread],
                  inbox'[j].thread, inbox'[j].view, j)
         /\ inbox'[j].turn = 0
  BY <1>1, <1>2, <1>3, <1>5 DEF Events
<1>7. subscribed \subseteq AllThreads /\ subscribed \subseteq subscribed'
  BY <1>1 DEF OpenInv, TypeOK
<1> QED
  BY <1>1, <1>3, <1>4, <1>6, <1>7, SendsKeep

\* The answer to thread/start is the new thread, which has no turns.
LEMMA ServeStartMirrors ==
    ASSUME OpenInv, TurnsOK, MirrorInv, NEW c \in Slots, ServeStart(c)
    PROVE  MirrorInv'
<1>1. PICK t \in Fresh \ created :
         /\ UNCHANGED <<turns, running>> /\ subscribed' = subscribed \cup {t}
         /\ inbox' = Append(inbox, Answer(c, t, 0, <<>>)) /\ UNCHANGED pageVars
  BY DEF ServeStart, Serve
<1> DEFINE A == Answer(c, t, 0, <<>>)
<1>2. /\ inbox' = Append(inbox, A) /\ t \in AllThreads
      /\ A.kind = "answer" /\ A.turn = 0 /\ A.thread = t /\ A.view = <<>>
  BY <1>1 DEF Answer, AllThreads
<1> HIDE DEF A
<1>3. PICK n \in Nat : /\ Longer(inbox', inbox, n + 1, n)
                       /\ inbox'[n + 1] = A
                       /\ \A j \in (n + 1)..(n + 1) : j = n + 1
                       /\ DOMAIN inbox = 1..n /\ n = Len(inbox)
  BY <1>2, OneLonger
<1>4. ASSUME NEW r \in AllThreads
      PROVE  /\ \A v, i : Shows(inbox, turns[r], running[r], r, v, i)
                             => Shows(inbox', turns'[r], running'[r], r, v, i)
             /\ Ordered(inbox', turns'[r], running'[r], r)
  <2>1. Quiet(inbox', r, n + 1, n)
    BY <1>2, <1>3 DEF Quiet, Events
  <2>2. Ordered(inbox, turns[r], running[r], r)
    BY DEF MirrorInv, EventsOK
  <2> QED
    BY <1>1, <1>3, <2>1, <2>2, QuietKeeps
<1>5. Shows(inbox', turns'[t], running'[t], t, <<>>, n + 1)
  <2>1. turns[t] = <<>>
    BY <1>1, <1>2, ThreadFacts
  <2>2. DOMAIN <<>> = {}
    OBVIOUS
  <2>3. Shows(inbox', <<>>, running[t], t, <<>>, n + 1)
    BY <2>2 DEF Shows
  <2> QED
    BY <1>1, <2>1, <2>3
<1>6. \A j \in (n + 1)..(n + 1) :
         /\ inbox'[j].kind \notin Events
         /\ inbox'[j].thread \in subscribed'
         /\ Shows(inbox', turns'[inbox'[j].thread], running'[inbox'[j].thread],
                  inbox'[j].thread, inbox'[j].view, j)
         /\ inbox'[j].turn = 0
  BY <1>1, <1>2, <1>3, <1>5 DEF Events
<1>7. subscribed \subseteq AllThreads /\ subscribed \subseteq subscribed'
  BY <1>1 DEF OpenInv, TypeOK
<1> QED
  BY <1>1, <1>3, <1>4, <1>6, <1>7, SendsKeep

\* A turn of t starts; the messages from n + 1 to m are sent, the
\* notification last if there is one.
LEMMA TurnStartSent ==
    ASSUME OpenInv, TurnsOK, MirrorInv, NEW t \in AllThreads, TurnStarts(t),
           NEW m, NEW n, Longer(inbox', inbox, m, n),
           IF t \in subscribed
           THEN /\ n < m /\ IsStart(inbox'[m], t, lastTurn + 1)
                /\ \A j \in (n + 1)..(m - 1) : inbox'[j].kind \notin Events
           ELSE \A j \in (n + 1)..m : inbox'[j].kind \notin Events
    PROVE  /\ \A r \in AllThreads : Ordered(inbox', turns'[r], running'[r], r)
           /\ \A r \in subscribed : \A v, i :
                 i \in 0..n /\ Shows(inbox, turns[r], running[r], r, v, i)
                    => Shows(inbox', turns'[r], running'[r], r, v, i)
<1>1. PICK u \in TurnIds :
         /\ u = lastTurn + 1 /\ running[t] = 0
         /\ turns' = [turns EXCEPT ![t] = Append(@, u)]
         /\ running' = [running EXCEPT ![t] = u]
  <2>1. lastTurn \in Nat /\ lastTurn < MaxTurns
    BY ThreadFacts DEF TurnStarts
  <2>2. lastTurn + 1 \in TurnIds
    BY <2>1 DEF TurnIds
  <2> QED
    BY <2>2 DEF TurnStarts
<1>2. turns \in [AllThreads -> Seq(TurnIds)] /\ running \in [AllThreads -> 0..lastTurn]
  BY DEF OpenInv, TypeOK
<1>3. \A r \in AllThreads : Ordered(inbox, turns[r], running[r], r)
  BY DEF MirrorInv, EventsOK
<1>4. ASSUME NEW r \in AllThreads, r # t
      PROVE  /\ \A v, i : Shows(inbox, turns[r], running[r], r, v, i)
                             => Shows(inbox', turns'[r], running'[r], r, v, i)
             /\ Ordered(inbox', turns'[r], running'[r], r)
  <2>1. turns'[r] = turns[r] /\ running'[r] = running[r]
    BY <1>1, <1>2, <1>4
  <2>2. Quiet(inbox', r, m, n)
    <3>1. CASE t \in subscribed
      <4>1. \A j \in (n + 1)..m : j \in (n + 1)..(m - 1) \/ j = m
        BY DEF Longer
      <4> QED
        BY <1>4, <3>1, <4>1 DEF Quiet, IsStart
    <3>2. CASE t \notin subscribed
      BY <3>2 DEF Quiet
    <3> QED
      BY <3>1, <3>2
  <2> QED
    BY <1>3, <2>1, <2>2, QuietKeeps
<1>5. CASE t \in subscribed
  <2>1. Quiet(inbox', t, m - 1, n)
    BY <1>5 DEF Quiet
  <2>2. Increasing(turns[t]) /\ \A k \in DOMAIN turns[t] : turns[t][k] < u
    <3>1. Increasing(turns[t]) /\ lastTurn \in Nat /\ \A k \in DOMAIN turns[t] : turns[t][k] <= lastTurn
      BY ThreadFacts
    <3>2. \A k \in DOMAIN turns[t] : turns[t][k] \in Nat
      BY <3>1 DEF Increasing, TurnIds
    <3> QED
      BY <1>1, <3>1, <3>2
  <2>3. turns'[t] = Append(turns[t], u) /\ running'[t] = u
    BY <1>1, <1>2
  <2>4. Ordered(inbox, turns[t], 0, t)
    BY <1>1, <1>3
  <2>5. n < m /\ IsStart(inbox'[m], t, u)
    BY <1>1, <1>5
  <2>6. /\ \A v, i : i \in 0..n /\ Shows(inbox, turns[t], 0, t, v, i)
                        => Shows(inbox', Append(turns[t], u), u, t, v, i)
        /\ Ordered(inbox', Append(turns[t], u), u, t)
    BY <2>1, <2>2, <2>4, <2>5, StartKeeps
  <2>7. /\ \A v, i : i \in 0..n /\ Shows(inbox, turns[t], running[t], t, v, i)
                        => Shows(inbox', turns'[t], running'[t], t, v, i)
        /\ Ordered(inbox', turns'[t], running'[t], t)
    BY <1>1, <2>3, <2>6
  <2>8. subscribed \subseteq AllThreads
    BY DEF OpenInv, TypeOK
  <2> QED
    BY <1>4, <2>7, <2>8
<1>6. CASE t \notin subscribed
  <2>1. ASSUME NEW j \in DOMAIN inbox', inbox'[j].kind \in Events PROVE inbox'[j].thread # t
    <3>1. j \in (n + 1)..m \/ (j \in DOMAIN inbox /\ inbox'[j] = inbox[j])
      BY DEF Longer
    <3>2. \A i \in DOMAIN inbox : inbox[i].kind \in Events => inbox[i].thread # t
      BY <1>6 DEF MirrorInv, EventsOK
    <3> QED
      BY <1>6, <2>1, <3>1, <3>2
  <2>2. Ordered(inbox', turns'[t], running'[t], t)
    BY <2>1, NoEvents
  <2>3. subscribed \subseteq AllThreads
    BY DEF OpenInv, TypeOK
  <2> QED
    BY <1>4, <1>6, <2>2, <2>3
<1> QED
  BY <1>5, <1>6

\* p is s and behind it a, or a and e; n is the length of s.
WithOne(p, s, a, n) ==
    /\ n = Len(s) /\ DOMAIN s = 1..n /\ DOMAIN p = 1..(n + 1)
    /\ \A i \in 1..n : p[i] = s[i]
    /\ p[n + 1] = a

WithTwo(p, s, a, e, n) ==
    /\ n = Len(s) /\ DOMAIN s = 1..n /\ DOMAIN p = 1..(n + 2)
    /\ \A i \in 1..n : p[i] = s[i]
    /\ p[n + 1] = a /\ p[n + 2] = e

\* One message more.
LEMMA OneMore ==
    ASSUME NEW S, NEW s \in Seq(S), NEW a, NEW p, p = s \o <<a>>
    PROVE  \E n \in Nat : WithOne(p, s, a, n)
<1>1. PICK T : T = S \cup {a}
  OBVIOUS
<1>2. s \in Seq(T) /\ a \in T
  BY <1>1, SeqMonotone
<1>3. PICK n \in Nat : n = Len(s) /\ DOMAIN s = 1..n
  OBVIOUS
<1>4. p = Append(s, a)
  BY <1>2
<1>5. DOMAIN p = 1..(n + 1) /\ p[n + 1] = a /\ \A i \in 1..n : p[i] = s[i]
  BY <1>2, <1>3, <1>4
<1> QED
  BY <1>3, <1>5 DEF WithOne

\* Two messages more.
LEMMA TwoMore ==
    ASSUME NEW S, NEW s \in Seq(S), NEW a, NEW e, NEW p, p = (s \o <<a>>) \o <<e>>
    PROVE  \E n \in Nat : WithTwo(p, s, a, e, n)
<1>1. PICK T : T = S \cup {a, e}
  OBVIOUS
<1>2. s \in Seq(T) /\ a \in T /\ e \in T
  BY <1>1, SeqMonotone
<1>3. PICK w : w = s \o <<a>>
  OBVIOUS
<1>4. w \in Seq(T)
  BY <1>2, <1>3
<1>5. PICK n \in Nat : WithOne(w, s, a, n)
  BY <1>2, <1>3, OneMore
<1>6. PICK k \in Nat : WithOne(p, w, e, k)
  BY <1>3, <1>4, OneMore
<1>7. k = n + 1
  BY <1>4, <1>5, <1>6 DEF WithOne
<1>8. /\ n = Len(s) /\ DOMAIN s = 1..n /\ DOMAIN p = 1..(n + 2)
      /\ p[n + 1] = a /\ p[n + 2] = e
  BY <1>5, <1>6, <1>7 DEF WithOne
<1>9. \A i \in 1..n : p[i] = s[i]
  BY <1>5, <1>6, <1>7 DEF WithOne
<1> QED
  BY <1>8, <1>9 DEF WithTwo

\* The answer to turn/start, and behind it the notification.
LEMMA ServeTurnMirrors ==
    ASSUME OpenInv, TurnsOK, MirrorInv, NEW c \in Slots, ServeTurn(c)
    PROVE  MirrorInv'
<1> DEFINE t == calls[c].thread
           u == lastTurn + 1
           A == Answer(c, t, u, <<>>)
           E == Event("turn/started", t, u)
           told == t \in subscribed
<1>1. /\ TurnStarts(t) /\ t \in AllThreads /\ UNCHANGED pageVars /\ subscribed' = subscribed
      /\ inbox' = (inbox \o <<A>>) \o (IF told THEN <<E>> ELSE <<>>)
  BY DEF ServeTurn, Serve, OpenInv, CallsOK, TypeOK, TurnStarts, Notify
<1>2. /\ A.kind = "answer" /\ A.turn = u /\ A.thread = t /\ u # 0
      /\ IsStart(E, t, u) /\ E.kind \in Events /\ E.thread = t /\ E.kind # "answer"
  BY <1>1, ThreadFacts DEF Answer, Event, IsStart, Events
<1>3. inbox \in Seq(Sent) /\ told \in BOOLEAN
  BY DEF OpenInv, InboxOK
<1> HIDE DEF A, E
<1>4. PICK n \in Nat, m \in Nat :
         /\ m = (IF told THEN n + 2 ELSE n + 1)
         /\ n = Len(inbox) /\ DOMAIN inbox = 1..n /\ DOMAIN inbox' = 1..m
         /\ \A i \in 1..n : inbox'[i] = inbox[i]
         /\ inbox'[n + 1] = A
         /\ told => inbox'[n + 2] = E
  <2>1. CASE told
    <3>1. inbox' = (inbox \o <<A>>) \o <<E>>
      BY <1>1, <2>1
    <3>2. PICK n \in Nat : WithTwo(inbox', inbox, A, E, n)
      BY <1>3, <3>1, TwoMore
    <3>3. n + 2 \in Nat
      OBVIOUS
    <3> HIDE DEF told
    <3> QED
      BY <2>1, <3>2, <3>3 DEF WithTwo
  <2>2. CASE ~told
    <3>1. PICK w : w = inbox \o <<A>>
      OBVIOUS
    <3>2. w \in Seq(Sent \cup {A})
      BY <1>3, <3>1, SeqMonotone
    <3>3. inbox' = inbox \o <<A>>
      BY <1>1, <2>2, <3>1, <3>2
    <3>4. PICK n \in Nat : WithOne(inbox', inbox, A, n)
      BY <1>3, <3>3, OneMore
    <3>5. n + 1 \in Nat
      OBVIOUS
    <3> HIDE DEF told
    <3> QED
      BY <2>2, <3>4, <3>5 DEF WithOne
  <2> QED
    BY <2>1, <2>2
<1>5. Longer(inbox', inbox, m, n)
  BY <1>4 DEF Longer
<1>6. \A j \in (n + 1)..m : j = n + 1 \/ (told /\ j = n + 2 /\ j = m)
  BY <1>4
<1>7. IF told
      THEN /\ n < m /\ IsStart(inbox'[m], t, u)
           /\ \A j \in (n + 1)..(m - 1) : inbox'[j].kind \notin Events
      ELSE \A j \in (n + 1)..m : inbox'[j].kind \notin Events
  <2>1. CASE told
    <3>1. \A j \in (n + 1)..(m - 1) : j = n + 1
      BY <1>4, <2>1
    <3> QED
      BY <1>2, <1>4, <2>1, <3>1 DEF Events
  <2>2. CASE ~told
    BY <1>2, <1>4, <1>6, <2>2 DEF Events
  <2> QED
    BY <2>1, <2>2
<1>8. /\ \A r \in AllThreads : Ordered(inbox', turns'[r], running'[r], r)
      /\ \A r \in subscribed : \A v, i :
            i \in 0..n /\ Shows(inbox, turns[r], running[r], r, v, i)
               => Shows(inbox', turns'[r], running'[r], r, v, i)
  BY <1>1, <1>5, <1>7, TurnStartSent
<1>9. \A j \in (n + 1)..m :
         /\ inbox'[j].kind \in Events => inbox'[j].thread \in subscribed'
         /\ ~Snapshot(inbox'[j])
  BY <1>1, <1>2, <1>4, <1>6 DEF Snapshot, Events
<1>10. ASSUME NEW j \in (n + 1)..m, inbox'[j].kind = "answer", inbox'[j].turn # 0
       PROVE  \/ j + 1 \in DOMAIN inbox' /\ IsStart(inbox'[j + 1], inbox'[j].thread, inbox'[j].turn)
              \/ /\ ~(synced /\ active = inbox'[j].thread)
                 /\ \A i \in DOMAIN inbox' :
                       Snapshot(inbox'[i]) /\ inbox'[i].thread = inbox'[j].thread => i > j
  <2>1. j = n + 1 /\ inbox'[j] = A
    BY <1>2, <1>4, <1>6, <1>10
  <2>2. CASE told
    <3>1. j + 1 = n + 2 /\ n + 2 \in 1..m
      BY <1>4, <2>1, <2>2
    <3> QED
      BY <1>2, <1>4, <2>1, <2>2, <3>1
  <2>3. CASE ~told
    <3>1. ~(synced /\ active = t)
      BY <2>3 DEF MirrorInv, PageOK
    <3>2. \A i \in DOMAIN inbox' : Snapshot(inbox'[i]) => inbox'[i].thread # t
      <4>1. ASSUME NEW i \in DOMAIN inbox', Snapshot(inbox'[i])
            PROVE  i \in DOMAIN inbox /\ inbox'[i] = inbox[i]
        BY <1>4, <1>9, <4>1
      <4> QED
        BY <2>3, <4>1 DEF MirrorInv, SnapshotsOK
    <3> QED
      BY <1>2, <2>1, <3>1, <3>2
  <2> QED
    BY <2>2, <2>3
<1> QED
  BY <1>1, <1>5, <1>8, <1>9, <1>10, SendsKeep

\* The shape of the inbox after a notification, if it goes out.
LEMMA NoticeSent ==
    ASSUME OpenInv, NEW kind \in Events, NEW t, NEW u, inbox' = inbox \o Notify(kind, t, u)
    PROVE  \E n \in Nat, m \in Nat :
              /\ t \in subscribed => m = n + 1
              /\ t \notin subscribed => m = n
              /\ Longer(inbox', inbox, m, n)
              /\ \A j \in (n + 1)..m : /\ t \in subscribed /\ j = m
                                       /\ inbox'[j] = Event(kind, t, u)
<1>1. inbox \in Seq(Sent)
  BY DEF OpenInv, InboxOK
<1>2. CASE t \in subscribed
  <2>1. PICK e : e = Event(kind, t, u)
    OBVIOUS
  <2>2. inbox' = inbox \o <<e>>
    BY <1>2, <2>1 DEF Notify
  <2>3. PICK n \in Nat : WithOne(inbox', inbox, e, n)
    BY <1>1, <2>2, OneMore
  <2>4. PICK m \in Nat : m = n + 1
    OBVIOUS
  <2>5. Longer(inbox', inbox, m, n)
    BY <2>3, <2>4 DEF Longer, WithOne
  <2>6. \A j \in (n + 1)..m : j = m /\ inbox'[j] = e
    BY <2>3, <2>4 DEF WithOne
  <2> QED
    BY <1>2, <2>1, <2>4, <2>5, <2>6
<1>3. CASE t \notin subscribed
  <2>1. inbox' = inbox
    BY <1>1, <1>3 DEF Notify
  <2>2. PICK n \in Nat : n = Len(inbox) /\ DOMAIN inbox = 1..n
    BY <1>1
  <2>3. PICK m \in Nat : m = n
    OBVIOUS
  <2>4. Longer(inbox', inbox, m, n)
    BY <2>1, <2>2, <2>3 DEF Longer
  <2>5. \A j \in (n + 1)..m : FALSE
    BY <2>3
  <2> QED
    BY <1>3, <2>3, <2>4, <2>5
<1> QED
  BY <1>2, <1>3

\* A turn of another client starts.
LEMMA TurnElsewhereMirrors ==
    ASSUME OpenInv, TurnsOK, MirrorInv, NEW t \in AllThreads, TurnElsewhere(t)
    PROVE  MirrorInv'
<1> DEFINE u == lastTurn + 1
<1>1. /\ TurnStarts(t) /\ UNCHANGED pageVars /\ subscribed' = subscribed
      /\ inbox' = inbox \o Notify("turn/started", t, u)
  BY DEF TurnElsewhere, TurnStarts
<1>2. PICK n \in Nat, m \in Nat :
         /\ t \in subscribed => m = n + 1
         /\ t \notin subscribed => m = n
         /\ Longer(inbox', inbox, m, n)
         /\ \A j \in (n + 1)..m : /\ t \in subscribed /\ j = m
                                  /\ inbox'[j] = Event("turn/started", t, u)
  BY <1>1, NoticeSent DEF Events
<1>3. \A j \in (n + 1)..m : /\ t \in subscribed /\ j = m
                            /\ IsStart(inbox'[j], t, u) /\ inbox'[j].thread = t
                            /\ inbox'[j].kind # "answer"
  BY <1>2 DEF Event, IsStart
<1>4. IF t \in subscribed
      THEN /\ n < m /\ IsStart(inbox'[m], t, u)
           /\ \A j \in (n + 1)..(m - 1) : inbox'[j].kind \notin Events
      ELSE \A j \in (n + 1)..m : inbox'[j].kind \notin Events
  <2>1. t \in subscribed => n < m /\ m \in (n + 1)..m
    BY <1>2
  <2> QED
    BY <1>2, <1>3, <2>1
<1>5. /\ \A r \in AllThreads : Ordered(inbox', turns'[r], running'[r], r)
      /\ \A r \in subscribed : \A v, i :
            i \in 0..n /\ Shows(inbox, turns[r], running[r], r, v, i)
               => Shows(inbox', turns'[r], running'[r], r, v, i)
  BY <1>1, <1>2, <1>4, TurnStartSent
<1>6. \A j \in (n + 1)..m : inbox'[j].thread \in subscribed' /\ ~Snapshot(inbox'[j])
                            /\ inbox'[j].kind # "answer"
  BY <1>1, <1>3 DEF Snapshot
<1> QED
  BY <1>1, <1>2, <1>5, <1>6, SendsKeep

\* The turn in progress of a thread ends.
LEMMA TurnEndsMirrors ==
    ASSUME OpenInv, TurnsOK, MirrorInv, NEW t \in AllThreads, TurnEnds(t)
    PROVE  MirrorInv'
<1> DEFINE u == running[t]
<1>1. /\ UNCHANGED pageVars /\ subscribed' = subscribed /\ turns' = turns
      /\ inbox' = inbox \o Notify("turn/completed", t, u)
      /\ running' = [running EXCEPT ![t] = 0] /\ u # 0
  BY DEF TurnEnds
<1>2. PICK n \in Nat, m \in Nat :
         /\ t \in subscribed => m = n + 1
         /\ t \notin subscribed => m = n
         /\ Longer(inbox', inbox, m, n)
         /\ \A j \in (n + 1)..m : /\ t \in subscribed /\ j = m
                                  /\ inbox'[j] = Event("turn/completed", t, u)
  BY <1>1, NoticeSent DEF Events
<1>3. \A j \in (n + 1)..m : /\ t \in subscribed /\ j = m
                            /\ IsEnd(inbox'[j], t, u) /\ inbox'[j].thread = t
                            /\ inbox'[j].kind # "answer"
  BY <1>2 DEF Event, IsEnd
<1>4. /\ running \in [AllThreads -> 0..lastTurn]
      /\ Increasing(turns[t]) /\ turns[t] # <<>> /\ u = turns[t][Len(turns[t])]
      /\ subscribed \subseteq AllThreads
  BY <1>1, ThreadFacts DEF OpenInv, TypeOK
<1>5. u \in TurnIds
  <2>1. Len(turns[t]) \in DOMAIN turns[t]
    BY <1>4 DEF Increasing
  <2> QED
    BY <1>4, <2>1 DEF Increasing
<1>6. \A r \in AllThreads : Ordered(inbox, turns[r], running[r], r)
  BY DEF MirrorInv, EventsOK
<1>7. ASSUME NEW r \in AllThreads, r # t
      PROVE  /\ \A v, i : Shows(inbox, turns[r], running[r], r, v, i)
                             => Shows(inbox', turns'[r], running'[r], r, v, i)
             /\ Ordered(inbox', turns'[r], running'[r], r)
  <2>1. turns'[r] = turns[r] /\ running'[r] = running[r]
    BY <1>1, <1>4, <1>7
  <2>2. Quiet(inbox', r, m, n)
    BY <1>3, <1>7 DEF Quiet
  <2> QED
    BY <1>2, <1>6, <2>1, <2>2, QuietKeeps
<1>8. running'[t] = 0 /\ turns'[t] = turns[t]
  BY <1>1, <1>4
<1>9. ASSUME t \in subscribed
      PROVE  /\ \A v, i : i \in 0..n /\ Shows(inbox, turns[t], running[t], t, v, i)
                              => Shows(inbox', turns'[t], running'[t], t, v, i)
             /\ Ordered(inbox', turns'[t], running'[t], t)
  <2>1. Quiet(inbox', t, m - 1, n)
    BY <1>2 DEF Quiet
  <2>2. n < m /\ m \in (n + 1)..m
    BY <1>2, <1>9
  <2>3. IsEnd(inbox'[m], t, u)
    BY <1>3, <2>2
  <2> HIDE DEF u
  <2>4. Ordered(inbox, turns[t], u, t)
    BY <1>6 DEF u
  <2>5. /\ \A v, i : i \in 0..n /\ Shows(inbox, turns[t], u, t, v, i)
                        => Shows(inbox', turns[t], 0, t, v, i)
        /\ Ordered(inbox', turns[t], 0, t)
    BY <1>2, <1>4, <1>5, <2>1, <2>2, <2>3, <2>4, EndKeeps
  <2> QED
    BY <1>8, <2>5 DEF u
<1>10. ASSUME t \notin subscribed
       PROVE  Ordered(inbox', turns'[t], running'[t], t)
  <2>1. ASSUME NEW j \in DOMAIN inbox', inbox'[j].kind \in Events PROVE inbox'[j].thread # t
    <3>1. j \in (n + 1)..m \/ (j \in DOMAIN inbox /\ inbox'[j] = inbox[j])
      BY <1>2 DEF Longer
    <3>2. \A i \in DOMAIN inbox : inbox[i].kind \in Events => inbox[i].thread # t
      BY <1>10 DEF MirrorInv, EventsOK
    <3> QED
      BY <1>3, <1>10, <2>1, <3>1, <3>2
  <2> QED
    BY <2>1, NoEvents
<1>11. /\ \A r \in AllThreads : Ordered(inbox', turns'[r], running'[r], r)
       /\ \A r \in subscribed : \A v, i :
             i \in 0..n /\ Shows(inbox, turns[r], running[r], r, v, i)
                => Shows(inbox', turns'[r], running'[r], r, v, i)
  <2>1. \A r \in AllThreads : Ordered(inbox', turns'[r], running'[r], r)
    BY <1>7, <1>9, <1>10
  <2>2. ASSUME NEW r \in subscribed, NEW v, NEW i \in 0..n, Shows(inbox, turns[r], running[r], r, v, i)
        PROVE  Shows(inbox', turns'[r], running'[r], r, v, i)
    <3>1. CASE r = t
      BY <1>9, <2>2, <3>1
    <3>2. CASE r # t
      BY <1>4, <1>7, <2>2, <3>2
    <3> QED
      BY <3>1, <3>2
  <2> QED
    BY <2>1, <2>2
<1>12. \A j \in (n + 1)..m : inbox'[j].thread \in subscribed' /\ ~Snapshot(inbox'[j])
                             /\ inbox'[j].kind # "answer"
  BY <1>1, <1>3 DEF Snapshot
<1> QED
  BY <1>1, <1>2, <1>11, <1>12, SendsKeep
-----------------------------------------------------------------------------
(* What the page does with the next message.                                *)

\* What is left of the inbox is still in order, and its snapshots are right.
LEMMA RestKeeps ==
    ASSUME OpenInv, MirrorInv, UNCHANGED serverVars,
           NEW h, NEW d \in Nat, NEW m \in Nat, NEW n \in Nat,
           DOMAIN inbox' = 1..m, DOMAIN inbox = 1..n, Rest(inbox', inbox, h, d)
    PROVE  EventsOK' /\ SnapshotsOK'
<1>1. UNCHANGED <<turns, running, subscribed>>
  BY DEF serverVars
<1>2. \A j \in DOMAIN inbox' : h[j] \in DOMAIN inbox /\ inbox'[j] = inbox[h[j]]
  BY DEF Rest
<1>3. EventsOK'
  <2>1. ASSUME NEW t \in AllThreads
        PROVE  /\ Ordered(inbox', turns[t], running[t], t)
               /\ \A j \in DOMAIN inbox' :
                     inbox'[j].kind \in Events /\ inbox'[j].thread = t => t \in subscribed
    <3>1. Ordered(inbox, turns[t], running[t], t)
      BY DEF MirrorInv, EventsOK
    <3>2. Ordered(inbox', turns[t], running[t], t)
      BY <3>1, RestOrdered
    <3> QED
      BY <1>2, <3>2 DEF MirrorInv, EventsOK
  <2> QED
    BY <1>1, <2>1 DEF EventsOK
<1>4. SnapshotsOK'
  <2>1. ASSUME NEW j \in DOMAIN inbox', Snapshot(inbox'[j])
        PROVE  /\ inbox'[j].thread \in subscribed
               /\ Shows(inbox', turns[inbox'[j].thread], running[inbox'[j].thread],
                        inbox'[j].thread, inbox'[j].view, j)
    <3>1. PICK t, v : t = inbox'[j].thread /\ v = inbox'[j].view
      OBVIOUS
    <3>2. PICK e \in Nat : e = h[j] /\ e \in DOMAIN inbox /\ inbox'[j] = inbox[e]
      BY <1>2
    <3>3. t \in subscribed /\ Shows(inbox, turns[t], running[t], t, v, e)
      BY <2>1, <3>1, <3>2 DEF MirrorInv, SnapshotsOK
    <3>4. j \in 0..m /\ j # 0
      OBVIOUS
    <3>5. Shows(inbox', turns[t], running[t], t, v, j)
      BY <3>2, <3>3, <3>4, RestShows
    <3> QED
      BY <3>1, <3>3, <3>5
  <2> QED
    BY <1>1, <2>1 DEF SnapshotsOK
<1> QED
  BY <1>3, <1>4

\* Answers to turn/start that are left still have their notification behind
\* them, or a snapshot.
LEMMA RestAnswers ==
    ASSUME OpenInv, MirrorInv,
           NEW h, NEW d \in Nat, NEW m \in Nat, NEW n \in Nat,
           DOMAIN inbox' = 1..m, DOMAIN inbox = 1..n, Rest(inbox', inbox, h, d),
           synced' => \/ synced /\ active' = active
                      \/ /\ d = 1 /\ 1 \in DOMAIN inbox
                         /\ Snapshot(inbox[1]) /\ inbox[1].thread = active'
    PROVE  TurnAnswersOK'
<1>1. \A j \in DOMAIN inbox' : /\ j \in Nat /\ h[j] \in Nat /\ h[j] > d
                               /\ h[j] \in DOMAIN inbox /\ inbox'[j] = inbox[h[j]]
  BY DEF Rest
<1>2. ASSUME NEW j \in DOMAIN inbox', NEW k \in DOMAIN inbox'
      PROVE  (j < k => h[j] < h[k]) /\ (h[j] < h[k] => j < k)
  <2>1. (j < k => h[j] < h[k]) /\ (k < j => h[k] < h[j])
    BY DEF Rest
  <2> QED
    BY <1>1, <2>1
<1>3. ASSUME NEW j \in DOMAIN inbox', inbox'[j].kind = "answer", inbox'[j].turn # 0
      PROVE  \/ /\ j + 1 \in DOMAIN inbox'
                /\ IsStart(inbox'[j + 1], inbox'[j].thread, inbox'[j].turn)
             \/ /\ ~(synced' /\ active' = inbox'[j].thread)
                /\ \A i \in DOMAIN inbox' :
                      Snapshot(inbox'[i]) /\ inbox'[i].thread = inbox'[j].thread => i > j
  <2>1. PICK g \in Nat : /\ g = h[j] /\ g \in DOMAIN inbox /\ inbox'[j] = inbox[g] /\ g > d
    BY <1>1
  <2>2. CASE g + 1 \in DOMAIN inbox /\ IsStart(inbox[g + 1], inbox[g].thread, inbox[g].turn)
    <3>1. inbox[g + 1].kind \in Events /\ g + 1 > d
      BY <2>1, <2>2 DEF IsStart, Events
    <3>2. PICK k \in DOMAIN inbox' : h[k] = g + 1
      BY <2>2, <3>1 DEF Rest
    <3>3. j < k
      BY <1>2, <2>1, <3>2
    <3>4. ~(j + 1 < k)
      <4>1. SUFFICES ASSUME j + 1 < k PROVE FALSE
        OBVIOUS
      <4>2. j + 1 \in DOMAIN inbox'
        BY <1>1, <4>1
      <4>3. h[j] < h[j + 1] /\ h[j + 1] < h[k] /\ h[j + 1] \in Nat
        BY <1>1, <1>2, <4>1, <4>2
      <4> QED
        BY <2>1, <3>2, <4>3
    <3>5. k = j + 1
      BY <1>1, <3>3, <3>4
    <3> QED
      BY <1>1, <2>1, <2>2, <3>2, <3>5
  <2>3. CASE /\ ~(synced /\ active = inbox[g].thread)
             /\ \A i \in DOMAIN inbox :
                   Snapshot(inbox[i]) /\ inbox[i].thread = inbox[g].thread => i > g
    <3>1. ASSUME NEW i \in DOMAIN inbox', Snapshot(inbox'[i]), inbox'[i].thread = inbox'[j].thread
          PROVE  i > j
      <4>1. h[i] > h[j]
        BY <1>1, <2>1, <2>3, <3>1
      <4> QED
        BY <1>1, <1>2, <4>1
    <3>2. ~(synced' /\ active' = inbox'[j].thread)
      BY <2>1, <2>3
    <3> QED
      BY <3>1, <3>2
  <2> QED
    BY <1>3, <2>1, <2>2, <2>3 DEF MirrorInv, TurnAnswersOK
<1> QED
  BY <1>3 DEF TurnAnswersOK

\* The page has taken the first message out of the inbox.
LEMMA NextTaken ==
    ASSUME OpenInv, MirrorInv, UNCHANGED serverVars, inbox # <<>>, inbox' = Tail(inbox),
           synced' => \/ synced /\ active' = active
                      \/ Snapshot(inbox[1]) /\ inbox[1].thread = active'
    PROVE  /\ EventsOK' /\ SnapshotsOK' /\ TurnAnswersOK'
           /\ \E n \in Nat : DOMAIN inbox = 1..n /\ n # 0
           /\ \A s, r, t, v : Shows(inbox, s, r, t, v, 1) => Shows(inbox', s, r, t, v, 0)
           /\ 2 \in DOMAIN inbox =>
                 /\ 1 \in DOMAIN inbox' /\ inbox'[1] = inbox[2]
                 /\ \A s, r, t, v : Shows(inbox, s, r, t, v, 2) => Shows(inbox', s, r, t, v, 1)
<1>1. InboxOK /\ inbox \in Seq(Sent)
  BY DEF OpenInv, InboxOK
<1>2. PICK n \in Nat : n = Len(inbox) /\ DOMAIN inbox = 1..n /\ n # 0
  BY <1>1
<1>3. PICK m \in Nat : m = n - 1 /\ DOMAIN inbox' = 1..m
  <2>1. n - 1 \in Nat /\ DOMAIN inbox' = 1..(n - 1)
    BY <1>1, <1>2
  <2> QED
    BY <2>1
<1> DEFINE h == [k \in DOMAIN inbox' |-> k + 1]
<1>4. Selected(h) /\ \A k \in DOMAIN inbox' : h[k] = k + 1
  BY <1>1, SelectsTail
<1> HIDE DEF h
<1>5. DOMAIN inbox = 1..n /\ DOMAIN inbox' = 1..m
  BY <1>2, <1>3
<1>6. Rest(inbox', inbox, h, 1)
  <2>1. \A k \in DOMAIN inbox' : h[k] > 1
    BY <1>3, <1>4
  <2>2. ASSUME NEW i \in DOMAIN inbox, i > 1 PROVE \E k \in DOMAIN inbox' : h[k] = i
    <3>1. i - 1 \in DOMAIN inbox' /\ (i - 1) + 1 = i
      BY <1>2, <1>3, <2>2
    <3> QED
      BY <1>4, <3>1
  <2> QED
    BY <1>4, <2>1, <2>2 DEF Selected, Rest
<1>7. EventsOK' /\ SnapshotsOK'
  BY <1>2, <1>3, <1>6, RestKeeps
<1>8. TurnAnswersOK'
  <2>1. 1 \in DOMAIN inbox
    BY <1>2
  <2> QED
    BY <1>2, <1>3, <1>6, <2>1, RestAnswers
<1>9. ASSUME NEW s, NEW r, NEW t, NEW v, Shows(inbox, s, r, t, v, 1)
      PROVE  Shows(inbox', s, r, t, v, 0)
  <2>1. PICK i \in 0..m : i = 0
    OBVIOUS
  <2>2. PICK d \in Nat, e \in Nat : d = 1 /\ e = 1
    OBVIOUS
  <2>3. /\ Rest(inbox', inbox, h, d) /\ Shows(inbox, s, r, t, v, e)
        /\ IF i = 0 THEN e = d ELSE e = h[i]
    BY <1>6, <1>9, <2>1, <2>2
  <2>4. Shows(inbox', s, r, t, v, i)
    BY <1>5, <2>3, RestShows
  <2> QED
    BY <2>1, <2>4
<1>10. ASSUME 2 \in DOMAIN inbox
      PROVE  /\ 1 \in DOMAIN inbox' /\ inbox'[1] = inbox[2]
             /\ \A s, r, t, v : Shows(inbox, s, r, t, v, 2) => Shows(inbox', s, r, t, v, 1)
  <2>1. 1 \in DOMAIN inbox' /\ 1 \in 0..m
    BY <1>2, <1>3, <1>10
  <2>2. h[1] = 2 /\ inbox'[1] = inbox[2]
    BY <1>4, <2>1 DEF Selected
  <2>3. ASSUME NEW s, NEW r, NEW t, NEW v, Shows(inbox, s, r, t, v, 2)
        PROVE  Shows(inbox', s, r, t, v, 1)
    <3>1. PICK i \in 0..m : i = 1
      BY <2>1
    <3>2. PICK d \in Nat, e \in Nat : d = 1 /\ e = 2
      OBVIOUS
    <3>3. /\ Rest(inbox', inbox, h, d) /\ Shows(inbox, s, r, t, v, e)
          /\ IF i = 0 THEN e = d ELSE e = h[i]
      BY <1>6, <2>2, <2>3, <3>1, <3>2
    <3>4. Shows(inbox', s, r, t, v, i)
      BY <1>5, <3>3, RestShows
    <3> QED
      BY <3>1, <3>4
  <2> QED
    BY <2>1, <2>2, <2>3
<1> QED
  BY <1>2, <1>7, <1>8, <1>9, <1>10

\* The page ignores the message: it is an answer, or an event of another
\* thread.
LEMMA Ignored ==
    ASSUME OpenInv, MirrorInv, UNCHANGED serverVars, inbox # <<>>, inbox' = Tail(inbox),
           UNCHANGED pageVars,
           inbox[1].kind \in Events => inbox[1].thread # active
    PROVE  MirrorInv'
<1>1. UNCHANGED <<active, loaded, view, activeTurn, synced, crossed, turns, running, subscribed>>
  BY DEF pageVars, serverVars
<1>2. /\ EventsOK' /\ SnapshotsOK' /\ TurnAnswersOK'
      /\ \E n \in Nat : DOMAIN inbox = 1..n /\ n # 0
      /\ \A s, r, t, v : Shows(inbox, s, r, t, v, 1) => Shows(inbox', s, r, t, v, 0)
  BY <1>1, NextTaken
<1>3. PICK n \in Nat : DOMAIN inbox = 1..n /\ n # 0
  BY <1>2
<1>4. PageOK'
  <2>1. ASSUME synced, ~crossed PROVE Shows(inbox', turns[active], running[active], active, view, 0)
    <3>1. ShowsAt(0)
      BY <2>1 DEF MirrorInv, PageOK, Events
    <3>2. 0 \in 0..(n - 1) /\ 0 + 1 = 1
      BY <1>3
    <3>3. Shows(inbox, turns[active], running[active], active, view, 0 + 1)
      BY <1>3, <3>1, <3>2, NextIsOther DEF ShowsAt
    <3> QED
      BY <1>2, <3>2, <3>3
  <2> QED
    BY <1>1, <2>1 DEF MirrorInv, PageOK, ShowsAt
<1> QED
  BY <1>2, <1>4 DEF MirrorInv

\* A thread is shown as its snapshot has it.
LEMMA SnapshotShown ==
    ASSUME OpenInv, MirrorInv, UNCHANGED serverVars, inbox # <<>>, inbox' = Tail(inbox),
           Snapshot(inbox[1]), active' = inbox[1].thread, view' = inbox[1].view, loaded' = TRUE,
           ~crossed' => Runs(view', activeTurn')
    PROVE  MirrorInv'
<1>1. UNCHANGED <<turns, running, subscribed>>
  BY DEF serverVars
<1>2. /\ EventsOK' /\ SnapshotsOK' /\ TurnAnswersOK'
      /\ \E n \in Nat : DOMAIN inbox = 1..n /\ n # 0
      /\ \A s, r, t, v : Shows(inbox, s, r, t, v, 1) => Shows(inbox', s, r, t, v, 0)
  BY NextTaken
<1>3. 1 \in DOMAIN inbox
  BY <1>2
<1>4. /\ active' \in subscribed
      /\ Shows(inbox, turns[active'], running[active'], active', view', 1)
  BY <1>3 DEF MirrorInv, SnapshotsOK
<1>5. PageOK'
  BY <1>1, <1>2, <1>4 DEF PageOK, ShowsAt
<1> QED
  BY <1>2, <1>5 DEF MirrorInv

\* The answer to thread/resume.
LEMMA ResumeAnsweredMirrors ==
    ASSUME OpenInv, MirrorInv, ResumeAnswered
    PROVE  MirrorInv'
<1> DEFINE m == Head(inbox)
<1>1. AnswerTo("resume") /\ inbox # <<>> /\ inbox' = Tail(inbox) /\ TypeOK
  BY DEF ResumeAnswered, AnswerTo, Receive, OpenInv
<1>2. /\ m = inbox[1] /\ m \in Sent /\ m.kind = "answer" /\ calls[m.call].op = "resume"
      /\ Answered(m) /\ UNCHANGED <<serverVars, linkVars>>
  BY <1>1, AnswerTaken
<1>3. Snapshot(m) /\ m.view \in Shown
  BY <1>2 DEF Snapshot, Answered, Sent
<1>4. \/ UNCHANGED pageVars
      \/ /\ active' = m.thread /\ loaded' = TRUE /\ view' = m.view
         /\ activeTurn' = FindActiveTurn(m.view)
  BY DEF ResumeAnswered
<1> HIDE DEF m
<1>5. CASE UNCHANGED pageVars
  BY <1>1, <1>2, <1>5, Ignored DEF Events
<1>6. CASE /\ active' = m.thread /\ loaded' = TRUE /\ view' = m.view
           /\ activeTurn' = FindActiveTurn(m.view)
  <2>1. Runs(m.view, FindActiveTurn(m.view))
    BY <1>1, <1>3, ShownTypes DEF Runs
  <2> QED
    BY <1>1, <1>2, <1>3, <1>6, <2>1, SnapshotShown
<1> QED
  BY <1>4, <1>5, <1>6

\* The answer to thread/start.
LEMMA StartAnsweredMirrors ==
    ASSUME OpenInv, MirrorInv, StartAnswered
    PROVE  MirrorInv'
<1> DEFINE m == Head(inbox)
<1>1. AnswerTo("start") /\ inbox # <<>> /\ inbox' = Tail(inbox)
  BY DEF StartAnswered, AnswerTo, Receive
<1>2. /\ m = inbox[1] /\ m \in Sent /\ m.kind = "answer" /\ calls[m.call].op = "start"
      /\ Answered(m) /\ UNCHANGED <<serverVars, linkVars>>
  BY <1>1, AnswerTaken
<1>3. Snapshot(m) /\ m.view = <<>>
  BY <1>2 DEF Snapshot, Answered
<1>4. \/ UNCHANGED pageVars
      \/ /\ active' = m.thread /\ loaded' = TRUE /\ view' = <<>>
         /\ crossed' = (activeTurn # 0) /\ activeTurn' = activeTurn
  BY DEF StartAnswered
<1> HIDE DEF m
<1>5. CASE UNCHANGED pageVars
  BY <1>1, <1>2, <1>5, Ignored DEF Events
<1>6. CASE /\ active' = m.thread /\ loaded' = TRUE /\ view' = <<>>
           /\ crossed' = (activeTurn # 0) /\ activeTurn' = activeTurn
  <2>1. DOMAIN <<>> = {}
    OBVIOUS
  <2>2. Runs(<<>>, 0)
    BY <2>1 DEF Runs
  <2>3. ~crossed' => activeTurn' = 0
    BY <1>6
  <2> QED
    BY <1>1, <1>2, <1>3, <1>6, <2>2, <2>3, SnapshotShown
<1> QED
  BY <1>4, <1>5, <1>6

\* What a thread on the page is, for the lemmas about its view.
LEMMA ShownFacts ==
    ASSUME OpenInv, TurnsOK, MirrorInv, synced
    PROVE  /\ active \in AllThreads /\ active \in subscribed /\ loaded /\ view \in Views
           /\ Increasing(turns[active])
           /\ Ordered(inbox, turns[active], running[active], active)
           /\ running[active] # 0 =>
                 turns[active] # <<>> /\ running[active] = turns[active][Len(turns[active])]
<1>1. active \in AllThreads /\ active \in subscribed /\ loaded /\ view \in Views
  BY DEF MirrorInv, PageOK, OpenInv, TypeOK
<1>2. Ordered(inbox, turns[active], running[active], active)
  BY <1>1 DEF MirrorInv, EventsOK
<1> QED
  BY <1>1, <1>2, ThreadFacts

\* The invariant after the first message has been handled, given what is
\* shown then.
LEMMA Handled ==
    ASSUME OpenInv, TurnsOK, MirrorInv, UNCHANGED serverVars, inbox # <<>>, inbox' = Tail(inbox),
           UNCHANGED <<active, loaded, synced>>,
           synced' /\ ~crossed' =>
              /\ Runs(view', activeTurn')
              /\ \/ Shows(inbox, turns[active], running[active], active, view', 1)
                 \/ /\ 2 \in DOMAIN inbox /\ inbox[2].thread = active
                    /\ inbox[2].kind = "turn/started"
                    /\ Shows(inbox, turns[active], running[active], active, view', 2)
    PROVE  MirrorInv'
<1>1. UNCHANGED <<turns, running, subscribed>>
  BY DEF serverVars
<1>2. /\ EventsOK' /\ SnapshotsOK' /\ TurnAnswersOK'
      /\ \A s, r, t, v : Shows(inbox, s, r, t, v, 1) => Shows(inbox', s, r, t, v, 0)
      /\ 2 \in DOMAIN inbox =>
            /\ 1 \in DOMAIN inbox' /\ inbox'[1] = inbox[2]
            /\ \A s, r, t, v : Shows(inbox, s, r, t, v, 2) => Shows(inbox', s, r, t, v, 1)
  BY NextTaken
<1>3. PageOK'
  <2>1. synced' => loaded' /\ active' \in subscribed'
    BY <1>1 DEF MirrorInv, PageOK
  <2>2. ASSUME synced', ~crossed'
        PROVE  \/ Shows(inbox', turns[active], running[active], active, view', 0)
               \/ /\ 1 \in DOMAIN inbox' /\ inbox'[1].thread = active
                  /\ inbox'[1].kind = "turn/started"
                  /\ Shows(inbox', turns[active], running[active], active, view', 1)
    BY <1>2, <2>2
  <2> QED
    BY <1>1, <2>1, <2>2 DEF PageOK, ShowsAt
<1> QED
  BY <1>2, <1>3 DEF MirrorInv

\* The answer to turn/start: the turn is shown before its notification has
\* come, which is next.
LEMMA TurnAnsweredMirrors ==
    ASSUME OpenInv, TurnsOK, MirrorInv, TurnAnswered
    PROVE  MirrorInv'
<1> DEFINE m == Head(inbox)
<1>1. /\ AnswerTo("turn") /\ inbox # <<>> /\ inbox' = Tail(inbox)
      /\ UpsertTurn(m.turn, TRUE) /\ activeTurn' = m.turn
      /\ crossed' = (crossed \/ m.thread # active)
      /\ UNCHANGED <<active, loaded, synced>>
  BY DEF TurnAnswered, AnswerTo, Receive
<1>2. /\ m = inbox[1] /\ 1 \in DOMAIN inbox /\ m.kind = "answer"
      /\ calls[m.call].op = "turn" /\ Answered(m) /\ UNCHANGED <<serverVars, linkVars>>
  BY <1>1, AnswerTaken
<1>3. m.turn # 0
  BY <1>2 DEF Answered
<1> HIDE DEF m
<1>4. ASSUME synced', ~crossed'
      PROVE  /\ Runs(view', activeTurn')
             /\ 2 \in DOMAIN inbox /\ inbox[2].thread = active
             /\ inbox[2].kind = "turn/started"
             /\ Shows(inbox, turns[active], running[active], active, view', 2)
  <2>1. synced /\ ~crossed /\ m.thread = active
    BY <1>1, <1>4
  <2>2. 2 \in DOMAIN inbox /\ IsStart(inbox[2], active, m.turn)
    <3>1. 1 + 1 \in DOMAIN inbox /\ IsStart(inbox[1 + 1], inbox[1].thread, inbox[1].turn)
      BY <1>2, <1>3, <2>1 DEF MirrorInv, TurnAnswersOK
    <3> QED
      BY <1>2, <2>1, <3>1
  <2>3. m.turn \in TurnIds
    <3>1. inbox[2].kind \in Events /\ inbox[2].turn = m.turn
      BY <2>2 DEF IsStart, Events
    <3> QED
      BY <2>2, <3>1, MessagesOfThreads
  <2>4. PICK n \in Nat : DOMAIN inbox = 1..n
    BY DEF OpenInv, InboxOK
  <2>5. /\ loaded /\ view \in Views /\ Increasing(turns[active])
        /\ Ordered(inbox, turns[active], running[active], active)
    BY <2>1, ShownFacts
  <2>6. ShowsAt(0)
    BY <1>2, <2>1 DEF MirrorInv, PageOK
  <2>7. PICK i \in 0..(n - 1), k \in 0..(n - 1) : i = 0 /\ k = 1
    BY <2>2, <2>4
  <2>8. Shows(inbox, turns[active], running[active], active, view, i + 1)
    <3>1. inbox[i + 1].kind \notin Events
      BY <1>2, <2>7 DEF Events
    <3>2. Shows(inbox, turns[active], running[active], active, view, i)
      BY <2>6, <2>7 DEF ShowsAt
    <3> QED
      BY <2>4, <3>1, <3>2, NextIsOther
  <2>9. Shows(inbox, turns[active], running[active], active, view, k) /\ IsStart(inbox[k + 1], active, m.turn)
    BY <2>2, <2>7, <2>8
  <2> DEFINE w == Append(view, [id |-> m.turn, live |-> TRUE])
  <2>10. /\ \A j \in DOMAIN view : view[j].id # m.turn
         /\ Shows(inbox, turns[active], running[active], active, w, k + 1)
         /\ Runs(w, m.turn)
    BY <2>3, <2>4, <2>5, <2>9, StartIsAdded
  <2>11. view' = w
    BY <1>1, <2>5, <2>10 DEF UpsertTurn
  <2> HIDE DEF w
  <2> QED
    BY <1>1, <2>2, <2>7, <2>10, <2>11 DEF IsStart
<1> QED
  BY <1>1, <1>2, <1>4, Handled

\* turn/started.
LEMMA TurnStartedMirrors ==
    ASSUME OpenInv, TurnsOK, MirrorInv, TurnStarted
    PROVE  MirrorInv'
<1> DEFINE m == Head(inbox)
<1>1. /\ inbox # <<>> /\ inbox' = Tail(inbox) /\ m.kind = "turn/started" /\ UNCHANGED serverVars
      /\ UNCHANGED <<active, loaded, synced, crossed>>
      /\ IF m.thread = active
         THEN UpsertTurn(m.turn, TRUE) /\ activeTurn' = m.turn
         ELSE UNCHANGED <<view, activeTurn>>
  BY DEF TurnStarted, Receive, InScope
<1>2. m = inbox[1] /\ 1 \in DOMAIN inbox
  BY <1>1 DEF OpenInv, InboxOK
<1> HIDE DEF m
<1>3. CASE m.thread # active
  BY <1>1, <1>2, <1>3, Ignored DEF pageVars
<1>4. ASSUME m.thread = active, synced', ~crossed'
      PROVE  /\ Runs(view', activeTurn')
             /\ Shows(inbox, turns[active], running[active], active, view', 1)
  <2>1. synced /\ ~crossed /\ UpsertTurn(m.turn, TRUE) /\ activeTurn' = m.turn
    BY <1>1, <1>4
  <2>2. m.turn \in TurnIds
    BY <1>1, <1>2, MessagesOfThreads DEF Events
  <2>3. PICK n \in Nat : DOMAIN inbox = 1..n
    BY DEF OpenInv, InboxOK
  <2>4. /\ loaded /\ view \in Views /\ Increasing(turns[active])
        /\ Ordered(inbox, turns[active], running[active], active)
    BY <2>1, ShownFacts
  <2>5. PICK i \in 0..(n - 1) : i = 0
    BY <1>2, <2>3
  <2>6. IsStart(inbox[i + 1], active, m.turn)
    BY <1>1, <1>2, <1>4, <2>5 DEF IsStart
  <2>7. CASE ShowsAt(0)
    <3> DEFINE w == Append(view, [id |-> m.turn, live |-> TRUE])
    <3>1. Shows(inbox, turns[active], running[active], active, view, i)
      BY <2>5, <2>7 DEF ShowsAt
    <3>2. /\ \A j \in DOMAIN view : view[j].id # m.turn
          /\ Shows(inbox, turns[active], running[active], active, w, i + 1)
          /\ Runs(w, m.turn)
      BY <2>2, <2>3, <2>4, <2>6, <3>1, StartIsAdded
    <3>3. view' = w
      BY <2>1, <2>4, <3>2 DEF UpsertTurn
    <3> HIDE DEF w
    <3> QED
      BY <2>1, <2>5, <3>2, <3>3
  <2>8. CASE ShowsAt(1)
    <3>1. Shows(inbox, turns[active], running[active], active, view, i + 1)
      BY <2>5, <2>8 DEF ShowsAt
    <3> DEFINE w == Replaced(view, m.turn, TRUE)
    <3>2. /\ \E j \in DOMAIN view : view[j].id = m.turn
          /\ Shows(inbox, turns[active], running[active], active, w, i + 1)
          /\ Runs(w, m.turn)
      BY <2>2, <2>3, <2>4, <2>6, <3>1, StartIsKnown
    <3>3. view' = w
      BY <2>1, <2>4, <3>2 DEF UpsertTurn, Replaced
    <3> HIDE DEF w
    <3> QED
      BY <2>1, <2>5, <3>2, <3>3
  <2> QED
    BY <2>1, <2>7, <2>8 DEF MirrorInv, PageOK
<1> QED
  BY <1>1, <1>3, <1>4, Handled

\* turn/completed.
LEMMA TurnCompletedMirrors ==
    ASSUME OpenInv, TurnsOK, MirrorInv, TurnCompleted
    PROVE  MirrorInv'
<1> DEFINE m == Head(inbox)
<1>1. /\ inbox # <<>> /\ inbox' = Tail(inbox) /\ m.kind = "turn/completed" /\ UNCHANGED serverVars
      /\ UNCHANGED <<active, loaded, synced, crossed>>
      /\ IF m.thread = active
         THEN UpsertTurn(m.turn, FALSE) /\ activeTurn' = 0
         ELSE UNCHANGED <<view, activeTurn>>
  BY DEF TurnCompleted, Receive, InScope
<1>2. m = inbox[1] /\ 1 \in DOMAIN inbox
  BY <1>1 DEF OpenInv, InboxOK
<1> HIDE DEF m
<1>3. CASE m.thread # active
  BY <1>1, <1>2, <1>3, Ignored DEF pageVars
<1>4. ASSUME m.thread = active, synced', ~crossed'
      PROVE  /\ Runs(view', activeTurn')
             /\ Shows(inbox, turns[active], running[active], active, view', 1)
  <2>1. synced /\ ~crossed /\ UpsertTurn(m.turn, FALSE) /\ activeTurn' = 0
    BY <1>1, <1>4
  <2>2. m.turn \in TurnIds
    BY <1>1, <1>2, MessagesOfThreads DEF Events
  <2>3. PICK n \in Nat : DOMAIN inbox = 1..n
    BY DEF OpenInv, InboxOK
  <2>4. /\ loaded /\ view \in Views /\ Increasing(turns[active])
        /\ Ordered(inbox, turns[active], running[active], active)
        /\ running[active] # 0 =>
              turns[active] # <<>> /\ running[active] = turns[active][Len(turns[active])]
    BY <2>1, ShownFacts
  <2>5. PICK i \in 0..(n - 1) : i = 0
    BY <1>2, <2>3
  <2>6. IsEnd(inbox[i + 1], active, m.turn)
    BY <1>1, <1>2, <1>4, <2>5 DEF IsEnd
  <2>7. ShowsAt(0)
    BY <1>1, <1>2, <2>1 DEF MirrorInv, PageOK
  <2>8. Shows(inbox, turns[active], running[active], active, view, i)
    BY <2>5, <2>7 DEF ShowsAt
  <2> DEFINE w == Replaced(view, m.turn, FALSE)
  <2>9. /\ \E j \in DOMAIN view : view[j].id = m.turn
        /\ Shows(inbox, turns[active], running[active], active, w, i + 1)
        /\ Runs(w, 0)
    BY <2>2, <2>3, <2>4, <2>6, <2>8, EndIsShown
  <2>10. view' = w
    BY <2>1, <2>4, <2>9 DEF UpsertTurn, Replaced
  <2> HIDE DEF w
  <2> QED
    BY <2>1, <2>5, <2>9, <2>10
<1> QED
  BY <1>1, <1>3, <1>4, Handled

\* A call fails: its answer goes, and every event stays where it was.
LEMMA FailsMirrors ==
    ASSUME OpenInv, TurnsOK, MirrorInv, NEW c \in Slots, Fails(c)
    PROVE  MirrorInv'
<1> DEFINE T == {m \in Range(inbox) : m.call # c}
<1>1. /\ InboxOK /\ AnswersOK /\ inbox \in Seq(Sent) /\ inbox' = Keep(inbox, T)
      /\ UNCHANGED <<serverVars, pageVars>>
  BY DEF OpenInv, InboxOK, Fails
<1>2. \A i \in DOMAIN inbox : inbox[i].kind \in Events => inbox[i] \in T
  BY <1>1 DEF AnswersOK, Range
<1> HIDE DEF T
<1>3. inbox' \in Seq(Sent)
  BY <1>1, SelectsKept
<1>4. PICK h : /\ Selected(h)
               /\ \A i \in DOMAIN inbox : inbox[i] \in T => \E k \in DOMAIN inbox' : h[k] = i
  BY <1>1, SelectsKept
<1>5. PICK m \in Nat : DOMAIN inbox' = 1..m
  BY <1>3
<1>6. PICK n \in Nat : DOMAIN inbox = 1..n
  BY <1>1
<1>7. PICK d \in Nat : d = 0
  OBVIOUS
<1>8. Rest(inbox', inbox, h, d)
  <2>1. \A k \in DOMAIN inbox' : h[k] > d
    BY <1>4, <1>6, <1>7 DEF Selected
  <2> QED
    BY <1>2, <1>4, <2>1 DEF Selected, Rest
<1>9. EventsOK' /\ SnapshotsOK'
  BY <1>1, <1>5, <1>6, <1>8, RestKeeps
<1>10. UNCHANGED <<turns, running, subscribed, active, loaded, view, activeTurn, synced, crossed>>
  BY <1>1 DEF serverVars, pageVars
<1>11. TurnAnswersOK'
  BY <1>5, <1>6, <1>8, <1>10, RestAnswers
<1>12. PageOK'
  <2>1. ASSUME NEW i \in 0..m, NEW e \in Nat, IF i = 0 THEN e = d ELSE e = h[i], ShowsAt(e)
        PROVE  Shows(inbox', turns[active], running[active], active, view, i)
    BY <1>5, <1>6, <1>8, <2>1, RestShows DEF ShowsAt
  <2>2. ASSUME ShowsAt(0)
        PROVE  Shows(inbox', turns[active], running[active], active, view, 0)
    <3>1. PICK i \in 0..m : i = 0
      OBVIOUS
    <3> QED
      BY <1>7, <2>1, <2>2, <3>1
  <2>3. ASSUME 1 \in DOMAIN inbox, inbox[1].thread = active, inbox[1].kind = "turn/started", ShowsAt(1)
        PROVE  /\ 1 \in DOMAIN inbox' /\ inbox'[1].thread = active
               /\ inbox'[1].kind = "turn/started"
               /\ Shows(inbox', turns[active], running[active], active, view, 1)
    <3>1. PICK k \in DOMAIN inbox' : h[k] = 1
      BY <1>2, <1>4, <2>3 DEF Events
    <3>2. k = 1
      <4>1. SUFFICES ASSUME k # 1 PROVE FALSE
        OBVIOUS
      <4>2. 1 \in DOMAIN inbox' /\ 1 < k
        BY <1>5, <4>1
      <4>3. h[1] < h[k] /\ h[1] \in DOMAIN inbox
        BY <1>4, <4>2 DEF Selected
      <4> QED
        BY <1>6, <3>1, <4>3
    <3>3. inbox'[1] = inbox[1] /\ 1 \in DOMAIN inbox'
      BY <1>4, <3>1, <3>2 DEF Selected
    <3>4. PICK i \in 0..m, e \in Nat : i = 1 /\ e = 1
      BY <1>5, <3>3
    <3>5. Shows(inbox', turns[active], running[active], active, view, i)
      BY <2>1, <2>3, <3>1, <3>2, <3>4
    <3> QED
      BY <2>3, <3>3, <3>4, <3>5
  <2> QED
    BY <1>10, <2>2, <2>3 DEF MirrorInv, PageOK, ShowsAt
<1> QED
  BY <1>9, <1>11, <1>12 DEF MirrorInv

\* The connection is lost, and all that was sent on it.
LEMMA LostMirrors ==
    ASSUME Lost
    PROVE  MirrorInv'
<1>1. inbox' = <<>> /\ ~synced' /\ DOMAIN inbox' = {}
  BY DEF Lost
<1>2. EventsOK'
  BY <1>1, NoEvents DEF EventsOK
<1> QED
  BY <1>1, <1>2 DEF MirrorInv, SnapshotsOK, TurnAnswersOK, PageOK

\* Steps that neither send nor handle anything.
LEMMA NothingSent ==
    ASSUME MirrorInv, UNCHANGED <<serverVars, inbox, pageVars>>
    PROVE  MirrorInv'
<1>1. UNCHANGED <<turns, running, subscribed, inbox, active, loaded, view, activeTurn, synced, crossed>>
  BY DEF serverVars, pageVars
<1> QED
  BY <1>1 DEF MirrorInv, EventsOK, SnapshotsOK, TurnAnswersOK, PageOK, ShowsAt

\* The page follows the server, whatever anyone does.
LEMMA MirrorNext ==
    ASSUME OpenInv, TurnsOK, MirrorInv, [Next]_vars
    PROVE  MirrorInv'
<1>1. CASE UNCHANGED vars
  BY <1>1, NothingSent DEF vars
<1>2. CASE User
  BY <1>2, NothingSent DEF User, OpenThread, StartThread, SendFirstMessage, StartTurn, Begin
<1>3. CASE Server
  BY <1>3, ServeResumeMirrors, ServeStartMirrors, ServeTurnMirrors, TurnElsewhereMirrors,
     TurnEndsMirrors DEF Server
<1>4. CASE ResumeAnswered
  BY <1>4, ResumeAnsweredMirrors
<1>5. CASE StartAnswered
  BY <1>5, StartAnsweredMirrors
<1>6. CASE TurnAnswered
  BY <1>6, TurnAnsweredMirrors
<1>7. CASE TurnStarted
  BY <1>7, TurnStartedMirrors
<1>8. CASE TurnCompleted
  BY <1>8, TurnCompletedMirrors
<1>9. CASE Lost
  BY <1>9, LostMirrors
<1>10. CASE Ready
  BY <1>10, NothingSent DEF Ready, Begin
<1>11. ASSUME NEW c \in Slots, ReadAnswered(c) \/ Fails(c) PROVE MirrorInv'
  BY <1>11, NothingSent, FailsMirrors DEF ReadAnswered
<1> QED
  BY <1>1, <1>2, <1>3, <1>4, <1>5, <1>6, <1>7, <1>8, <1>9, <1>10, <1>11 DEF Next, Page

\* Nothing has been sent and no thread opened when the page is loaded.
LEMMA MirrorInit ==
    ASSUME Init
    PROVE  MirrorInv
<1>1. inbox = <<>> /\ ~synced /\ DOMAIN inbox = {}
  BY DEF Init
<1>2. EventsOK
  BY <1>1, NoEvents DEF EventsOK
<1> QED
  BY <1>1, <1>2 DEF MirrorInv, SnapshotsOK, TurnAnswersOK, PageOK

\* The invariant of mirroring holds in every reachable state.
THEOREM MirrorInductive == Spec => []MirrorInv
<1>1. Init => MirrorInv
  BY MirrorInit
<1>2. OpenInv /\ TurnsOK /\ MirrorInv /\ [Next]_vars => MirrorInv'
  BY MirrorNext
<1> QED
  BY <1>1, <1>2, OpenInductive, PTL DEF Spec

\* With nothing on its way the page shows the thread as the server has it.
LEMMA MirrorIsRight ==
    ASSUME OpenInv, TurnsOK, MirrorInv
    PROVE  MirrorsServer
<1> SUFFICES ASSUME synced, ~crossed, inbox = <<>>
             PROVE  view = Report(active) /\ activeTurn = running[active]
  BY DEF MirrorsServer
<1>1. DOMAIN inbox = {}
  OBVIOUS
<1> DEFINE s == turns[active]
           r == running[active]
<1>2. /\ Runs(view, activeTurn)
      /\ Shows(inbox, s, r, active, view, 0)
  BY <1>1 DEF MirrorInv, PageOK, ShowsAt
<1>3. /\ view \in Views /\ Increasing(s) /\ active \in AllThreads
      /\ r # 0 => s # <<>> /\ r = s[Len(s)]
  BY ShownFacts
<1>4. Report(active) = [k \in DOMAIN s |-> [id |-> s[k], live |-> s[k] = r]]
  BY DEF Report
<1> HIDE DEF s, r
<1>5. \A x : ~StartsAfter(inbox, active, x, 0) /\ ~EndsAfter(inbox, active, x, 0)
  BY <1>1 DEF StartsAfter, EndsAfter
<1>6. /\ DOMAIN view = DOMAIN s
      /\ \A k \in DOMAIN s : view[k].id = s[k] /\ (view[k].live <=> s[k] = r)
  BY <1>2, <1>5 DEF Shows, LiveAt
<1>7. view = Report(active)
  <2>1. PICK c \in Nat : DOMAIN view = 1..c
    BY <1>3 DEF Views
  <2>2. ASSUME NEW k \in DOMAIN s
        PROVE  view[k] = [id |-> s[k], live |-> s[k] = r]
    <3>1. view[k] \in [id : TurnIds, live : BOOLEAN]
      <4> DEFINE S == [id : TurnIds, live : BOOLEAN]
      <4>1. view \in Seq(S) /\ k \in DOMAIN view
        BY <1>3, <1>6 DEF Views
      <4> HIDE DEF S
      <4>2. view[k] \in S
        BY <4>1
      <4> QED
        BY <4>2 DEF S
    <3>2. view[k] = [id |-> view[k].id, live |-> view[k].live] /\ view[k].live \in BOOLEAN
      BY <3>1
    <3>3. view[k].id = s[k] /\ view[k].live = (s[k] = r)
      BY <1>6, <3>2, Zenon
    <3> QED
      BY <3>2, <3>3, Zenon
  <2>3. view = [k \in DOMAIN view |-> view[k]]
    BY <1>3 DEF Views
  <2> QED
    BY <1>4, <1>6, <2>2, <2>3
<1>8. activeTurn = r
  <2>1. CASE r = 0
    <3>1. \A k \in DOMAIN s : s[k] # 0
      BY <1>3 DEF Increasing, TurnIds
    <3> QED
      BY <1>2, <1>6, <2>1, <3>1 DEF Runs
  <2>2. CASE r # 0
    <3>1. Len(s) \in DOMAIN s /\ s[Len(s)] = r
      BY <1>3, <2>2 DEF Increasing
    <3> QED
      BY <1>2, <1>6, <3>1 DEF Runs
  <2> QED
    BY <2>1, <2>2
<1> QED
  BY <1>7, <1>8 DEF r

\* Once a thread has been opened on the connection and the page has handled
\* what was sent, it shows the turns and the turn in progress as the server
\* has them.
THEOREM PageMirrorsServer == Spec => []MirrorsServer
<1>1. OpenInv /\ TurnsOK /\ MirrorInv => MirrorsServer
  BY MirrorIsRight
<1> QED
  BY <1>1, OpenInductive, MirrorInductive, PTL
=============================================================================
