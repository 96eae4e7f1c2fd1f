--------------------------- MODULE WorkspaceProofs ---------------------------
(***************************************************************************)
(* Proofs about Workspace, for every number of connections and of prompts. *)
(***************************************************************************)
EXTENDS Workspace, ListProofs

USE LinkAssumption, WorkspaceAssumption DEF LinkAssumption, WorkspaceAssumption

-----------------------------------------------------------------------------
(* The inductive invariant.                                                 *)

\* A connection that is not established is not ready and has asked nothing.
NotReadyYet ==
    /\ socket \in {"none", "connecting", "initializing"} => ~ready /\ waiting = {}
    /\ socket # "none" => link \in 1..MaxLinks

\* No prompt is from a connection to come.
PromptsArePast == \A i \in DOMAIN prompts : prompts[i].link \in 1..link

\* Without offline reports and replaced sockets, the phase tells everything:
\* prompts and a running restore belong to a connection that is ready.
PhaseTells ==
    ~disturbed =>
        /\ socket = "established" => ready
        /\ ~ready => prompts = <<>> /\ calls = {}
        /\ \A i \in DOMAIN prompts : prompts[i].link = link

Support == NotReadyYet /\ PromptsArePast /\ PhaseTells
Promised == PromptsAreCurrent /\ NothingHidden /\ CleanHandOver
WorkspaceInv == TypeOK /\ Support /\ Promised

USE DEF WorkspaceInv, Support, Promised

\* No prompts at all.
LEMMA NoPrompts == <<>> \in Seq(Prompts)
OBVIOUS

\* A prompt has a link and an id.
LEMMA PromptFields ==
    /\ \A q \in Prompts : q.link \in 1..MaxLinks /\ q.id \in 1..MaxPrompts
    /\ \A l \in 1..MaxLinks, i \in 1..MaxPrompts : [link |-> l, id |-> i] \in Prompts
BY DEF Prompts, Links

-----------------------------------------------------------------------------
(* Steps of the connection.                                                 *)

\* connect().
LEMMA ConnectKeeps ==
    ASSUME WorkspaceInv, Connect
    PROVE  WorkspaceInv'
<1> USE DEF Connect, Dial, NewConnection, restoreVars
<1>1. TypeOK'
  BY DEF TypeOK, LinkTypeOK, SocketStates
<1>2. Support'
  BY DEF TypeOK, LinkTypeOK, NotReadyYet, PromptsArePast, PhaseTells
<1>3. Promised'
  BY DEF TypeOK, LinkTypeOK, NotReadyYet, PhaseTells, PromptsAreCurrent, NothingHidden,
         CleanHandOver
<1> QED
  BY <1>1, <1>2, <1>3

\* reconnectNow(), and the close event or disconnect().
LEMMA LostKeeps ==
    ASSUME WorkspaceInv, ReconnectNow \/ Lost
    PROVE  WorkspaceInv'
<1> USE DEF ReconnectNow, Lost, Reconnect, Drops, NewConnection, ClearPromptsOnLeave, RejectCalls
<1>1. TypeOK'
  <2>6. ready' \in BOOLEAN
    BY Zenon
  <2>1. LinkTypeOK'
    BY <2>6 DEF TypeOK, LinkTypeOK, SocketStates
  <2>2. prompts' = <<>> \/ prompts' = prompts
    OBVIOUS
  <2>5. prompts' \in Seq(Prompts)
    BY <2>2, NoPrompts, Zenon DEF TypeOK
  <2>3. /\ remembered' \in BOOLEAN /\ disturbed' \in BOOLEAN /\ calls' \subseteq CallNames
        /\ restoredOn' \in 0..link'
    BY DEF TypeOK, LinkTypeOK, CallNames
  <2>4. /\ asked' \in 0..MaxPrompts /\ waiting' \subseteq 1..asked'
        /\ answered' \in [of : 0..link', on : 0..link']
    BY DEF TypeOK, LinkTypeOK
  <2> QED
    BY <2>1, <2>3, <2>4, <2>5 DEF TypeOK
<1>2. Support'
  BY DEF TypeOK, LinkTypeOK, NotReadyYet, PromptsArePast, PhaseTells
<1>3. Promised'
  BY DEF TypeOK, LinkTypeOK, PhaseTells, PromptsAreCurrent, NothingHidden, CleanHandOver
<1> QED
  BY <1>1, <1>2, <1>3

\* The open event and the failure of a handshake.
LEMMA HandshakeKeeps ==
    ASSUME WorkspaceInv, Handshake
    PROVE  WorkspaceInv'
<1> USE DEF Handshake, Opens, Closes, IsOpen, restoreVars, promptVars
<1>1. TypeOK'
  BY DEF TypeOK, LinkTypeOK, SocketStates
<1>2. Support'
  BY DEF TypeOK, LinkTypeOK, NotReadyYet, PromptsArePast, PhaseTells
<1>3. Promised'
  BY DEF PromptsAreCurrent, NothingHidden, CleanHandOver
<1> QED
  BY <1>1, <1>2, <1>3

\* The connection becomes ready, and restoreWorkspace runs.
LEMMA ReadyKeeps ==
    ASSUME WorkspaceInv, Ready
    PROVE  WorkspaceInv'
<1> USE DEF Ready, BecomesReady, RestoreWorkspace
<1>1. TypeOK'
  <2>6. ready' \in BOOLEAN
    BY Zenon
  <2>1. LinkTypeOK'
    BY <2>6 DEF TypeOK, LinkTypeOK, SocketStates
  <2>2. prompts' = <<>> \/ prompts' = prompts
    OBVIOUS
  <2>5. prompts' \in Seq(Prompts)
    BY <2>2, NoPrompts, Zenon DEF TypeOK
  <2>7. calls' \subseteq CallNames
    <3>1. CASE calls # {}
      BY <3>1 DEF TypeOK
    <3>2. CASE calls = {}
      <4>1. calls' = {"lists"} \cup (IF remembered THEN {"thread/read"} ELSE {})
        BY <3>2
      <4>2. CASE remembered
        BY <4>1, <4>2 DEF CallNames
      <4>3. CASE ~remembered
        BY <4>1, <4>3 DEF CallNames
      <4> QED
        BY <4>2, <4>3
    <3> QED
      BY <3>1, <3>2
  <2>8. restoredOn' \in 0..link'
    BY DEF TypeOK, LinkTypeOK
  <2>3. /\ remembered' \in BOOLEAN /\ disturbed' \in BOOLEAN /\ calls' \subseteq CallNames
        /\ restoredOn' \in 0..link'
    BY <2>7, <2>8, Zenon DEF TypeOK
  <2>4. /\ asked' \in 0..MaxPrompts /\ waiting' \subseteq 1..asked'
        /\ answered' \in [of : 0..link', on : 0..link']
    BY DEF TypeOK, LinkTypeOK
  <2> QED
    BY <2>1, <2>3, <2>4, <2>5 DEF TypeOK
<1>2. Support'
  BY DEF TypeOK, LinkTypeOK, NotReadyYet, PromptsArePast, PhaseTells
<1>3. Promised'
  BY DEF TypeOK, NotReadyYet, PhaseTells, PromptsAreCurrent, NothingHidden, CleanHandOver
<1> QED
  BY <1>1, <1>2, <1>3

\* The offline event.
LEMMA OfflineKeeps ==
    ASSUME WorkspaceInv, Offline
    PROVE  WorkspaceInv'
<1> USE DEF Offline, GoesOffline, ClearPromptsOnLeave, restoreVars
<1>1. TypeOK'
  <2>1. ready' \in BOOLEAN /\ disturbed' \in BOOLEAN
    BY Zenon
  <2>2. prompts' = <<>> \/ prompts' = prompts
    OBVIOUS
  <2>3. prompts' \in Seq(Prompts)
    BY <2>2, NoPrompts, Zenon DEF TypeOK
  <2> QED
    BY <2>1, <2>3 DEF TypeOK, LinkTypeOK
<1>2. Support'
  BY DEF TypeOK, LinkTypeOK, NotReadyYet, PromptsArePast, PhaseTells
<1>3. Promised'
  BY DEF PromptsAreCurrent, NothingHidden, CleanHandOver
<1> QED
  BY <1>1, <1>2, <1>3

-----------------------------------------------------------------------------
(* Steps of the restore and of the prompts.                                 *)

\* A call of restoreWorkspace ends.
LEMMA RestoreKeeps ==
    ASSUME WorkspaceInv, Restore
    PROVE  WorkspaceInv'
<1> USE DEF Restore, Answered, Failed, linkVars, promptVars
<1>1. TypeOK'
  BY DEF TypeOK, LinkTypeOK, CallNames
<1>2. Support'
  <2>1. calls # {} /\ UNCHANGED <<link, socket, ready, prompts, waiting, disturbed>>
    OBVIOUS
  <2>2. ~disturbed => ready
    BY <2>1 DEF PhaseTells
  <2>3. NotReadyYet' /\ PromptsArePast'
    BY <2>1 DEF NotReadyYet, PromptsArePast
  <2>4. PhaseTells'
    BY <2>1, <2>2 DEF PhaseTells
  <2> QED
    BY <2>3, <2>4
<1>3. Promised'
  BY DEF PromptsAreCurrent, NothingHidden, CleanHandOver
<1> QED
  BY <1>1, <1>2, <1>3

\* A request of the server joins the prompts.
LEMMA RequestKeeps ==
    ASSUME WorkspaceInv, HandleServerRequest
    PROVE  WorkspaceInv'
<1> DEFINE prompt == [link |-> link, id |-> asked + 1]
<1> USE DEF HandleServerRequest, linkVars, restoreVars
<1>1. /\ prompts \in Seq(Prompts) /\ prompt \in Prompts
      /\ asked \in Nat /\ waiting \subseteq 1..asked
      /\ prompts' = Append(prompts, prompt)
  BY PromptFields DEF TypeOK, LinkTypeOK, NotReadyYet
<1>2. /\ prompts' \in Seq(Prompts)
      /\ DOMAIN prompts' = 1..(Len(prompts) + 1) /\ Len(prompts) \in Nat
      /\ \A i \in DOMAIN prompts : i \in DOMAIN prompts' /\ prompts'[i] = prompts[i]
      /\ prompts'[Len(prompts) + 1] = prompt
      /\ DOMAIN prompts = 1..Len(prompts)
  BY <1>1
<1>3. \A i \in DOMAIN prompts' : prompts'[i] = prompt \/ \E j \in DOMAIN prompts : prompts'[i] = prompts[j]
  BY <1>2
<1>4. TypeOK'
  BY <1>1, <1>2 DEF TypeOK, LinkTypeOK
<1>5. Support'
  BY <1>1, <1>3 DEF TypeOK, LinkTypeOK, NotReadyYet, PromptsArePast, PhaseTells
<1>6. PromptsAreCurrent'
  BY <1>3 DEF PromptsAreCurrent
<1>7. NothingHidden'
  <2> SUFFICES ASSUME ready, NEW id \in waiting'
               PROVE  \E i \in DOMAIN prompts' : prompts'[i] = [link |-> link, id |-> id]
    BY DEF NothingHidden
  <2>1. CASE id = asked + 1
    BY <1>2, <2>1
  <2>2. CASE id \in waiting
    BY <1>2, <2>2 DEF NothingHidden
  <2> QED
    BY <2>1, <2>2
<1>8. CleanHandOver'
  BY DEF CleanHandOver
<1> QED
  BY <1>4, <1>5, <1>6, <1>7, <1>8

\* What is left of the prompts when some are taken out of them.
LEMMA FewerPromptsKeep ==
    ASSUME WorkspaceInv, UNCHANGED <<linkVars, restoreVars, asked, disturbed>>,
           prompts' \in Seq(Prompts), waiting' \subseteq waiting,
           \A k \in DOMAIN prompts' : \E i \in DOMAIN prompts : prompts'[k] = prompts[i],
           \A id \in waiting', i \in DOMAIN prompts :
               prompts[i].id = id => \E k \in DOMAIN prompts' : prompts'[k] = prompts[i],
           answered' \in [of : 0..link, on : 0..link],
           ~disturbed => answered'.on = answered'.of
    PROVE  WorkspaceInv'
<1> USE DEF linkVars, restoreVars
<1>1. TypeOK'
  BY DEF TypeOK, LinkTypeOK
<1>2. prompts = <<>> => prompts' = <<>>
  <2> SUFFICES ASSUME prompts = <<>>, prompts' # <<>> PROVE FALSE
    OBVIOUS
  <2>1. 1 \in DOMAIN prompts'
    OBVIOUS
  <2> QED
    BY <2>1
<1>3. Support'
  BY <1>2 DEF NotReadyYet, PromptsArePast, PhaseTells
<1>4. PromptsAreCurrent' /\ CleanHandOver'
  BY DEF PromptsAreCurrent, CleanHandOver
<1>5. NothingHidden'
  <2> SUFFICES ASSUME ready, NEW id \in waiting'
               PROVE  \E k \in DOMAIN prompts' : prompts'[k] = [link |-> link, id |-> id]
    BY DEF NothingHidden
  <2>1. PICK i \in DOMAIN prompts : prompts[i] = [link |-> link, id |-> id]
    BY DEF NothingHidden
  <2>2. prompts[i].id = id
    BY <2>1
  <2>3. PICK k \in DOMAIN prompts' : prompts'[k] = prompts[i]
    BY <2>2
  <2> QED
    BY <2>1, <2>3
<1> QED
  BY <1>1, <1>3, <1>4, <1>5

\* serverRequest/resolved.
LEMMA ResolvedKeeps ==
    ASSUME WorkspaceInv, NEW id \in waiting, RemoveResolvedRequest(id)
    PROVE  WorkspaceInv'
<1> DEFINE T == {q \in Prompts : q.id # id}
<1>1. prompts \in Seq(Prompts) /\ prompts' = Keep(prompts, T) /\ waiting' = waiting \ {id}
  BY DEF TypeOK, RemoveResolvedRequest
<1> HIDE DEF T
<1>2. /\ Keep(prompts, T) \in Seq(Prompts \cap T)
      /\ \A k \in DOMAIN Keep(prompts, T) : \E i \in DOMAIN prompts : Keep(prompts, T)[k] = prompts[i]
      /\ \A i \in DOMAIN prompts : prompts[i] \in T =>
            \E k \in DOMAIN Keep(prompts, T) : Keep(prompts, T)[k] = prompts[i]
  BY <1>1, KeepMembers
<1>3. prompts' \in Seq(Prompts)
  BY <1>1, <1>2
<1>4. \A i \in DOMAIN prompts : prompts[i] \in Prompts
  BY <1>1
<1>5. \A id2 \in waiting', i \in DOMAIN prompts :
          prompts[i].id = id2 => \E k \in DOMAIN prompts' : prompts'[k] = prompts[i]
  BY <1>1, <1>2, <1>4 DEF T
<1>6. /\ answered' \in [of : 0..link, on : 0..link]
      /\ ~disturbed => answered'.on = answered'.of
  BY DEF RemoveResolvedRequest, TypeOK, CleanHandOver
<1>7. UNCHANGED <<linkVars, restoreVars, asked, disturbed>>
  BY DEF RemoveResolvedRequest
<1>8. \A k \in DOMAIN prompts' : \E i \in DOMAIN prompts : prompts'[k] = prompts[i]
  BY <1>1, <1>2
<1> QED
  BY <1>1, <1>3, <1>5, <1>6, <1>7, <1>8, FewerPromptsKeep

\* RemoveAt takes out the member at i and no other.
LEMMA RemoveAtMembers ==
    ASSUME NEW S, NEW s \in Seq(S), NEW i \in DOMAIN s
    PROVE  /\ RemoveAt(s, i) \in Seq(S)
           /\ \A k \in DOMAIN RemoveAt(s, i) : \E j \in DOMAIN s : RemoveAt(s, i)[k] = s[j]
           /\ \A j \in DOMAIN s \ {i} : \E k \in DOMAIN RemoveAt(s, i) : RemoveAt(s, i)[k] = s[j]
<1> DEFINE r == RemoveAt(s, i)
<1>1. Len(s) \in Nat /\ DOMAIN s = 1..Len(s) /\ i \in 1..Len(s)
  OBVIOUS
<1>2. /\ r \in Seq(S) /\ Len(r) = Len(s) - 1
      /\ \A k \in 1..(Len(s) - 1) : r[k] = IF k < i THEN s[k] ELSE s[k + 1]
  <2> DEFINE a == SubSeq(s, 1, i - 1)
             b == SubSeq(s, i + 1, Len(s))
  <2>1. a \in Seq(S) /\ Len(a) = i - 1 /\ \A k \in 1..(i - 1) : a[k] = s[k]
    BY <1>1
  <2>2. b \in Seq(S) /\ Len(b) = Len(s) - i /\ \A k \in 1..(Len(s) - i) : b[k] = s[i + k]
    BY <1>1
  <2> HIDE DEF a, b
  <2>3. /\ a \o b \in Seq(S) /\ Len(a \o b) = Len(a) + Len(b)
        /\ \A k \in 1..(Len(a) + Len(b)) : (a \o b)[k] = IF k <= Len(a) THEN a[k] ELSE b[k - Len(a)]
    BY <2>1, <2>2
  <2>4. r = a \o b
    BY DEF RemoveAt, a, b
  <2>6. Len(a \o b) = Len(s) - 1
    BY <1>1, <2>1, <2>2, <2>3
  <2> HIDE DEF r
  <2>5. ASSUME NEW k \in 1..(Len(s) - 1) PROVE r[k] = IF k < i THEN s[k] ELSE s[k + 1]
    <3>0. k \in 1..(Len(a) + Len(b))
      BY <1>1, <2>1, <2>2
    <3>4. (a \o b)[k] = IF k <= Len(a) THEN a[k] ELSE b[k - Len(a)]
      BY <2>3, <3>0
    <3>1. CASE k < i
      <4>1. k \in 1..(i - 1) /\ k <= Len(a)
        BY <1>1, <2>1, <3>1
      <4> QED
        BY <2>1, <2>4, <3>1, <3>4, <4>1
    <3>2. CASE ~(k < i)
      <4>1. k - (i - 1) \in 1..(Len(s) - i) /\ i + (k - (i - 1)) = k + 1
        BY <1>1, <3>2
      <4>2. ~(k <= Len(a))
        BY <1>1, <2>1, <3>2
      <4>3. b[k - (i - 1)] = s[k + 1]
        BY <2>2, <4>1
      <4> QED
        BY <2>1, <2>4, <3>2, <3>4, <4>2, <4>3
    <3> QED
      BY <3>1, <3>2
  <2> QED
    BY <2>3, <2>4, <2>5, <2>6
<1> HIDE DEF r
<1>3. DOMAIN r = 1..(Len(s) - 1)
  BY <1>2
<1>4. ASSUME NEW k \in DOMAIN r PROVE \E j \in DOMAIN s : r[k] = s[j]
  BY <1>1, <1>2, <1>3
<1>5. ASSUME NEW j \in DOMAIN s \ {i} PROVE \E k \in DOMAIN r : r[k] = s[j]
  <2>1. CASE j < i
    BY <1>1, <1>2, <1>3, <2>1
  <2>2. CASE j > i
    <3>1. j - 1 \in 1..(Len(s) - 1) /\ ~(j - 1 < i) /\ (j - 1) + 1 = j
      BY <1>1, <2>2
    <3> QED
      BY <1>2, <1>3, <3>1
  <2> QED
    BY <1>1, <2>1, <2>2
<1> QED
  BY <1>2, <1>4, <1>5 DEF r

\* An answer goes out on the current socket.
LEMMA RespondKeeps ==
    ASSUME WorkspaceInv, NEW i \in DOMAIN prompts, Respond(i)
    PROVE  WorkspaceInv'
<1>1. /\ prompts \in Seq(Prompts) /\ prompts' = RemoveAt(prompts, i)
      /\ waiting' = waiting \ {prompts[i].id}
      /\ UNCHANGED <<linkVars, restoreVars, asked, disturbed>>
  BY DEF TypeOK, Respond
<1>2. /\ RemoveAt(prompts, i) \in Seq(Prompts)
      /\ \A k \in DOMAIN RemoveAt(prompts, i) : \E j \in DOMAIN prompts : RemoveAt(prompts, i)[k] = prompts[j]
      /\ \A j \in DOMAIN prompts \ {i} :
            \E k \in DOMAIN RemoveAt(prompts, i) : RemoveAt(prompts, i)[k] = prompts[j]
  BY <1>1, RemoveAtMembers
<1>3. \A id \in waiting', j \in DOMAIN prompts :
          prompts[j].id = id => \E k \in DOMAIN prompts' : prompts'[k] = prompts[j]
  BY <1>1, <1>2
<1>4. /\ answered' \in [of : 0..link, on : 0..link]
      /\ ~disturbed => answered'.on = answered'.of
  BY DEF Respond, TypeOK, LinkTypeOK, PromptsArePast, PhaseTells
<1>5. \A k \in DOMAIN prompts' : \E j \in DOMAIN prompts : prompts'[k] = prompts[j]
  BY <1>1, <1>2
<1> QED
  BY <1>1, <1>2, <1>3, <1>4, <1>5, FewerPromptsKeep

-----------------------------------------------------------------------------
(* The theorems.                                                            *)

\* WorkspaceInv holds in every behaviour.
THEOREM WorkspaceInductive == Spec => []WorkspaceInv
<1>1. Init => WorkspaceInv
  <2> SUFFICES ASSUME Init PROVE WorkspaceInv
    OBVIOUS
  <2> USE DEF Init, LinkInit
  <2>1. TypeOK
    <3>1. prompts \in Seq(Prompts)
      BY NoPrompts, Zenon
    <3>4. ready \in BOOLEAN /\ disturbed \in BOOLEAN
      BY Zenon
    <3>2. LinkTypeOK /\ asked \in 0..MaxPrompts
      BY <3>4 DEF LinkTypeOK, SocketStates
    <3>3. waiting \subseteq 1..asked /\ answered \in [of : 0..link, on : 0..link]
      OBVIOUS
    <3> QED
      BY <3>1, <3>2, <3>3, <3>4 DEF TypeOK
  <2>2. Support
    BY DEF NotReadyYet, PromptsArePast, PhaseTells
  <2>3. Promised
    BY DEF PromptsAreCurrent, NothingHidden, CleanHandOver
  <2> QED
    BY <2>1, <2>2, <2>3
<1>2. WorkspaceInv /\ [Next]_vars => WorkspaceInv'
  <2> SUFFICES ASSUME WorkspaceInv, [Next]_vars PROVE WorkspaceInv'
    OBVIOUS
  <2>1. CASE Connection
    BY <2>1, ConnectKeeps, LostKeeps, HandshakeKeeps, ReadyKeeps, OfflineKeeps DEF Connection
  <2>2. CASE Restore
    BY <2>2, RestoreKeeps
  <2>3. CASE Prompting
    BY <2>3, RequestKeeps, ResolvedKeeps, RespondKeeps DEF Prompting
  <2>4. CASE UNCHANGED vars
    BY <2>4 DEF vars, linkVars, restoreVars, promptVars, TypeOK, LinkTypeOK, NotReadyYet,
       PromptsArePast, PhaseTells, PromptsAreCurrent, NothingHidden, CleanHandOver
  <2> QED
    BY <2>1, <2>2, <2>3, <2>4 DEF Next
<1> QED
  BY <1>1, <1>2, PTL DEF Spec

\* useCodexSession.ts, restoreWorkspace: once the restore for the current
\* connection has begun, every prompt shown is one that connection asked.
THEOREM PromptsCurrent == Spec => []PromptsAreCurrent
BY WorkspaceInductive, PTL

\* The clean-ups of the prompts never take one that waits for its answer on a
\* ready connection.
THEOREM NothingIsHidden == Spec => []NothingHidden
BY WorkspaceInductive, PTL

\* Answers go to the connection that asked, and a ready connection has had its
\* own restore, while connections only follow one another.
THEOREM HandOverIsClean == Spec => []CleanHandOver
BY WorkspaceInductive, PTL
=============================================================================
