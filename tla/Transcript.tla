----------------------------- MODULE Transcript -----------------------------
(***************************************************************************)
(* How the page builds the conversation of a thread: from the snapshot of  *)
(* openThread and from the notifications that stream turns and items       *)
(* (handleNotification, upsertTurn, upsertItem, appendItemString,          *)
(* appendIndexedString and mergeLifecycleItem of                           *)
(* src/frontend/src/stores/useCodexSession.ts).  One thread; what one      *)
(* connection carries arrives in the order sent.  A text is the sequence   *)
(* of its deltas, and a completed item's text ends in 0, which no delta    *)
(* carries.                                                                *)
(***************************************************************************)
EXTENDS Lists, SequencesExt

CONSTANTS
    MaxTurns,   \* bound: turns of the thread
    MaxItems,   \* bound: items of all turns
    MaxDeltas,  \* bound: deltas of one item
    MaxInbox,   \* bound: notifications under way
    MaxLosses   \* bound: connections lost

ASSUME TranscriptAssumption ==
    {MaxTurns, MaxItems, MaxDeltas, MaxInbox, MaxLosses} \subseteq Nat

TurnIds == 1..MaxTurns
ItemIds == 1..MaxItems

VARIABLES
    log,        \* app-server: its items in order; an item's id is its place
    turn,       \* app-server: the latest turn
    live,       \* app-server: that turn is in progress
    dialect,    \* app-server: what its Turn and Thread objects carry
    subscribed, \* app-server: this connection gets the thread's notifications
    inbox,      \* sent and not yet handled by the page
    connected,  \* the page's connection is ready
    losses,     \* connections lost so far
    opening,    \* how far openThread is: "no", "read", "resume" or "served"
    read,       \* the answer of thread/read it holds
    shown,      \* activeThread is this thread
    view,       \* activeThread.turns, while shown
    synced,     \* history: shown since a snapshot on this connection
    gap         \* history: what is shown may lack what was not sent to it

serverVars == <<log, turn, live, dialect, subscribed>>
linkVars == <<connected, losses>>
openVars == <<opening, read>>
pageVars == <<shown, view, synced, gap>>
vars == <<serverVars, inbox, linkVars, openVars, pageVars>>

Init ==
    /\ log = <<>> /\ turn = 0 /\ live = FALSE /\ subscribed = FALSE
    /\ dialect \in [turnItems : BOOLEAN, partial : BOOLEAN, resumeTurns : BOOLEAN]
    /\ inbox = <<>> /\ connected = TRUE /\ losses = 0
    /\ opening = "no" /\ read = <<>>
    /\ shown = FALSE /\ view = <<>> /\ synced = FALSE /\ gap = FALSE

-----------------------------------------------------------------------------
(* What the app-server (external) says of its thread.                       *)

\* The text of an item as far as it is written.
Written(i) == [k \in 1..log[i].len |-> k] \o (IF log[i].done THEN <<0>> ELSE <<>>)
Item(i) == [id |-> i, text |-> Written(i)]

\* A turn's items, those in progress only if the dialect has them.
Told(u) == Keep([i \in DOMAIN log |-> i],
                {i \in DOMAIN log : log[i].turn = u /\ (log[i].done \/ dialect.partial)})
ItemsOf(u) == [k \in DOMAIN Told(u) |-> Item(Told(u)[k])]

Snapshot == [u \in 1..turn |-> [id |-> u, items |-> ItemsOf(u)]]

\* A message about turn u: a turn object's items, an item, or a delta.
Note(kind, u, items) ==
    IF subscribed THEN <<[kind |-> kind, turn |-> u, items |-> items]>> ELSE <<>>
Tell(kind, u, items) ==
    /\ Len(inbox) < MaxInbox
    /\ inbox' = inbox \o Note(kind, u, items)
    /\ UNCHANGED <<dialect, subscribed, linkVars, openVars, pageVars>>

TurnStarts ==
    /\ ~live /\ turn < MaxTurns
    /\ turn' = turn + 1 /\ live' = TRUE
    /\ Tell("turn/started", turn + 1, <<>>)
    /\ UNCHANGED log

\* Completed, failed or interrupted; the notification has the turn's items,
\* or an empty list.
TurnEnds ==
    /\ live /\ live' = FALSE
    /\ Tell("turn/completed", turn, IF dialect.turnItems THEN ItemsOf(turn) ELSE <<>>)
    /\ UNCHANGED <<log, turn>>

ItemStarts ==
    /\ live /\ Len(log) < MaxItems
    /\ log' = Append(log, [turn |-> turn, len |-> 0, done |-> FALSE])
    /\ Tell("item/started", turn, <<[id |-> Len(log) + 1, text |-> <<>>]>>)
    /\ UNCHANGED <<turn, live>>

InProgress(i) == live /\ log[i].turn = turn /\ ~log[i].done

ItemWrites(i) ==
    /\ InProgress(i) /\ log[i].len < MaxDeltas
    /\ log' = [log EXCEPT ![i].len = @ + 1]
    /\ Tell("delta", turn, <<[id |-> i, text |-> <<log[i].len + 1>>]>>)
    /\ UNCHANGED <<turn, live>>

\* item/fileChange/patchUpdated has the whole change so far.
ItemPatched(i) ==
    /\ InProgress(i) /\ log[i].len < MaxDeltas
    /\ log' = [log EXCEPT ![i].len = @ + 1]
    /\ Tell("patch", turn, <<[id |-> i, text |-> [k \in 1..(log[i].len + 1) |-> k]]>>)
    /\ UNCHANGED <<turn, live>>

ItemCompletes(i) ==
    /\ InProgress(i)
    /\ log' = [log EXCEPT ![i].done = TRUE]
    /\ Tell("item/completed", turn, <<[id |-> i, text |-> Append(Written(i), 0)]>>)
    /\ UNCHANGED <<turn, live>>

-----------------------------------------------------------------------------
(* The page: what each notification does to the turns shown.                *)

\* Replace the member with x's id, or add x at the end.
Upsert(s, x) ==
    IF \E k \in DOMAIN s : s[k].id = x.id
    THEN [k \in DOMAIN s |-> IF s[k].id = x.id THEN x ELSE s[k]]
    ELSE Append(s, x)

UpsertTurn(u, items) == Upsert(view, [id |-> u, items |-> items])

ItemsShown(u) ==
    IF \E k \in DOMAIN view : view[k].id = u
    THEN view[CHOOSE k \in DOMAIN view : view[k].id = u].items ELSE <<>>

\* Mutant: a known item is kept.
MergeKeepsKnown(items, item) ==
    IF \E k \in DOMAIN items : items[k].id = item.id THEN items ELSE Append(items, item)

MergeLifecycleItem(items, item) == Upsert(items, item)

\* A turn not known yet is added.
UpsertItem(u, item) == UpsertTurn(u, MergeLifecycleItem(ItemsShown(u), item))

FindItem(u, i) == Keep(ItemsShown(u), {item \in Range(ItemsShown(u)) : item.id = i})

\* Mutant: a delta for an item not known starts from the latest text known.
AppendOnly(u, i, delta) ==
    LET found == FindItem(u, i)
    IN  UpsertItem(u, [id |-> i, text |-> delta \o (IF found = <<>> THEN <<>> ELSE found[1].text)])

\* appendItemString, appendIndexedString: an item not known is added, empty.
AppendItemString(u, i, delta) ==
    LET found == FindItem(u, i)
    IN  UpsertItem(u, [id |-> i, text |-> (IF found = <<>> THEN <<>> ELSE found[1].text) \o delta])

\* A patch for an item not known is dropped.
PatchItem(u, i, text) ==
    IF FindItem(u, i) = <<>> THEN view ELSE UpsertItem(u, [id |-> i, text |-> text])

Applied(m) ==
    CASE m.kind \in {"turn/started", "turn/completed"} -> UpsertTurn(m.turn, m.items)
      [] m.kind \in {"item/started", "item/completed"} -> UpsertItem(m.turn, m.items[1])
      [] m.kind = "delta" -> AppendItemString(m.turn, m.items[1].id, m.items[1].text)
      [] m.kind = "patch" -> PatchItem(m.turn, m.items[1].id, m.items[1].text)

\* With no thread or another one shown, nothing of this one is applied.
HandleNotification ==
    /\ inbox # <<>> /\ Head(inbox).kind # "resumed"
    /\ inbox' = Tail(inbox)
    /\ view' = IF shown THEN Applied(Head(inbox)) ELSE view
    /\ UNCHANGED <<serverVars, linkVars, openVars, shown, synced, gap>>

-----------------------------------------------------------------------------
(* Opening the thread.                                                      *)

\* By the user, or by restoreWorkspace.
OpenThread ==
    /\ connected /\ opening = "no"
    /\ opening' = "read"
    /\ UNCHANGED <<serverVars, inbox, linkVars, read, pageVars>>

ReadAnswered ==
    /\ opening = "read"
    /\ opening' = "resume" /\ read' = Snapshot
    /\ UNCHANGED <<serverVars, inbox, linkVars, pageVars>>

\* thread/resume subscribes the connection; its thread may have no turns.
ServeResume ==
    /\ opening = "resume" /\ Len(inbox) < MaxInbox
    /\ opening' = "served"
    /\ subscribed' = TRUE
    /\ inbox' = Append(inbox, [kind |-> "resumed", turns |-> Snapshot])
    /\ UNCHANGED <<log, turn, live, dialect, linkVars, read, pageVars>>

\* Mutant: the answer of thread/read is preferred.
NextThreadRead(resumed) == IF read # <<>> THEN read ELSE resumed

NextThread(resumed) == IF dialect.resumeTurns /\ resumed # <<>> THEN resumed ELSE read

ResumeAnswered ==
    /\ inbox # <<>> /\ Head(inbox).kind = "resumed"
    /\ inbox' = Tail(inbox)
    /\ view' = NextThread(Head(inbox).turns)
    /\ shown' = TRUE /\ synced' = TRUE
    /\ gap' = (~dialect.resumeTurns /\ read # Head(inbox).turns)
    /\ opening' = "no" /\ read' = <<>>
    /\ UNCHANGED <<serverVars, linkVars>>

WithoutAnswer == Keep(inbox, {m \in Range(inbox) : m.kind # "resumed"})

\* A call fails or times out; the server may have carried it out.
OpenFails ==
    /\ opening # "no"
    /\ opening' = "no" /\ read' = <<>>
    /\ inbox' = WithoutAnswer
    /\ gap' = (gap \/ (opening = "served" /\ ~synced))
    /\ UNCHANGED <<serverVars, linkVars, shown, view, synced>>

\* Another thread is opened or started; an answer to come is out of date.
Leave ==
    /\ shown \/ opening # "no"
    /\ opening' = "no" /\ read' = <<>>
    /\ inbox' = WithoutAnswer
    /\ shown' = FALSE /\ view' = <<>> /\ synced' = FALSE /\ gap' = FALSE
    /\ UNCHANGED <<serverVars, linkVars>>

\* The page goes on showing what it had.
Lost ==
    /\ connected /\ losses < MaxLosses
    /\ connected' = FALSE /\ losses' = losses + 1
    /\ inbox' = <<>> /\ subscribed' = FALSE
    /\ opening' = "no" /\ read' = <<>>
    /\ synced' = FALSE
    /\ UNCHANGED <<log, turn, live, dialect, shown, view, gap>>

Ready ==
    /\ ~connected /\ connected' = TRUE
    /\ opening' = IF shown THEN "read" ELSE "no"
    /\ UNCHANGED <<serverVars, inbox, losses, read, pageVars>>

-----------------------------------------------------------------------------
Server ==
    \/ TurnStarts \/ TurnEnds \/ ItemStarts \/ ServeResume
    \/ \E i \in DOMAIN log : ItemWrites(i) \/ ItemPatched(i) \/ ItemCompletes(i)

Page ==
    \/ HandleNotification \/ OpenThread \/ ReadAnswered \/ ResumeAnswered
    \/ OpenFails \/ Leave \/ Lost \/ Ready

Next == Server \/ Page

Spec == Init /\ [][Next]_vars

-----------------------------------------------------------------------------
(* Properties.                                                              *)

IsStretch(text, i) ==
    \/ log[i].done /\ text = Written(i)
    \/ \E a \in 1..log[i].len + 1 :
          text = [k \in 1..Len(text) |-> a + k - 1] /\ a + Len(text) <= log[i].len + 1

TypeOK ==
    /\ log \in Seq([turn : 1..turn, len : 0..MaxDeltas, done : BOOLEAN])
    /\ Len(log) <= MaxItems /\ turn \in 0..MaxTurns
    /\ {live, subscribed, connected, shown, synced, gap} \subseteq BOOLEAN
    /\ losses \in 0..MaxLosses /\ Len(inbox) <= MaxInbox
    /\ opening \in {"no", "read", "resume", "served"}
    /\ subscribed => connected

\* useCodexSession.ts, appendItemString and appendIndexedString: at any time
\* the text shown of an item is a stretch of what the server wrote, with no
\* delta left out between, repeated or out of order, or the completed text:
\* also when the page opens the thread or comes back in the middle of an item.
\* (Not after a snapshot older than the subscription.)
NoHoles ==
    shown /\ ~gap =>
        \A k \in DOMAIN view : \A j \in DOMAIN view[k].items :
            LET item == view[k].items[j]
            IN  /\ item.id \in DOMAIN log /\ log[item.id].turn = view[k].id
                /\ IsStretch(item.text, item.id)

\* Once the page has handled what was sent, it shows the turns of the thread
\* in order and each completed item once, in its turn, with the text that
\* item/completed carried.  Two cases are excepted.  A snapshot older than the
\* subscription (gap).  And a server whose turn/completed carries an empty list
\* (not dialect.turnItems): there the page drops the items of each turn that
\* ends, so of such a server this says nothing but of the turn in progress.
Converges ==
    synced /\ ~gap /\ inbox = <<>> =>
        /\ [k \in DOMAIN view |-> view[k].id] = [u \in 1..turn |-> u]
        /\ \A i \in DOMAIN log :
              log[i].done /\ (dialect.turnItems \/ (live /\ log[i].turn = turn)) =>
                  FindItem(log[i].turn, i) = <<Item(i)>>

\* The items of v whose text is complete, each with its turn.
Complete(items) == {item \in Range(items) : item.text # <<>> /\ Last(item.text) = 0}
Finished(v) == UNION {{<<v[k].id, item>> : item \in Complete(v[k].items)} : k \in DOMAIN v}

\* useCodexSession.ts, mergeLifecycleItem and upsertTurn: while the page stays
\* on a thread and connected, a completed item it shows is never shortened,
\* rewritten, moved or dropped: not by late deltas and patches, not by the end
\* of its turn, and not when the thread is opened once more.
FinishedItemsStay ==
    [][synced /\ synced' /\ ~gap' /\ dialect.turnItems =>
          Finished(view) \subseteq Finished(view')]_vars
=============================================================================
