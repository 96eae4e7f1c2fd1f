-------------------------- MODULE TranscriptProofs --------------------------
(***************************************************************************)
(* Proofs about Transcript.  What the server does is a set of events that  *)
(* only grows; a message tells of one of them, so the page knows all that  *)
(* has happened but what the messages under way tell (Known).  A page in   *)
(* step with the server shows exactly what it knows (Shows, HasAllDone);   *)
(* each message is right of what was known when it was sent (QueueOK), so  *)
(* handling it leaves the page showing what it then knows (AppliedShows).  *)
(* NoHoles, Converges and FinishedItemsStay follow.                        *)
(***************************************************************************)
EXTENDS Transcript, ListProofs

\* The values the module speaks of: texts, items, turns and messages.
Texts == Seq(Nat)
Items == [id : Nat, text : Texts]
Turns == [id : Nat, items : Seq(Items)]
TurnKinds == {"turn/started", "turn/completed"}
ItemKinds == {"item/started", "item/completed"}
Writings == {"delta", "patch"}
Notes == [kind : TurnKinds \cup ItemKinds \cup Writings, turn : Nat, items : Seq(Items)]
Answers == [kind : {"resumed"}, turns : Seq(Turns)]

-----------------------------------------------------------------------------
(* Texts.                                                                   *)

\* The deltas a to b, and a whole text of b deltas.
Stretch(a, b) == [k \in 1..(b + 1 - a) |-> a + k - 1]
Full(b) == Append(Stretch(1, b), 0)
\* A text that its item/completed carried.
Over(text) == text # <<>> /\ Last(text) = 0

\* What a stretch is as a sequence, and that it is not a whole text.
LEMMA StretchText ==
    ASSUME NEW b \in Nat, NEW a \in 1..(b + 1)
    PROVE  /\ Stretch(a, b) \in Texts
           /\ Len(Stretch(a, b)) = b + 1 - a
           /\ ~Over(Stretch(a, b))
<1>1. Stretch(a, b) \in [1..(b + 1 - a) -> Nat]
  BY DEF Stretch
<1>2. Stretch(a, b) \in Texts /\ Len(Stretch(a, b)) = b + 1 - a
  BY <1>1 DEF Texts
<1>3. ASSUME Over(Stretch(a, b)) PROVE FALSE
  <2>1. Len(Stretch(a, b)) \in 1..(b + 1 - a)
    BY <1>2, <1>3 DEF Over, Texts
  <2>2. Stretch(a, b)[Len(Stretch(a, b))] = a + Len(Stretch(a, b)) - 1
    BY <2>1 DEF Stretch
  <2> QED
    BY <1>2, <1>3, <2>2 DEF Over, Last
<1> QED
  BY <1>2, <1>3

\* A stretch ends with its last delta, and more text that does is not whole.
LEMMA StretchLast ==
    ASSUME NEW b \in Nat, NEW a \in 1..b
    PROVE  /\ Last(Stretch(a, b)) = b
           /\ \A t \in Texts : t \o Stretch(a, b) \in Texts /\ ~Over(t \o Stretch(a, b))
<1> DEFINE s == Stretch(a, b)
<1>1. s \in Texts /\ Len(s) = b + 1 - a
  BY StretchText
<1>2. s[b + 1 - a] = b
  BY DEF Stretch
<1> HIDE DEF s
<1>3. Last(s) = b
  BY <1>1, <1>2 DEF Last
<1>4. ASSUME NEW t \in Texts PROVE t \o s \in Texts /\ ~Over(t \o s)
  <2>1. t \o s \in Texts /\ Len(t \o s) = Len(t) + (b + 1 - a)
    BY <1>1 DEF Texts
  <2>2. (t \o s)[Len(t) + (b + 1 - a)] = s[b + 1 - a]
    BY <1>1 DEF Texts
  <2> QED
    BY <1>2, <2>1, <2>2 DEF Over, Last
<1> QED
  BY <1>3, <1>4 DEF s

\* The next delta makes a stretch longer.
LEMMA StretchGrows ==
    ASSUME NEW b \in Nat, NEW a \in 1..(b + 1)
    PROVE  Stretch(a, b) \o Stretch(b + 1, b + 1) = Stretch(a, b + 1)
<1>1. Stretch(b + 1, b + 1) \in Texts /\ Len(Stretch(b + 1, b + 1)) = 1
  <2> DEFINE c == b + 1
  <2>1. c \in Nat /\ c \in 1..(c + 1) /\ c + 1 - c = 1
    OBVIOUS
  <2> HIDE DEF c
  <2>2. Stretch(c, c) \in Texts /\ Len(Stretch(c, c)) = 1
    BY <2>1, StretchText
  <2> QED
    BY <2>2 DEF c
<1>2. Stretch(b + 1, b + 1)[1] = b + 1
  BY DEF Stretch
<1>3. Stretch(b + 1, b + 1) = <<b + 1>>
  BY <1>1, <1>2 DEF Texts
<1>4. Stretch(a, b) \in Texts /\ Len(Stretch(a, b)) = b + 1 - a
  BY StretchText
<1>5. Stretch(a, b) \o <<b + 1>> = Append(Stretch(a, b), b + 1)
  BY <1>4 DEF Texts
<1>6. a \in 1..(b + 2) /\ b + 1 \in Nat
  OBVIOUS
<1>7. PICK c \in Nat : c = b + 1
  OBVIOUS
<1>8. Stretch(a, c) \in Texts /\ Len(Stretch(a, c)) = c + 1 - a
  BY <1>6, <1>7, StretchText
<1>9. Stretch(a, b + 1) \in Texts /\ Len(Stretch(a, b + 1)) = b + 2 - a
  BY <1>7, <1>8
<1> DEFINE s == Stretch(a, b)
           t == Stretch(a, b + 1)
<1>10. /\ Append(s, b + 1) \in Texts
       /\ Len(Append(s, b + 1)) = b + 2 - a
       /\ \A k \in 1..Len(s) : Append(s, b + 1)[k] = s[k]
       /\ Append(s, b + 1)[Len(s) + 1] = b + 1
  <2> HIDE DEF s
  <2> QED
    BY <1>4 DEF Texts, s
<1>11. \A k \in 1..(b + 1 - a) : s[k] = a + k - 1 /\ t[k] = a + k - 1
  BY DEF Stretch
<1>12. t[b + 2 - a] = b + 1
  BY DEF Stretch
<1>13. \A k \in 1..(b + 2 - a) : Append(s, b + 1)[k] = t[k]
  <2> TAKE k \in 1..(b + 2 - a)
  <2>1. k \in 1..(b + 1 - a) \/ k = b + 2 - a
    OBVIOUS
  <2> HIDE DEF s, t
  <2> QED
    BY <1>4, <1>10, <1>11, <1>12, <2>1 DEF s
<1>14. Append(s, b + 1) = t
  <2> HIDE DEF s, t
  <2> QED
    BY <1>9, <1>10, <1>13 DEF t, Texts
<1> QED
  BY <1>3, <1>5, <1>14

\* A whole text is over, and says how many deltas it has.
LEMMA FullText ==
    ASSUME NEW b \in Nat
    PROVE  Full(b) \in Texts /\ Over(Full(b)) /\ Len(Full(b)) = b + 1
<1>1. Stretch(1, b) \in Texts /\ Len(Stretch(1, b)) = b
  BY StretchText
<1> DEFINE s == Stretch(1, b)
<1>2. /\ Append(s, 0) \in Texts /\ Len(Append(s, 0)) = b + 1
      /\ Append(s, 0)[b + 1] = 0
  <2> HIDE DEF s
  <2> QED
    BY <1>1 DEF Texts, s
<1>3. Append(s, 0) # <<>>
  <2> HIDE DEF s
  <2> QED
    BY <1>2 DEF Texts
<1> QED
  BY <1>2, <1>3 DEF Full, Over, Last

-----------------------------------------------------------------------------
(* Lists with ids.                                                          *)

\* An item is there once.
Distinct(items) == \A p, q \in DOMAIN items : items[p].id = items[q].id => p = q

\* Upsert replaces the members with x's id by x, adds x if there is none,
\* and keeps the ids distinct.
LEMMA UpsertMembers ==
    ASSUME NEW S, NEW s \in Seq(S), NEW x \in S
    PROVE  /\ Upsert(s, x) \in Seq(S)
           /\ \A k \in DOMAIN Upsert(s, x) :
                 \/ Upsert(s, x)[k] = x
                 \/ \E j \in DOMAIN s : Upsert(s, x)[k] = s[j] /\ s[j].id # x.id
           /\ \E k \in DOMAIN Upsert(s, x) : Upsert(s, x)[k] = x
           /\ \A j \in DOMAIN s : s[j].id # x.id =>
                 \E k \in DOMAIN Upsert(s, x) : Upsert(s, x)[k] = s[j]
           /\ Distinct(s) => Distinct(Upsert(s, x))
<1>1. CASE \E k \in DOMAIN s : s[k].id = x.id
  <2>1. Upsert(s, x) = [k \in DOMAIN s |-> IF s[k].id = x.id THEN x ELSE s[k]]
    BY <1>1 DEF Upsert
  <2>2. Upsert(s, x) \in Seq(S) /\ DOMAIN Upsert(s, x) = DOMAIN s
    BY <2>1
  <2>3. \A k \in DOMAIN s : Upsert(s, x)[k] = IF s[k].id = x.id THEN x ELSE s[k]
    BY <2>1
  <2> QED
    BY <1>1, <2>2, <2>3, Zenon DEF Distinct
<1>2. CASE ~\E k \in DOMAIN s : s[k].id = x.id
  <2>1. Upsert(s, x) = Append(s, x)
    BY <1>2 DEF Upsert
  <2>2. /\ Append(s, x) \in Seq(S) /\ DOMAIN Append(s, x) = 1..(Len(s) + 1)
        /\ \A k \in DOMAIN s : Append(s, x)[k] = s[k]
        /\ Append(s, x)[Len(s) + 1] = x /\ Len(s) \in Nat /\ DOMAIN s = 1..Len(s)
    OBVIOUS
  <2>3. \A k \in DOMAIN Append(s, x) : k \in DOMAIN s \/ k = Len(s) + 1
    BY <2>2
  <2>4. DOMAIN s \subseteq DOMAIN Append(s, x) /\ Len(s) + 1 \in DOMAIN Append(s, x)
    BY <2>2
  <2> QED
    BY <1>2, <2>1, <2>2, <2>3, <2>4, Zenon DEF Distinct
<1> QED
  BY <1>1, <1>2

\* r is s with x at place i.
PutAt(r, s, i, x) ==
    /\ DOMAIN r = DOMAIN s \cup {i}
    /\ r[i] = x
    /\ \A k \in DOMAIN s : k # i => r[k] = s[k]

\* In a list whose ids are their places Upsert works on the place x.id.
LEMMA UpsertPlace ==
    ASSUME NEW S, NEW s \in Seq(S), NEW x \in S, NEW i \in 1..(Len(s) + 1), x.id = i,
           \A k \in DOMAIN s : s[k].id = k
    PROVE  PutAt(Upsert(s, x), s, i, x)
<1>1. CASE \E k \in DOMAIN s : s[k].id = x.id
  <2>1. Upsert(s, x) = [k \in DOMAIN s |-> IF s[k].id = x.id THEN x ELSE s[k]]
    BY <1>1 DEF Upsert
  <2>2. x.id \in DOMAIN s
    BY <1>1
  <2>3. s[x.id].id = x.id
    BY <2>2
  <2> QED
    BY <2>1, <2>2, <2>3 DEF PutAt
<1>2. CASE ~\E k \in DOMAIN s : s[k].id = x.id
  <2>1. Upsert(s, x) = Append(s, x)
    BY <1>2 DEF Upsert
  <2>2. x.id = Len(s) + 1
    BY <1>2
  <2>3. /\ DOMAIN Append(s, x) = 1..(Len(s) + 1)
        /\ \A k \in DOMAIN s : Append(s, x)[k] = s[k]
        /\ Append(s, x)[Len(s) + 1] = x /\ DOMAIN s = 1..Len(s) /\ Len(s) \in Nat
    OBVIOUS
  <2> QED
    BY <2>1, <2>2, <2>3 DEF PutAt
<1> QED
  BY <1>1, <1>2

\* What FindItem finds: the members of a list with that id.
LEMMA KeepId ==
    ASSUME NEW items \in Seq(Items), NEW i
    PROVE  LET found == Keep(items, {item \in Range(items) : item.id = i})
           IN  /\ found \in Seq(Items)
               /\ found = <<>> <=> ~\E p \in DOMAIN items : items[p].id = i
               /\ found # <<>> => \E p \in DOMAIN items : items[p].id = i /\ found[1] = items[p]
               /\ \A p \in DOMAIN items : Distinct(items) /\ items[p].id = i => found = <<items[p]>>
<1> DEFINE T == {item \in Range(items) : item.id = i}
           found == Keep(items, T)
<1>1. \A p \in DOMAIN items : items[p] \in T <=> items[p].id = i
  BY DEF Range
<1>2. /\ found \in Seq(Items \cap T)
      /\ \A k \in DOMAIN found : \E p \in DOMAIN items : found[k] = items[p]
      /\ \A p \in DOMAIN items : items[p] \in T => \E k \in DOMAIN found : found[k] = items[p]
  <2> HIDE DEF T
  <2> QED
    BY KeepMembers
<1>3. PICK h \in [DOMAIN found -> DOMAIN items] :
              /\ \A k \in DOMAIN found : found[k] = items[h[k]]
              /\ \A k, l \in DOMAIN found : k < l => h[k] < h[l]
  <2> HIDE DEF T
  <2> QED
    BY KeepInOrder
<1> HIDE DEF T, found
<1>4. found \in Seq(Items) /\ \A k \in DOMAIN found : found[k] \in T
  BY <1>2
<1>5. found = <<>> <=> ~\E p \in DOMAIN items : items[p].id = i
  <2>1. ASSUME found # <<>> PROVE \E p \in DOMAIN items : items[p].id = i /\ found[1] = items[p]
    <3>1. 1 \in DOMAIN found
      BY <1>4, <2>1
    <3> QED
      BY <1>1, <1>2, <1>4, <3>1
  <2>2. ASSUME NEW p \in DOMAIN items, items[p].id = i PROVE found # <<>>
    BY <1>1, <1>2, <2>2
  <2> QED
    BY <2>1, <2>2
<1>6. ASSUME found # <<>> PROVE \E p \in DOMAIN items : items[p].id = i /\ found[1] = items[p]
  <2>1. 1 \in DOMAIN found
    BY <1>4, <1>6
  <2> QED
    BY <1>1, <1>2, <1>4, <2>1
<1>7. ASSUME NEW p \in DOMAIN items, Distinct(items), items[p].id = i PROVE found = <<items[p]>>
  <2>1. \A k \in DOMAIN found : h[k] = p
    BY <1>1, <1>3, <1>4, <1>7 DEF Distinct
  <2>2. found # <<>>
    BY <1>5, <1>7
  <2>3. Len(found) \in Nat /\ DOMAIN found = 1..Len(found)
    BY <1>4
  <2>4. p \in Nat
    OBVIOUS
  <2>5. ASSUME Len(found) > 1 PROVE FALSE
    <3>1. 1 \in DOMAIN found /\ 2 \in DOMAIN found
      BY <2>3, <2>5
    <3>2. h[1] < h[2] /\ h[1] = p /\ h[2] = p
      BY <1>3, <2>1, <3>1
    <3> QED
      BY <2>4, <3>2
  <2>6. Len(found) = 1
    BY <1>4, <2>2, <2>3, <2>5
  <2>7. found[1] = items[p]
    BY <1>3, <2>1, <2>3, <2>6
  <2> QED
    BY <1>4, <2>6, <2>7
<1> QED
  BY <1>4, <1>5, <1>6, <1>7 DEF found, T

-----------------------------------------------------------------------------
(* What has happened on the server, and what of it a page knows.            *)

\* Events; Wrote is a delta or a patch, the n-th of item x.
TurnBegun(u) == <<"turn/started", u, 0>>
TurnOver(u) == <<"turn/completed", u, 0>>
ItemBegun(x, u) == <<"item/started", x, u>>
ItemDone(x, u) == <<"item/completed", x, u>>
Wrote(x, n) == <<"writes", x, n>>
Nothing == <<"none", 0, 0>>

\* What a message tells of.
Event(m) ==
    IF m.kind = "turn/started" THEN TurnBegun(m.turn)
    ELSE IF m.kind = "turn/completed" THEN TurnOver(m.turn)
    ELSE IF m.kind = "item/started" THEN ItemBegun(m.items[1].id, m.turn)
    ELSE IF m.kind = "item/completed" THEN ItemDone(m.items[1].id, m.turn)
    ELSE IF m.kind \in Writings THEN Wrote(m.items[1].id, Last(m.items[1].text))
    ELSE Nothing

\* K came before H: no completed item was written to in between.
Before(K, H) ==
    /\ K \subseteq H
    /\ \A x, u, n \in Nat : ItemDone(x, u) \in K /\ Wrote(x, n) \in H => Wrote(x, n) \in K

\* Events in the order the server brings them about.
Causal(K) ==
    /\ \A u \in Nat : TurnBegun(u) \in K => u > 0 /\ \A w \in 1..u : TurnBegun(w) \in K
    /\ \A u \in Nat : TurnOver(u) \in K => TurnBegun(u) \in K
    /\ \A x, u \in Nat : ItemBegun(x, u) \in K => TurnBegun(u) \in K
    /\ \A x, u, w \in Nat : ItemBegun(x, u) \in K /\ ItemBegun(x, w) \in K => u = w
    /\ \A x, u \in Nat : ItemDone(x, u) \in K => ItemBegun(x, u) \in K

\* Item x has b deltas.
Count(K, x, b) == \A n \in Nat : Wrote(x, n) \in K <=> n \in 1..b

\* An item of turn u as a page that knows K shows it.
ItemOK(item, u, K) ==
    /\ ItemBegun(item.id, u) \in K
    /\ \E b \in Nat :
          /\ Count(K, item.id, b)
          /\ ItemDone(item.id, u) \in K => item.text = Full(b)
          /\ ItemDone(item.id, u) \notin K => \E a \in 1..(b + 1) : item.text = Stretch(a, b)

\* The items of turn u as a page that knows K shows them.
ItemsOK(items, u, K) == Distinct(items) /\ \A p \in DOMAIN items : ItemOK(items[p], u, K)

\* All completed items of turn u are there.
HasDone(items, u, K) ==
    \A x \in Nat : ItemDone(x, u) \in K => \E p \in DOMAIN items : items[p].id = x

\* The turns v of a page that knows K; whole: turn objects have all items.
Shows(v, K) ==
    /\ \A u \in Nat : TurnBegun(u) \in K <=> u \in DOMAIN v
    /\ \A u \in DOMAIN v : v[u].id = u /\ ItemsOK(v[u].items, u, K)
HasAllDone(v, K, whole) ==
    \A u \in DOMAIN v : whole \/ TurnOver(u) \notin K => HasDone(v[u].items, u, K)

\* The items shown complete are so, also in turns that lack others.
FinishedOK(items, u, K) ==
    \A p \in DOMAIN items : Over(items[p].text) =>
        ItemOK(items[p], u, K) /\ ItemDone(items[p].id, u) \in K
AllFinishedOK(v, K) == \A k \in DOMAIN v : FinishedOK(v[k].items, v[k].id, K)

\* No delta is left out, of what H says the server wrote.
Whole(item, u, H) ==
    /\ ItemBegun(item.id, u) \in H
    /\ \/ /\ ItemDone(item.id, u) \in H
          /\ \E b \in Nat : Count(H, item.id, b) /\ item.text = Full(b)
       \/ \E b \in Nat : \E a \in 1..(b + 1) :
             item.text = Stretch(a, b) /\ \A n \in 1..b : Wrote(item.id, n) \in H
AllWhole(v, H) == \A k \in DOMAIN v : \A j \in DOMAIN v[k].items : Whole(v[k].items[j], v[k].id, H)

\* An event says what it is about.
LEMMA EventsSame ==
    /\ \A x, y : TurnBegun(x) = TurnBegun(y) => x = y
    /\ \A x, y : TurnOver(x) = TurnOver(y) => x = y
    /\ \A x, y, u, w : ItemBegun(x, u) = ItemBegun(y, w) => x = y /\ u = w
    /\ \A x, y, u, w : ItemDone(x, u) = ItemDone(y, w) => x = y /\ u = w
    /\ \A x, y, u, w : Wrote(x, u) = Wrote(y, w) => x = y /\ u = w
BY DEF TurnBegun, TurnOver, ItemBegun, ItemDone, Wrote

\* Different kinds of events differ.
LEMMA EventsDiffer ==
    /\ \A x, y : TurnBegun(x) # TurnOver(y)
    /\ \A x, y, w : TurnBegun(x) # ItemBegun(y, w) /\ TurnOver(x) # ItemBegun(y, w)
    /\ \A x, y, w : TurnBegun(x) # ItemDone(y, w) /\ TurnOver(x) # ItemDone(y, w)
    /\ \A x, y, w : TurnBegun(x) # Wrote(y, w) /\ TurnOver(x) # Wrote(y, w)
    /\ \A x, y, u, w : ItemBegun(x, u) # ItemDone(y, w)
    /\ \A x, y, u, w : ItemBegun(x, u) # Wrote(y, w)
    /\ \A x, y, u, w : ItemDone(x, u) # Wrote(y, w)
    /\ \A x : TurnBegun(x) # Nothing /\ TurnOver(x) # Nothing
    /\ \A x, u : ItemBegun(x, u) # Nothing /\ ItemDone(x, u) # Nothing /\ Wrote(x, u) # Nothing
BY DEF TurnBegun, TurnOver, ItemBegun, ItemDone, Wrote, Nothing

\* An item has one number of deltas.
LEMMA CountUnique ==
    ASSUME NEW K, NEW x, NEW b \in Nat, NEW c \in Nat, Count(K, x, b), Count(K, x, c)
    PROVE  b = c
<1>1. \A n \in Nat : n \in 1..b <=> n \in 1..c
  BY DEF Count
<1>2. (b > c => b \in 1..b) /\ (c > b => c \in 1..c)
  OBVIOUS
<1> QED
  BY <1>1, <1>2

\* What happens to something else leaves an item as it is.
LEMMA ItemFrame ==
    ASSUME NEW K, NEW e, NEW item, NEW u, ItemOK(item, u, K),
           \A n \in Nat : e # Wrote(item.id, n), e # ItemDone(item.id, u)
    PROVE  ItemOK(item, u, K \cup {e})
<1> DEFINE L == K \cup {e}
<1>1. PICK b \in Nat :
          /\ Count(K, item.id, b)
          /\ ItemDone(item.id, u) \in K => item.text = Full(b)
          /\ ItemDone(item.id, u) \notin K => \E a \in 1..(b + 1) : item.text = Stretch(a, b)
  BY DEF ItemOK
<1>2. Count(L, item.id, b)
  BY <1>1 DEF Count
<1>3. ItemDone(item.id, u) \in L <=> ItemDone(item.id, u) \in K
  OBVIOUS
<1>4. ItemBegun(item.id, u) \in L
  BY DEF ItemOK
<1> HIDE DEF L
<1>5. ItemOK(item, u, L)
  BY <1>1, <1>2, <1>3, <1>4, Zenon DEF ItemOK
<1> QED
  BY <1>5 DEF L

\* A completed item stays as it is.
LEMMA DoneFrame ==
    ASSUME NEW K, NEW H, Before(K, H), NEW item \in Items, NEW u \in Nat,
           ItemOK(item, u, K), ItemDone(item.id, u) \in K
    PROVE  ItemOK(item, u, H) /\ ItemDone(item.id, u) \in H
<1>1. PICK b \in Nat : Count(K, item.id, b) /\ item.text = Full(b)
  BY DEF ItemOK
<1>2. item.id \in Nat
  BY DEF Items
<1>3. Count(H, item.id, b)
  BY <1>1, <1>2 DEF Count, Before
<1> QED
  BY <1>1, <1>3 DEF ItemOK, Before

\* A page that knows all of a completed item shows it the same way.
LEMMA SameItem ==
    ASSUME NEW K, NEW x \in Items, NEW y \in Items, NEW u,
           ItemOK(x, u, K), ItemOK(y, u, K), x.id = y.id, ItemDone(x.id, u) \in K
    PROVE  x = y
<1>1. PICK b \in Nat : Count(K, x.id, b) /\ x.text = Full(b)
  BY DEF ItemOK
<1>2. PICK c \in Nat : Count(K, y.id, c) /\ y.text = Full(c)
  BY DEF ItemOK
<1>3. b = c
  BY <1>1, <1>2, CountUnique
<1> QED
  BY <1>1, <1>2, <1>3 DEF Items

\* What is shown complete remains so.
LEMMA FinishedStays ==
    ASSUME NEW K, NEW H, Before(K, H), NEW v \in Seq(Turns), AllFinishedOK(v, K)
    PROVE  AllFinishedOK(v, H)
<1> SUFFICES ASSUME NEW k \in DOMAIN v, NEW p \in DOMAIN v[k].items, Over(v[k].items[p].text)
             PROVE  /\ ItemOK(v[k].items[p], v[k].id, H)
                    /\ ItemDone(v[k].items[p].id, v[k].id) \in H
  BY DEF AllFinishedOK, FinishedOK
<1>1. v[k] \in Turns
  OBVIOUS
<1>2. v[k].id \in Nat /\ v[k].items[p] \in Items
  BY <1>1 DEF Turns
<1>3. ItemOK(v[k].items[p], v[k].id, K) /\ ItemDone(v[k].items[p].id, v[k].id) \in K
  BY DEF AllFinishedOK, FinishedOK
<1> QED
  BY <1>2, <1>3, DoneFrame

\* What is shown as K has it is shown without holes, then and later.
LEMMA OKIsWhole ==
    ASSUME NEW K, NEW H, Before(K, H), NEW item \in Items, NEW u \in Nat, ItemOK(item, u, K)
    PROVE  Whole(item, u, H)
<1>1. PICK b \in Nat :
          /\ Count(K, item.id, b)
          /\ ItemDone(item.id, u) \in K => item.text = Full(b)
          /\ ItemDone(item.id, u) \notin K => \E a \in 1..(b + 1) : item.text = Stretch(a, b)
  BY DEF ItemOK
<1>2. ItemBegun(item.id, u) \in H
  BY DEF ItemOK, Before
<1>3. CASE ItemDone(item.id, u) \in K
  <2>1. Count(H, item.id, b)
    BY <1>1, <1>3 DEF Count, Before, Items
  <2> QED
    BY <1>1, <1>2, <1>3, <2>1 DEF Whole, Before
<1>4. CASE ItemDone(item.id, u) \notin K
  <2>1. \A n \in 1..b : Wrote(item.id, n) \in H
    BY <1>1 DEF Count, Before
  <2> QED
    BY <1>1, <1>2, <1>4, <2>1 DEF Whole
<1> QED
  BY <1>3, <1>4

\* What is shown without holes is so later.
LEMMA WholeStays ==
    ASSUME NEW K, NEW H, Before(K, H), NEW item \in Items, NEW u \in Nat, Whole(item, u, K)
    PROVE  Whole(item, u, H)
<1>1. ItemBegun(item.id, u) \in H
  BY DEF Whole, Before
<1>2. ASSUME ItemDone(item.id, u) \in K, NEW b \in Nat, Count(K, item.id, b), item.text = Full(b)
      PROVE  Whole(item, u, H)
  <2>1. Count(H, item.id, b)
    BY <1>2 DEF Count, Before, Items
  <2> QED
    BY <1>1, <1>2, <2>1 DEF Whole, Before
<1>3. ASSUME NEW b \in Nat, NEW a \in 1..(b + 1), item.text = Stretch(a, b),
             \A n \in 1..b : Wrote(item.id, n) \in K
      PROVE  Whole(item, u, H)
  BY <1>1, <1>3 DEF Whole, Before
<1> QED
  BY <1>2, <1>3 DEF Whole

-----------------------------------------------------------------------------
(* What one notification does to a page that knew K.                        *)

\* The event e is about turn u.
About(e, u, K) ==
    \/ e \in {TurnBegun(u), TurnOver(u)}
    \/ \E x \in Nat : /\ ItemBegun(x, u) \in K
                      /\ \/ e \in {ItemBegun(x, u), ItemDone(x, u)}
                         \/ \E n \in Nat : e = Wrote(x, n)

\* The items of turn w, with all completed ones where they must be.
TurnOK(items, w, K, whole) ==
    ItemsOK(items, w, K) /\ (whole \/ TurnOver(w) \notin K => HasDone(items, w, K))

\* Shows and HasAllDone speak of one turn after the other.
LEMMA TurnByTurn ==
    ASSUME NEW v, NEW K, NEW whole
    PROVE  Shows(v, K) /\ HasAllDone(v, K, whole) <=>
             /\ \A w \in Nat : TurnBegun(w) \in K <=> w \in DOMAIN v
             /\ \A w \in DOMAIN v : v[w].id = w /\ TurnOK(v[w].items, w, K, whole)
BY Zenon DEF Shows, HasAllDone, TurnOK

\* The other turns stay as they are shown.
LEMMA OthersKept ==
    ASSUME NEW v \in Seq(Turns), NEW K, NEW e, NEW u \in Nat, NEW whole,
           Causal(K \cup {e}), About(e, u, K \cup {e}),
           NEW w \in DOMAIN v, w # u, TurnOK(v[w].items, w, K, whole)
    PROVE  TurnOK(v[w].items, w, K \cup {e}, whole)
<1> DEFINE L == K \cup {e}
<1>1. w \in Nat /\ v[w] \in Turns
  OBVIOUS
<1>2. v[w].items \in Seq(Items)
  BY <1>1 DEF Turns
<1>3. ASSUME NEW p \in DOMAIN v[w].items PROVE ItemOK(v[w].items[p], w, L)
  <2> DEFINE item == v[w].items[p]
  <2>1. ItemOK(item, w, K)
    BY DEF TurnOK, ItemsOK
  <2>2. item.id \in Nat
    <3>1. item \in Items
      BY <1>2
    <3> QED
      BY <3>1 DEF Items
  <2> HIDE DEF item
  <2>3. ItemBegun(item.id, w) \in L
    BY <2>1 DEF ItemOK, L
  <2>4. \A n \in Nat : e # Wrote(item.id, n)
    <3> SUFFICES ASSUME NEW n \in Nat, e = Wrote(item.id, n) PROVE FALSE
      OBVIOUS
    <3>1. PICK x \in Nat : ItemBegun(x, u) \in L /\ \E k \in Nat : e = Wrote(x, k)
      BY EventsDiffer DEF About
    <3>2. x = item.id
      BY <3>1, EventsSame
    <3> QED
      BY <1>1, <2>2, <2>3, <3>1, <3>2 DEF Causal
  <2>5. e # ItemDone(item.id, w)
    <3> SUFFICES ASSUME e = ItemDone(item.id, w) PROVE FALSE
      OBVIOUS
    <3>1. PICK x \in Nat : e = ItemDone(x, u)
      BY EventsDiffer DEF About
    <3> QED
      BY <3>1, EventsSame
  <2>6. ItemOK(item, w, L)
    BY <2>1, <2>4, <2>5, ItemFrame DEF L
  <2> QED
    BY <2>6 DEF item
<1>4. ASSUME whole \/ TurnOver(w) \notin L PROVE HasDone(v[w].items, w, L)
  <2>1. HasDone(v[w].items, w, K)
    BY <1>4 DEF TurnOK
  <2>2. ASSUME NEW x \in Nat, e = ItemDone(x, w) PROVE FALSE
    <3>1. PICK y \in Nat : e = ItemDone(y, u)
      BY <2>2, EventsDiffer DEF About
    <3> QED
      BY <2>2, <3>1, EventsSame
  <2>3. \A x \in Nat : ItemDone(x, w) \in L => ItemDone(x, w) \in K
    BY <2>2
  <2> QED
    BY <2>1, <2>3 DEF HasDone
<1>5. Distinct(v[w].items)
  BY DEF TurnOK, ItemsOK
<1> HIDE DEF L
<1>6. TurnOK(v[w].items, w, L, whole)
  BY <1>3, <1>4, <1>5 DEF TurnOK, ItemsOK
<1> QED
  BY <1>6 DEF L

\* The turn of the event is one shown, or the next.
LEMMA TurnShown ==
    ASSUME NEW v \in Seq(Turns), NEW K, NEW e, NEW u \in Nat, Shows(v, K),
           Causal(K \cup {e}), TurnBegun(u) \in K \cup {e}
    PROVE  /\ u \in 1..(Len(v) + 1)
           /\ TurnBegun(u) \in K <=> u \in DOMAIN v
<1>1. DOMAIN v = 1..Len(v) /\ Len(v) \in Nat
  OBVIOUS
<1>2. TurnBegun(u) \in K <=> u \in DOMAIN v
  BY DEF Shows
<1>3. u > 0 /\ \A w \in 1..u : TurnBegun(w) \in K \cup {e}
  BY DEF Causal
<1>4. ASSUME TurnBegun(u) \notin K PROVE u <= Len(v) + 1
  <2>1. e = TurnBegun(u)
    BY <1>4
  <2>2. \A w \in 1..(u - 1) : TurnBegun(w) \in K
    BY <1>3, <2>1, EventsSame
  <2>3. \A w \in 1..(u - 1) : w \in DOMAIN v
    BY <2>2 DEF Shows
  <2>4. u - 1 > 0 => u - 1 \in 1..(u - 1)
    OBVIOUS
  <2> QED
    BY <1>1, <1>3, <2>3, <2>4
<1> QED
  BY <1>1, <1>2, <1>3, <1>4

\* Replacing or adding the turn of the event makes the page know the event.
LEMMA TurnReplaced ==
    ASSUME NEW v \in Seq(Turns), NEW K, NEW e, NEW u \in Nat, NEW whole,
           NEW items \in Seq(Items),
           Shows(v, K), HasAllDone(v, K, whole),
           Causal(K \cup {e}), About(e, u, K \cup {e}), TurnBegun(u) \in K \cup {e},
           TurnOK(items, u, K \cup {e}, whole)
    PROVE  LET r == Upsert(v, [id |-> u, items |-> items])
           IN  Shows(r, K \cup {e}) /\ HasAllDone(r, K \cup {e}, whole)
<1> DEFINE L == K \cup {e}
           x == [id |-> u, items |-> items]
           r == Upsert(v, x)
<1>1. x \in Turns /\ x.id = u /\ x.items = items
  BY DEF Turns
<1>2. u \in 1..(Len(v) + 1)
  BY TurnShown
<1>3. \A k \in DOMAIN v : v[k].id = k /\ TurnOK(v[k].items, k, K, whole)
  BY TurnByTurn
<1>4. /\ DOMAIN r = DOMAIN v \cup {u}
      /\ r[u] = x
      /\ \A k \in DOMAIN v : k # u => r[k] = v[k]
  <2> HIDE DEF x
  <2>1. \A k \in DOMAIN v : v[k].id = k
    BY <1>3
  <2>2. PutAt(Upsert(v, x), v, u, x)
    BY <1>1, <1>2, <2>1, UpsertPlace
  <2> QED
    BY <2>2 DEF PutAt
<1>5. \A k \in DOMAIN v : k # u => TurnOK(v[k].items, k, L, whole)
  BY <1>3, OthersKept
<1>6. \A k \in DOMAIN r : r[k].id = k /\ TurnOK(r[k].items, k, L, whole)
  <2> HIDE DEF r, x, L
  <2>1. TurnOK(items, u, L, whole)
    BY DEF L
  <2> QED
    BY <1>1, <1>3, <1>4, <1>5, <2>1
<1>7. ASSUME NEW w \in Nat PROVE TurnBegun(w) \in L <=> w \in DOMAIN r
  <2>1. TurnBegun(w) \in K <=> w \in DOMAIN v
    BY DEF Shows
  <2>2. e = TurnBegun(w) => w = u
    BY EventsSame, EventsDiffer DEF About
  <2> HIDE DEF r
  <2> QED
    BY <1>4, <2>1, <2>2
<1> HIDE DEF r, L
<1>8. Shows(r, L) /\ HasAllDone(r, L, whole)
  BY <1>6, <1>7, TurnByTurn
<1> QED
  BY <1>8 DEF r, L, x

\* Replacing or adding the item of the event, likewise.
LEMMA ItemReplaced ==
    ASSUME NEW items \in Seq(Items), NEW K, NEW e, NEW u \in Nat, NEW whole,
           NEW item \in Items, TurnOK(items, u, K, whole),
           ItemOK(item, u, K \cup {e}),
           e \in {ItemBegun(item.id, u), ItemDone(item.id, u)} \/ \E n \in Nat : e = Wrote(item.id, n)
    PROVE  TurnOK(Upsert(items, item), u, K \cup {e}, whole)
<1> DEFINE L == K \cup {e}
           r == Upsert(items, item)
<1>1. /\ r \in Seq(Items)
      /\ \A k \in DOMAIN r : r[k] = item \/ \E j \in DOMAIN items : r[k] = items[j] /\ items[j].id # item.id
      /\ \E k \in DOMAIN r : r[k] = item
      /\ \A j \in DOMAIN items : items[j].id # item.id => \E k \in DOMAIN r : r[k] = items[j]
      /\ Distinct(items) => Distinct(r)
  BY UpsertMembers
<1>2. Distinct(r)
  BY <1>1 DEF TurnOK, ItemsOK
<1> HIDE DEF r
<1>3. ASSUME NEW j \in DOMAIN items, items[j].id # item.id PROVE ItemOK(items[j], u, L)
  <2>1. ItemOK(items[j], u, K)
    BY DEF TurnOK, ItemsOK
  <2>2. (\A n \in Nat : e # Wrote(items[j].id, n)) /\ e # ItemDone(items[j].id, u)
    BY <1>3, EventsSame, EventsDiffer
  <2> QED
    BY <2>1, <2>2, ItemFrame
<1>4. \A k \in DOMAIN r : ItemOK(r[k], u, L)
  <2> HIDE DEF L
  <2>1. ItemOK(item, u, L)
    BY DEF L
  <2> QED
    BY <1>1, <1>3, <2>1
<1>5. ASSUME whole \/ TurnOver(u) \notin L PROVE HasDone(r, u, L)
  <2>1. HasDone(items, u, K)
    BY <1>5 DEF TurnOK
  <2> SUFFICES ASSUME NEW x \in Nat, ItemDone(x, u) \in L
               PROVE  \E k \in DOMAIN r : r[k].id = x
    BY DEF HasDone
  <2>2. CASE x = item.id
    BY <1>1, <2>2
  <2>3. CASE x # item.id
    <3>1. e # ItemDone(x, u)
      BY <2>3, EventsSame, EventsDiffer
    <3>2. PICK j \in DOMAIN items : items[j].id = x
      BY <2>1, <3>1 DEF HasDone
    <3> QED
      BY <1>1, <2>3, <3>2
  <2> QED
    BY <2>2, <2>3
<1> HIDE DEF L
<1>6. TurnOK(r, u, L, whole)
  BY <1>2, <1>4, <1>5 DEF TurnOK, ItemsOK
<1> QED
  BY <1>6 DEF r, L

\* The items shown of a turn.
LEMMA ItemsShownAre ==
    ASSUME view \in Seq(Turns), NEW u
    PROVE  /\ ItemsShown(u) \in Seq(Items)
           /\ ItemsShown(u) # <<>> => \E k \in DOMAIN view : view[k].id = u /\ ItemsShown(u) = view[k].items
           /\ \A k \in DOMAIN view :
                 (\A l \in DOMAIN view : view[l].id = l) /\ k = u => ItemsShown(u) = view[u].items
<1>1. CASE \E k \in DOMAIN view : view[k].id = u
  <2>1. PICK k \in DOMAIN view : k = (CHOOSE l \in DOMAIN view : view[l].id = u) /\ view[k].id = u
    BY <1>1
  <2>2. ItemsShown(u) = view[k].items
    BY <1>1, <2>1 DEF ItemsShown
  <2>3. view[k] \in Turns
    OBVIOUS
  <2> QED
    BY <2>1, <2>2, <2>3 DEF Turns
<1>2. CASE ~\E k \in DOMAIN view : view[k].id = u
  BY <1>2 DEF ItemsShown
<1> QED
  BY <1>1, <1>2

\* What FindItem finds among them.
LEMMA FindItemFinds ==
    ASSUME view \in Seq(Turns), NEW u, NEW i
    PROVE  /\ FindItem(u, i) \in Seq(Items)
           /\ FindItem(u, i) = <<>> <=> ~\E p \in DOMAIN ItemsShown(u) : ItemsShown(u)[p].id = i
           /\ FindItem(u, i) # <<>> => \E p \in DOMAIN ItemsShown(u) :
                 ItemsShown(u)[p].id = i /\ FindItem(u, i)[1] = ItemsShown(u)[p]
           /\ \A p \in DOMAIN ItemsShown(u) :
                 Distinct(ItemsShown(u)) /\ ItemsShown(u)[p].id = i => FindItem(u, i) = <<ItemsShown(u)[p]>>
<1> DEFINE items == ItemsShown(u)
           found == Keep(items, {item \in Range(items) : item.id = i})
<1>1. items \in Seq(Items)
  BY ItemsShownAre
<1>2. FindItem(u, i) = found
  BY DEF FindItem
<1> HIDE DEF items
<1>3. /\ found \in Seq(Items)
      /\ found = <<>> <=> ~\E p \in DOMAIN items : items[p].id = i
      /\ found # <<>> => \E p \in DOMAIN items : items[p].id = i /\ found[1] = items[p]
      /\ \A p \in DOMAIN items : Distinct(items) /\ items[p].id = i => found = <<items[p]>>
  BY <1>1, KeepId
<1> HIDE DEF found
<1> QED
  BY <1>2, <1>3 DEF items

-----------------------------------------------------------------------------
(* What the notifications say, and what the page makes of each.             *)

\* A message is right of what had happened when it was sent.
MessageOK(m, K, whole) ==
    /\ m.kind # "resumed" => Event(m) \in K
    /\ m.kind = "turn/started" => m.items = <<>>
    /\ m.kind = "turn/completed" =>
          ItemsOK(m.items, m.turn, K) /\ (whole => HasDone(m.items, m.turn, K))
    /\ m.kind \in ItemKinds \cup Writings =>
          Len(m.items) = 1 /\ ItemBegun(m.items[1].id, m.turn) \in K
    /\ m.kind = "item/started" => m.items[1].text = <<>> /\ Count(K, m.items[1].id, 0)
    /\ m.kind = "item/completed" =>
          \E b \in Nat : Count(K, m.items[1].id, b) /\ m.items[1].text = Full(b)
    /\ m.kind \in Writings =>
          \E b \in Nat \ {0} :
             /\ Count(K, m.items[1].id, b) /\ ItemDone(m.items[1].id, m.turn) \notin K
             /\ m.items[1].text = IF m.kind = "delta" THEN Stretch(b, b) ELSE Stretch(1, b)
    /\ m.kind = "resumed" =>
          Shows(m.turns, K) /\ \A u \in DOMAIN m.turns : HasDone(m.turns[u].items, u, K)

\* The item as a notification about an item leaves it.
NewItem(m) ==
    LET found == FindItem(m.turn, m.items[1].id)
    IN  [id |-> m.items[1].id,
         text |-> IF m.kind = "delta"
                  THEN (IF found = <<>> THEN <<>> ELSE found[1].text) \o m.items[1].text
                  ELSE m.items[1].text]
\* A patch for an item not shown.
Dropped(m) == m.kind = "patch" /\ FindItem(m.turn, m.items[1].id) = <<>>

\* What is shown after a notification about an item.
LEMMA AppliedItem ==
    ASSUME view \in Seq(Turns), NEW m \in Notes, m.kind \in ItemKinds \cup Writings, Len(m.items) = 1
    PROVE  /\ m.turn \in Nat /\ m.items[1] \in Items /\ m.items[1].id \in Nat /\ m.items[1].text \in Texts
           /\ NewItem(m) \in Items /\ NewItem(m).id = m.items[1].id
           /\ Dropped(m) => Applied(m) = view
           /\ ~Dropped(m) =>
                 Applied(m) = Upsert(view, [id |-> m.turn, items |-> Upsert(ItemsShown(m.turn), NewItem(m))])
<1>1. m.turn \in Nat /\ m.items \in Seq(Items)
  BY DEF Notes
<1>2. m.items[1] \in Items
  BY <1>1
<1>3. m.items[1].id \in Nat /\ m.items[1].text \in Texts
  BY <1>2 DEF Items
<1> DEFINE found == FindItem(m.turn, m.items[1].id)
<1>5. found \in Seq(Items)
  BY FindItemFinds
<1> HIDE DEF found
<1>6. found # <<>> => found[1].text \in Texts
  <2> SUFFICES ASSUME found # <<>> PROVE found[1].text \in Texts
    OBVIOUS
  <2>1. found[1] \in Items
    BY <1>5
  <2> QED
    BY <2>1 DEF Items
<1>7. (IF found = <<>> THEN <<>> ELSE found[1].text) \o m.items[1].text \in Texts
  <2>1. (IF found = <<>> THEN <<>> ELSE found[1].text) \in Texts
    BY <1>6 DEF Texts
  <2> QED
    BY <1>3, <2>1 DEF Texts
<1>8. NewItem(m) \in Items /\ NewItem(m).id = m.items[1].id
  BY <1>3, <1>7 DEF NewItem, Items, found
<1>9. ASSUME m.kind \in ItemKinds
      PROVE  ~Dropped(m) /\ Applied(m) = Upsert(view, [id |-> m.turn, items |-> Upsert(ItemsShown(m.turn), NewItem(m))])
  <2>1. NewItem(m) = m.items[1]
    BY <1>2, <1>9 DEF NewItem, Items, ItemKinds
  <2>2. Applied(m) = UpsertItem(m.turn, m.items[1])
    BY <1>9 DEF Applied, ItemKinds
  <2> QED
    BY <1>9, <2>1, <2>2 DEF Dropped, ItemKinds, UpsertItem, UpsertTurn, MergeLifecycleItem
<1>10. ASSUME m.kind = "delta"
       PROVE  ~Dropped(m) /\ Applied(m) = Upsert(view, [id |-> m.turn, items |-> Upsert(ItemsShown(m.turn), NewItem(m))])
  <2>1. Applied(m) = AppendItemString(m.turn, m.items[1].id, m.items[1].text)
    BY <1>10 DEF Applied
  <2> QED
    BY <1>10, <2>1 DEF Dropped, AppendItemString, NewItem, UpsertItem, UpsertTurn, MergeLifecycleItem
<1>11. ASSUME m.kind = "patch"
       PROVE  /\ Dropped(m) => Applied(m) = view
              /\ ~Dropped(m) =>
                   Applied(m) = Upsert(view, [id |-> m.turn, items |-> Upsert(ItemsShown(m.turn), NewItem(m))])
  <2>1. Applied(m) = PatchItem(m.turn, m.items[1].id, m.items[1].text)
    BY <1>11 DEF Applied
  <2> QED
    BY <1>11, <2>1 DEF Dropped, PatchItem, NewItem, UpsertItem, UpsertTurn, MergeLifecycleItem
<1> QED
  BY <1>1, <1>2, <1>3, <1>8, <1>9, <1>10, <1>11 DEF Writings

\* What is shown after a notification about a turn.
LEMMA AppliedTurn ==
    ASSUME NEW m \in Notes, m.kind \in TurnKinds
    PROVE  /\ m.turn \in Nat /\ m.items \in Seq(Items)
           /\ Applied(m) = Upsert(view, [id |-> m.turn, items |-> m.items])
BY DEF Notes, Applied, TurnKinds, UpsertTurn

\* The deltas of an item before the b-th was written.
LEMMA CountBefore ==
    ASSUME NEW K, NEW x, NEW b \in Nat \ {0}, NEW c \in Nat,
           Wrote(x, b) \notin K, Count(K \cup {Wrote(x, b)}, x, b), Count(K, x, c)
    PROVE  b = c + 1
<1>1. \A n \in Nat : n # b => (n \in 1..b <=> n \in 1..c)
  BY EventsSame DEF Count
<1>2. b \notin 1..c
  BY DEF Count
<1>3. b - 1 \in Nat /\ b - 1 # b /\ (b - 1 > 0 => b - 1 \in 1..b)
  OBVIOUS
<1> QED
  BY <1>1, <1>2, <1>3

\* The item a delta leaves.
LEMMA DeltaItemOK ==
    ASSUME view \in Seq(Turns), NEW K, NEW m \in Notes, NEW whole, m.kind = "delta",
           Shows(view, K), Event(m) \notin K, Causal(K \cup {Event(m)}),
           MessageOK(m, K \cup {Event(m)}, whole)
    PROVE  ItemOK(NewItem(m), m.turn, K \cup {Event(m)})
<1> DEFINE u == m.turn
           i == m.items[1].id
           L == K \cup {Event(m)}
           items == ItemsShown(u)
           found == FindItem(u, i)
<1>1. Len(m.items) = 1 /\ ItemBegun(i, u) \in L
  BY DEF MessageOK, Writings
<1>2. u \in Nat /\ i \in Nat /\ m.items[1].text \in Texts /\ NewItem(m) \in Items /\ NewItem(m).id = i
  BY <1>1, AppliedItem DEF Writings
<1>3. PICK b \in Nat \ {0} : Count(L, i, b) /\ ItemDone(i, u) \notin L /\ m.items[1].text = Stretch(b, b)
  BY DEF MessageOK, Writings
<1>4. Event(m) = Wrote(i, b)
  <2>1. Last(Stretch(b, b)) = b
    BY StretchLast
  <2> QED
    BY <1>3, <2>1 DEF Event, Writings
<1>5. ItemBegun(i, u) \in K /\ ItemDone(i, u) \notin K
  BY <1>1, <1>3, <1>4, EventsDiffer
<1>6. u \in DOMAIN view
  <2>1. TurnBegun(u) \in L
    BY <1>1, <1>2 DEF Causal
  <2>2. TurnBegun(u) \in K
    BY <1>4, <2>1, EventsDiffer
  <2> QED
    BY <1>2, <2>2 DEF Shows
<1>7. items = view[u].items /\ items \in Seq(Items) /\ ItemsOK(items, u, K)
  <2>1. \A l \in DOMAIN view : view[l].id = l
    BY DEF Shows
  <2>2. items = view[u].items /\ items \in Seq(Items)
    BY <1>6, <2>1, ItemsShownAre
  <2> QED
    BY <1>6, <2>2 DEF Shows
<1>8. /\ found = <<>> <=> ~\E p \in DOMAIN items : items[p].id = i
      /\ found # <<>> => \E p \in DOMAIN items : items[p].id = i /\ found[1] = items[p]
  BY FindItemFinds
<1>9. NewItem(m).text = (IF found = <<>> THEN <<>> ELSE found[1].text) \o Stretch(b, b)
  BY <1>3 DEF NewItem
<1> HIDE DEF u, i, items, found
<1>10. CASE found = <<>>
  <2>1. b \in 1..(b + 1) /\ Stretch(b, b) \in Texts
    BY StretchText
  <2>2. NewItem(m).text = Stretch(b, b)
    BY <1>9, <1>10, <2>1 DEF Texts
  <2>3. ItemOK(NewItem(m), u, L)
    BY <1>1, <1>2, <1>3, <2>1, <2>2 DEF ItemOK
  <2> QED
    BY <2>3 DEF u
<1>11. CASE found # <<>>
  <2>1. PICK p \in DOMAIN items : items[p].id = i /\ found[1] = items[p]
    BY <1>8, <1>11
  <2>2. ItemOK(items[p], u, K)
    BY <1>7 DEF ItemsOK
  <2>3. PICK c \in Nat : Count(K, i, c) /\ \E a \in 1..(c + 1) : items[p].text = Stretch(a, c)
    BY <1>5, <2>1, <2>2 DEF ItemOK
  <2>4. PICK a \in 1..(c + 1) : items[p].text = Stretch(a, c)
    BY <2>3
  <2>5. b = c + 1
    <3>1. Count(K \cup {Wrote(i, b)}, i, b) /\ Wrote(i, b) \notin K
      BY <1>3, <1>4
    <3> QED
      BY <2>3, <3>1, CountBefore
  <2>6. Stretch(a, c) \o Stretch(b, b) = Stretch(a, b)
    BY <2>5, StretchGrows
  <2>7. NewItem(m).text = Stretch(a, b)
    BY <1>9, <1>11, <2>1, <2>4, <2>6
  <2>8. a \in 1..(b + 1)
    BY <2>5
  <2>9. ItemOK(NewItem(m), u, L)
    BY <1>1, <1>2, <1>3, <2>7, <2>8 DEF ItemOK
  <2> QED
    BY <2>9 DEF u
<1> QED
  BY <1>10, <1>11

\* The item that the other notifications about an item leave.
LEMMA NewItemOK ==
    ASSUME view \in Seq(Turns), NEW K, NEW m \in Notes, NEW whole,
           m.kind \in ItemKinds \cup Writings,
           Shows(view, K), Event(m) \notin K, Causal(K), Causal(K \cup {Event(m)}),
           MessageOK(m, K \cup {Event(m)}, whole)
    PROVE  ItemOK(NewItem(m), m.turn, K \cup {Event(m)})
<1> DEFINE u == m.turn
           i == m.items[1].id
           L == K \cup {Event(m)}
<1>1. Len(m.items) = 1 /\ ItemBegun(i, u) \in L
  BY DEF MessageOK
<1>2. u \in Nat /\ i \in Nat /\ NewItem(m).id = i
  BY <1>1, AppliedItem
<1>3. CASE m.kind = "item/started"
  <2>1. m.items[1].text = <<>> /\ Count(L, i, 0)
    BY <1>3 DEF MessageOK
  <2>2. NewItem(m).text = <<>>
    BY <1>3, <2>1 DEF NewItem
  <2>3. Stretch(1, 0) = <<>>
    <3> DEFINE z == 0
    <3>1. z \in Nat /\ 1 \in 1..(z + 1) /\ z + 1 - 1 = 0
      OBVIOUS
    <3> HIDE DEF z
    <3>2. Stretch(1, z) \in Texts /\ Len(Stretch(1, z)) = 0
      BY <3>1, StretchText
    <3> QED
      BY <3>2 DEF Texts, z
  <2>4. Event(m) = ItemBegun(i, u)
    BY <1>3 DEF Event
  <2>5. ItemDone(i, u) \notin L
    <3>1. ItemDone(i, u) \notin K
      BY <1>2, <2>4 DEF Causal
    <3> QED
      BY <2>4, <3>1, EventsDiffer
  <2>6. 1 \in 1..(0 + 1) /\ 0 \in Nat
    OBVIOUS
  <2> HIDE DEF u, i, L
  <2>7. ItemOK(NewItem(m), u, L)
    BY <1>1, <1>2, <2>1, <2>2, <2>3, <2>5, <2>6 DEF ItemOK
  <2> QED
    BY <2>7 DEF u, L
<1>4. CASE m.kind = "item/completed"
  <2>1. PICK b \in Nat : Count(L, i, b) /\ m.items[1].text = Full(b)
    BY <1>4 DEF MessageOK
  <2>2. NewItem(m).text = Full(b)
    BY <1>4, <2>1 DEF NewItem
  <2>3. ItemDone(i, u) \in L
    BY <1>4 DEF Event
  <2> HIDE DEF u, i, L
  <2>4. ItemOK(NewItem(m), u, L)
    BY <1>1, <1>2, <2>1, <2>2, <2>3 DEF ItemOK
  <2> QED
    BY <2>4 DEF u, L
<1>5. CASE m.kind = "delta"
  BY <1>5, DeltaItemOK
<1>6. CASE m.kind = "patch"
  <2>1. PICK b \in Nat \ {0} : Count(L, i, b) /\ ItemDone(i, u) \notin L /\ m.items[1].text = Stretch(1, b)
    BY <1>6 DEF MessageOK, Writings
  <2>2. NewItem(m).text = Stretch(1, b)
    BY <1>6, <2>1 DEF NewItem
  <2>3. 1 \in 1..(b + 1)
    OBVIOUS
  <2> HIDE DEF u, i, L
  <2>4. ItemOK(NewItem(m), u, L)
    BY <1>1, <1>2, <2>1, <2>2, <2>3 DEF ItemOK
  <2> QED
    BY <2>4 DEF u, L
<1> QED
  BY <1>3, <1>4, <1>5, <1>6 DEF ItemKinds, Writings

\* Items that are not written to stay as they are shown.
LEMMA NotWritten ==
    ASSUME NEW items \in Seq(Items), NEW K, NEW x, NEW n, NEW u, NEW whole,
           TurnOK(items, u, K, whole), \A p \in DOMAIN items : items[p].id # x
    PROVE  TurnOK(items, u, K \cup {Wrote(x, n)}, whole)
<1> DEFINE e == Wrote(x, n)
           L == K \cup {e}
<1>1. ASSUME NEW p \in DOMAIN items PROVE ItemOK(items[p], u, L)
  <2>1. ItemOK(items[p], u, K)
    BY DEF TurnOK, ItemsOK
  <2>2. (\A k \in Nat : e # Wrote(items[p].id, k)) /\ e # ItemDone(items[p].id, u)
    BY EventsSame, EventsDiffer
  <2> HIDE DEF e
  <2> QED
    BY <2>1, <2>2, ItemFrame
<1>2. \A y : (ItemDone(y, u) \in L <=> ItemDone(y, u) \in K) /\ (TurnOver(y) \in L <=> TurnOver(y) \in K)
  BY EventsDiffer
<1>3. whole \/ TurnOver(u) \notin L => HasDone(items, u, L)
  <2> HIDE DEF L
  <2> QED
    BY <1>2 DEF TurnOK, HasDone
<1>4. Distinct(items)
  BY DEF TurnOK, ItemsOK
<1> HIDE DEF L
<1>5. TurnOK(items, u, L, whole)
  BY <1>1, <1>3, <1>4 DEF TurnOK, ItemsOK
<1> QED
  BY <1>5 DEF L, e

\* A page that shows what it knows does so after the next notification.
LEMMA AppliedShows ==
    ASSUME view \in Seq(Turns), NEW K, NEW m \in Notes, NEW whole,
           Shows(view, K), HasAllDone(view, K, whole),
           Event(m) \notin K, Causal(K), Causal(K \cup {Event(m)}),
           MessageOK(m, K \cup {Event(m)}, whole)
    PROVE  /\ Shows(Applied(m), K \cup {Event(m)})
           /\ HasAllDone(Applied(m), K \cup {Event(m)}, whole)
<1> DEFINE u == m.turn
           e == Event(m)
           L == K \cup {e}
<1>1. \A k \in DOMAIN view : view[k].id = k /\ TurnOK(view[k].items, k, K, whole)
  BY TurnByTurn
<1>2. CASE m.kind \in TurnKinds
  <2>1. u \in Nat /\ m.items \in Seq(Items) /\ Applied(m) = Upsert(view, [id |-> u, items |-> m.items])
    BY <1>2, AppliedTurn
  <2>2. e \in {TurnBegun(u), TurnOver(u)} /\ e \in L
    BY <1>2 DEF Event, TurnKinds
  <2>3. About(e, u, L)
    BY <2>2 DEF About
  <2>4. TurnBegun(u) \in L
    BY <2>1, <2>2 DEF Causal
  <2>5. TurnOK(m.items, u, L, whole)
    <3>1. CASE m.kind = "turn/started"
      <4>1. m.items = <<>> /\ e = TurnBegun(u)
        BY <3>1 DEF MessageOK, Event
      <4>2. \A x \in Nat : ItemDone(x, u) \notin L
        <5>1. \A x \in Nat : ItemDone(x, u) \notin K
          BY <2>1, <4>1 DEF Causal
        <5> QED
          BY <4>1, <5>1, EventsDiffer
      <4> HIDE DEF L
      <4> QED
        BY <4>1, <4>2 DEF TurnOK, ItemsOK, HasDone, Distinct
    <3>2. CASE m.kind = "turn/completed"
      <4>1. e = TurnOver(u) /\ ItemsOK(m.items, u, L) /\ (whole => HasDone(m.items, u, L))
        BY <3>2 DEF MessageOK, Event
      <4>2. TurnOver(u) \in L
        BY <4>1
      <4> HIDE DEF L
      <4> QED
        BY <4>1, <4>2 DEF TurnOK
    <3> QED
      BY <1>2, <3>1, <3>2 DEF TurnKinds
  <2> HIDE DEF e, u
  <2> QED
    BY <2>1, <2>3, <2>4, <2>5, TurnReplaced DEF e
<1>3. CASE m.kind \in ItemKinds \cup Writings
  <2> DEFINE i == m.items[1].id
             item == NewItem(m)
             items == ItemsShown(u)
  <2>1. Len(m.items) = 1 /\ ItemBegun(i, u) \in L
    BY <1>3 DEF MessageOK
  <2>2. /\ u \in Nat /\ i \in Nat /\ m.items[1].text \in Texts /\ item \in Items /\ item.id = i
        /\ Dropped(m) => Applied(m) = view
        /\ ~Dropped(m) => Applied(m) = Upsert(view, [id |-> u, items |-> Upsert(items, item)])
    BY <1>3, <2>1, AppliedItem
  <2>3. e \in {ItemBegun(i, u), ItemDone(i, u)} \/ \E n \in Nat : e = Wrote(i, n)
    <3>1. CASE m.kind \in ItemKinds
      BY <3>1 DEF Event, ItemKinds
    <3>2. CASE m.kind \in Writings
      <4>1. PICK b \in Nat \ {0} : m.items[1].text = IF m.kind = "delta" THEN Stretch(b, b) ELSE Stretch(1, b)
        BY <3>2 DEF MessageOK
      <4>2. Last(Stretch(b, b)) = b /\ Last(Stretch(1, b)) = b
        BY StretchLast
      <4>3. e = Wrote(i, b)
        BY <3>2, <4>1, <4>2 DEF Event, Writings
      <4> QED
        BY <4>3
    <3> QED
      BY <1>3, <3>1, <3>2
  <2>4. About(e, u, L)
    BY <2>1, <2>2, <2>3 DEF About
  <2>5. TurnBegun(u) \in L /\ TurnBegun(u) \in K
    <3>1. TurnBegun(u) \in L
      BY <2>1, <2>2 DEF Causal
    <3> QED
      BY <2>3, <3>1, EventsDiffer
  <2>6. u \in DOMAIN view
    BY <2>2, <2>5 DEF Shows
  <2>7. items = view[u].items /\ items \in Seq(Items) /\ TurnOK(items, u, K, whole)
    <3>1. items = view[u].items /\ items \in Seq(Items)
      BY <1>1, <2>6, ItemsShownAre
    <3> QED
      BY <1>1, <2>6, <3>1
  <2>8. CASE ~Dropped(m)
    <3>1. ItemOK(item, u, L)
      BY <1>3, NewItemOK
    <3> HIDE DEF u, item, i, items, e
    <3>2. Upsert(items, item) \in Seq(Items)
      BY <2>2, <2>7, UpsertMembers
    <3>3. TurnOK(Upsert(items, item), u, L, whole)
      BY <2>2, <2>3, <2>7, <3>1, ItemReplaced
    <3>4. /\ Shows(Upsert(view, [id |-> u, items |-> Upsert(items, item)]), L)
          /\ HasAllDone(Upsert(view, [id |-> u, items |-> Upsert(items, item)]), L, whole)
      BY <2>2, <2>4, <2>5, <3>2, <3>3, TurnReplaced DEF e
    <3> QED
      BY <2>2, <2>8, <3>4 DEF e
  <2>9. CASE Dropped(m)
    <3>1. PICK b \in Nat : e = Wrote(i, b)
      BY <2>3, <2>9, EventsDiffer DEF Dropped, Event, Writings
    <3>2. \A p \in DOMAIN items : items[p].id # i
      BY <2>9, FindItemFinds DEF Dropped
    <3>3. TurnOK(view[u].items, u, L, whole)
      <4> HIDE DEF items, i, e, u
      <4> QED
        BY <2>7, <3>1, <3>2, NotWritten
    <3>4. \A w \in DOMAIN view : w # u => TurnOK(view[w].items, w, L, whole)
      BY <1>1, <2>2, <2>4, OthersKept
    <3>5. \A w \in Nat : TurnBegun(w) \in L <=> w \in DOMAIN view
      BY <3>1, EventsDiffer DEF Shows
    <3>6. \A w \in DOMAIN view : view[w].id = w /\ TurnOK(view[w].items, w, L, whole)
      <4> HIDE DEF L, u
      <4> QED
        BY <1>1, <3>3, <3>4
    <3> HIDE DEF L
    <3>7. Shows(view, L) /\ HasAllDone(view, L, whole)
      BY <3>5, <3>6, TurnByTurn
    <3> QED
      BY <2>2, <2>9, <3>7 DEF L
  <2> QED
    BY <2>8, <2>9
<1> QED
  BY <1>2, <1>3 DEF Notes

\* A notification leaves turns with their items.
LEMMA AppliedType ==
    ASSUME view \in Seq(Turns), NEW m \in Notes, m.kind \in ItemKinds \cup Writings => Len(m.items) = 1
    PROVE  Applied(m) \in Seq(Turns)
<1>1. \A u \in Nat, items \in Seq(Items) : Upsert(view, [id |-> u, items |-> items]) \in Seq(Turns)
  <2> TAKE u \in Nat, items \in Seq(Items)
  <2> DEFINE x == [id |-> u, items |-> items]
  <2>1. x \in Turns
    BY DEF Turns
  <2> HIDE DEF x
  <2>2. Upsert(view, x) \in Seq(Turns)
    BY <2>1, UpsertMembers
  <2> QED
    BY <2>2 DEF x
<1>2. CASE m.kind \in TurnKinds
  BY <1>1, <1>2, AppliedTurn
<1>3. CASE m.kind \in ItemKinds \cup Writings
  <2> DEFINE item == NewItem(m)
             items == ItemsShown(m.turn)
  <2>1. /\ m.turn \in Nat /\ item \in Items
        /\ Dropped(m) => Applied(m) = view
        /\ ~Dropped(m) => Applied(m) = Upsert(view, [id |-> m.turn, items |-> Upsert(items, item)])
    BY <1>3, AppliedItem
  <2>2. items \in Seq(Items)
    BY ItemsShownAre
  <2> HIDE DEF item, items
  <2>3. Upsert(items, item) \in Seq(Items)
    BY <2>1, <2>2, UpsertMembers
  <2> QED
    BY <1>1, <2>1, <2>3
<1> QED
  BY <1>2, <1>3 DEF Notes

\* Complete items remain so when a turn is replaced, or an item of it.
LEMMA FinishedReplaced ==
    ASSUME NEW v \in Seq(Turns), NEW K, AllFinishedOK(v, K),
           NEW u \in Nat, NEW items \in Seq(Items), FinishedOK(items, u, K)
    PROVE  AllFinishedOK(Upsert(v, [id |-> u, items |-> items]), K)
<1> DEFINE x == [id |-> u, items |-> items]
           r == Upsert(v, x)
<1>1. x \in Turns /\ x.id = u /\ x.items = items
  BY DEF Turns
<1> HIDE DEF x
<1>2. \A k \in DOMAIN r : r[k] = x \/ \E j \in DOMAIN v : r[k] = v[j]
  BY <1>1, UpsertMembers
<1> HIDE DEF r
<1>3. AllFinishedOK(r, K)
  BY <1>1, <1>2 DEF AllFinishedOK
<1> QED
  BY <1>3 DEF r, x

\* Complete items remain so when one more is merged into their turn.
LEMMA FinishedMerged ==
    ASSUME NEW items \in Seq(Items), NEW K, NEW u, FinishedOK(items, u, K), NEW item \in Items,
           Over(item.text) => ItemOK(item, u, K) /\ ItemDone(item.id, u) \in K
    PROVE  FinishedOK(Upsert(items, item), u, K)
<1> DEFINE r == Upsert(items, item)
<1>1. \A k \in DOMAIN r : r[k] = item \/ \E j \in DOMAIN items : r[k] = items[j]
  BY UpsertMembers
<1> HIDE DEF r
<1>2. FinishedOK(r, u, K)
  BY <1>1 DEF FinishedOK
<1> QED
  BY <1>2 DEF r

\* Also on a page that lacks something.
LEMMA AppliedFinished ==
    ASSUME view \in Seq(Turns), NEW K, NEW L, Before(K, L), AllFinishedOK(view, K),
           NEW m \in Notes, NEW whole, MessageOK(m, L, whole)
    PROVE  AllFinishedOK(Applied(m), L)
<1>1. AllFinishedOK(view, L)
  BY FinishedStays
<1>2. CASE m.kind \in TurnKinds
  <2>1. FinishedOK(m.items, m.turn, L)
    <3>1. CASE m.kind = "turn/started"
      BY <3>1 DEF MessageOK, FinishedOK
    <3>2. CASE m.kind = "turn/completed"
      <4> SUFFICES ASSUME NEW p \in DOMAIN m.items, Over(m.items[p].text)
                   PROVE  ItemOK(m.items[p], m.turn, L) /\ ItemDone(m.items[p].id, m.turn) \in L
        BY DEF FinishedOK
      <4>1. ItemOK(m.items[p], m.turn, L)
        BY <3>2 DEF MessageOK, ItemsOK
      <4>2. PICK b \in Nat :
              ItemDone(m.items[p].id, m.turn) \notin L => \E a \in 1..(b + 1) : m.items[p].text = Stretch(a, b)
        BY <4>1 DEF ItemOK
      <4> QED
        BY <4>1, <4>2, StretchText
    <3> QED
      BY <1>2, <3>1, <3>2 DEF TurnKinds
  <2> QED
    BY <1>1, <1>2, <2>1, AppliedTurn, FinishedReplaced
<1>3. CASE m.kind \in ItemKinds \cup Writings
  <2> DEFINE u == m.turn
             i == m.items[1].id
             item == NewItem(m)
             items == ItemsShown(u)
             found == FindItem(u, i)
  <2>1. Len(m.items) = 1 /\ ItemBegun(i, u) \in L
    BY <1>3 DEF MessageOK
  <2>2. /\ u \in Nat /\ i \in Nat /\ m.items[1].text \in Texts /\ item \in Items /\ item.id = i
        /\ Dropped(m) => Applied(m) = view
        /\ ~Dropped(m) => Applied(m) = Upsert(view, [id |-> u, items |-> Upsert(items, item)])
    BY <1>3, <2>1, AppliedItem
  <2>3. items \in Seq(Items) /\ FinishedOK(items, u, L)
    <3>1. /\ items \in Seq(Items)
          /\ items # <<>> => \E k \in DOMAIN view : view[k].id = u /\ items = view[k].items
      BY ItemsShownAre
    <3>2. FinishedOK(<<>>, u, L)
      BY DEF FinishedOK
    <3> HIDE DEF items
    <3> QED
      BY <1>1, <3>1, <3>2 DEF AllFinishedOK
  <2>4. ASSUME Over(item.text) PROVE ItemOK(item, u, L) /\ ItemDone(item.id, u) \in L
    <3>1. CASE m.kind = "item/started"
      BY <2>4, <3>1 DEF MessageOK, NewItem, Over
    <3>2. CASE m.kind = "item/completed"
      <4>1. PICK b \in Nat : Count(L, i, b) /\ m.items[1].text = Full(b)
        BY <3>2 DEF MessageOK
      <4>2. item.text = Full(b)
        BY <3>2, <4>1 DEF NewItem
      <4>3. ItemDone(i, u) \in L
        BY <3>2 DEF Event, MessageOK
      <4> HIDE DEF u, i, item
      <4> QED
        BY <2>1, <2>2, <4>1, <4>2, <4>3 DEF ItemOK
    <3>3. CASE m.kind = "delta"
      <4>1. PICK b \in Nat \ {0} : m.items[1].text = Stretch(b, b)
        BY <3>3 DEF MessageOK, Writings
      <4>2. (IF found = <<>> THEN <<>> ELSE found[1].text) \in Texts
        <5>1. found \in Seq(Items)
          BY FindItemFinds
        <5> HIDE DEF found
        <5>2. found # <<>> => found[1] \in Items
          BY <5>1
        <5> QED
          BY <5>2 DEF Items, Texts
      <4>3. item.text = (IF found = <<>> THEN <<>> ELSE found[1].text) \o Stretch(b, b)
        BY <3>3, <4>1 DEF NewItem
      <4> HIDE DEF found
      <4>4. ~Over(item.text)
        BY <4>2, <4>3, StretchLast
      <4> QED
        BY <2>4, <4>4
    <3>4. CASE m.kind = "patch"
      <4>1. PICK b \in Nat \ {0} : m.items[1].text = Stretch(1, b)
        BY <3>4 DEF MessageOK, Writings
      <4>2. item.text = Stretch(1, b)
        BY <3>4, <4>1 DEF NewItem
      <4> QED
        BY <2>4, <4>2, StretchText
    <3> QED
      BY <1>3, <3>1, <3>2, <3>3, <3>4 DEF ItemKinds, Writings
  <2> HIDE DEF u, i, item, items
  <2>5. FinishedOK(Upsert(items, item), u, L) /\ Upsert(items, item) \in Seq(Items)
    BY <2>2, <2>3, <2>4, FinishedMerged, UpsertMembers
  <2>6. AllFinishedOK(Upsert(view, [id |-> u, items |-> Upsert(items, item)]), L)
    BY <1>1, <2>2, <2>5, FinishedReplaced
  <2> QED
    BY <1>1, <2>2, <2>6
<1> QED
  BY <1>2, <1>3 DEF Notes

-----------------------------------------------------------------------------
(* The notifications under way.                                             *)

\* What the messages of q after the i-th tell, and what is known before them.
UnderWay(q, i) == {Event(q[j]) : j \in {k \in DOMAIN q : k > i}}
Known(H, q, i) == H \ UnderWay(q, i)

\* The answer of thread/resume.
IsAnswer(m) == m.kind = "resumed"

\* Each message is right when it is sent, and they are sent in order.
QueueOK(q, H, whole) ==
    /\ Causal(H)
    /\ \A i \in 0..Len(q) : Causal(Known(H, q, i)) /\ Before(Known(H, q, i), H)
    /\ \A j \in DOMAIN q : MessageOK(q[j], Known(H, q, j), whole)
    /\ \A j, k \in DOMAIN q : IsAnswer(q[j]) /\ IsAnswer(q[k]) => j = k

\* What came before is before all that follows.
LEMMA BeforeBefore ==
    ASSUME NEW K, NEW L, NEW H, Before(K, L), Before(L, H)
    PROVE  Before(K, H)
BY DEF Before

\* What has happened is before itself.
LEMMA BeforeSelf ==
    ASSUME NEW H
    PROVE  Before(H, H)
BY DEF Before

\* When all is handled all is known.
LEMMA KnownAll ==
    ASSUME NEW S, NEW q \in Seq(S), NEW H
    PROVE  Known(H, q, Len(q)) = H
<1>1. {k \in DOMAIN q : k > Len(q)} = {}
  OBVIOUS
<1> QED
  BY <1>1 DEF Known, UnderWay

\* r, with one message more than q, leaves what was known before it.
KnownKept(H, q, G, r) ==
    /\ \A i \in 0..Len(q) : Known(G, r, i) = Known(H, q, i)
    /\ Known(G, r, Len(q) + 1) = G

\* An event and its message change nothing of what was known before.
LEMMA KnownAppend ==
    ASSUME NEW S, NEW q \in Seq(S), NEW m \in S, NEW H, NEW G, Event(m) \notin H,
           G = H \cup {Event(m)} \/ G = H
    PROVE  KnownKept(H, q, G, Append(q, m))
<1> DEFINE r == Append(q, m)
<1>1. /\ r \in Seq(S) /\ DOMAIN r = 1..(Len(q) + 1) /\ DOMAIN q = 1..Len(q) /\ Len(q) \in Nat
      /\ r[Len(q) + 1] = m /\ \A k \in 1..Len(q) : r[k] = q[k]
      /\ Len(r) = Len(q) + 1
  OBVIOUS
<1> HIDE DEF r
<1>2. ASSUME NEW i \in 0..Len(q) PROVE UnderWay(r, i) = UnderWay(q, i) \cup {Event(m)}
  <2>1. ASSUME NEW x \in UnderWay(r, i) PROVE x \in UnderWay(q, i) \cup {Event(m)}
    <3>1. PICK k \in DOMAIN r : k > i /\ x = Event(r[k])
      BY <2>1 DEF UnderWay
    <3>2. k = Len(q) + 1 \/ (k \in DOMAIN q /\ r[k] = q[k])
      BY <1>1
    <3> QED
      BY <1>1, <3>1, <3>2 DEF UnderWay
  <2>2. ASSUME NEW x \in UnderWay(q, i) PROVE x \in UnderWay(r, i)
    <3>1. PICK k \in DOMAIN q : k > i /\ x = Event(q[k])
      BY <2>2 DEF UnderWay
    <3>2. k \in DOMAIN r /\ r[k] = q[k]
      BY <1>1
    <3> QED
      BY <3>1, <3>2 DEF UnderWay
  <2>3. Event(m) \in UnderWay(r, i)
    <3>1. Len(q) + 1 \in DOMAIN r /\ Len(q) + 1 > i
      BY <1>1
    <3> QED
      BY <1>1, <3>1 DEF UnderWay
  <2> QED
    BY <2>1, <2>2, <2>3
<1>3. ASSUME NEW i \in 0..Len(q) PROVE Known(G, r, i) = Known(H, q, i)
  BY <1>2 DEF Known
<1>4. Known(G, r, Len(q) + 1) = G
  BY <1>1, KnownAll
<1>5. KnownKept(H, q, G, r)
  BY <1>3, <1>4 DEF KnownKept
<1> QED
  BY <1>5 DEF r

\* Handling the first message makes its event known.
LEMMA KnownTail ==
    ASSUME NEW S, NEW q \in Seq(S), q # <<>>, NEW H
    PROVE  /\ \A i \in 0..(Len(q) - 1) : Known(H, Tail(q), i) = Known(H, q, i + 1)
           /\ Known(H, q, 0) = Known(H, q, 1) \ {Event(q[1])}
<1> DEFINE r == Tail(q)
<1>1. /\ r \in Seq(S) /\ Len(r) = Len(q) - 1 /\ DOMAIN r = 1..(Len(q) - 1) /\ DOMAIN q = 1..Len(q)
      /\ Len(q) \in Nat /\ Len(q) > 0 /\ \A k \in 1..(Len(q) - 1) : r[k] = q[k + 1]
  OBVIOUS
<1> HIDE DEF r
<1>2. ASSUME NEW i \in 0..(Len(q) - 1) PROVE UnderWay(r, i) = UnderWay(q, i + 1)
  <2>1. ASSUME NEW x \in UnderWay(r, i) PROVE x \in UnderWay(q, i + 1)
    <3>1. PICK k \in DOMAIN r : k > i /\ x = Event(r[k])
      BY <2>1 DEF UnderWay
    <3>2. k + 1 \in DOMAIN q /\ k + 1 > i + 1 /\ r[k] = q[k + 1]
      BY <1>1, <3>1
    <3> QED
      BY <3>1, <3>2 DEF UnderWay
  <2>2. ASSUME NEW x \in UnderWay(q, i + 1) PROVE x \in UnderWay(r, i)
    <3>1. PICK k \in DOMAIN q : k > i + 1 /\ x = Event(q[k])
      BY <2>2 DEF UnderWay
    <3>2. k - 1 \in DOMAIN r /\ k - 1 > i /\ r[k - 1] = q[k]
      BY <1>1, <3>1
    <3> QED
      BY <3>1, <3>2 DEF UnderWay
  <2> QED
    BY <2>1, <2>2
<1>3. UnderWay(q, 0) = UnderWay(q, 1) \cup {Event(q[1])}
  <2>1. \A k \in DOMAIN q : k > 0 <=> k > 1 \/ k = 1
    BY <1>1
  <2>2. 1 \in DOMAIN q
    BY <1>1
  <2> QED
    BY <2>1, <2>2 DEF UnderWay
<1>4. \A i \in 0..(Len(q) - 1) : Known(H, r, i) = Known(H, q, i + 1)
  BY <1>2 DEF Known
<1> QED
  BY <1>3, <1>4 DEF Known, r

\* h picks the members of q that are in T, in order, and r has them.
Selects(h, r, q, T) ==
    /\ h \in [DOMAIN r -> DOMAIN q]
    /\ \A k \in DOMAIN r : r[k] = q[h[k]]
    /\ \A k, l \in DOMAIN r : k < l => h[k] < h[l]
    /\ \A i \in DOMAIN q : q[i] \in T => \E k \in DOMAIN r : h[k] = i

\* Keep selects the members of a sequence that are in T.
LEMMA KeepSelects ==
    ASSUME NEW S, NEW q \in Seq(S), NEW T
    PROVE  \E h : Selects(h, Keep(q, T), q, T)
<1>1. PICK h \in [DOMAIN Keep(q, T) -> DOMAIN q] :
         /\ \A k \in DOMAIN Keep(q, T) : Keep(q, T)[k] = q[h[k]]
         /\ \A k, l \in DOMAIN Keep(q, T) : k < l => h[k] < h[l]
         /\ \A i \in DOMAIN q : q[i] \in T => \E k \in DOMAIN Keep(q, T) : h[k] = i
  BY KeepInOrder
<1>2. Selects(h, Keep(q, T), q, T)
  BY <1>1 DEF Selects
<1> QED
  BY <1>2

\* The same is known before each message of r as of the one of q it is.
SameKnown(H, h, r, q) ==
    /\ Known(H, r, 0) = Known(H, q, 0)
    /\ \A i \in DOMAIN r : Known(H, r, i) = Known(H, q, h[i])
OnlyAnswersOut(q, T) == \A j \in DOMAIN q : q[j] \notin T => Event(q[j]) = Nothing

\* Answers are no events.
LEMMA KnownKeep ==
    ASSUME NEW q, NEW r, NEW h, NEW T, NEW H, Nothing \notin H,
           DOMAIN q \subseteq Nat \ {0}, DOMAIN r \subseteq Nat \ {0},
           OnlyAnswersOut(q, T), Selects(h, r, q, T)
    PROVE  SameKnown(H, h, r, q)
<1>1. DOMAIN r \subseteq Nat \ {0} /\ DOMAIN q \subseteq Nat \ {0}
  OBVIOUS
<1> USE DEF Selects, OnlyAnswersOut
<1>2. UnderWay(r, 0) \subseteq UnderWay(q, 0)
  <2> SUFFICES ASSUME NEW x \in UnderWay(r, 0) PROVE x \in UnderWay(q, 0)
    OBVIOUS
  <2>1. PICK k \in DOMAIN r : x = Event(r[k])
    BY DEF UnderWay
  <2>2. h[k] \in DOMAIN q /\ h[k] > 0 /\ r[k] = q[h[k]]
    BY <1>1
  <2> QED
    BY <2>1, <2>2 DEF UnderWay
<1>3. UnderWay(q, 0) \subseteq UnderWay(r, 0) \cup {Nothing}
  <2> SUFFICES ASSUME NEW x \in UnderWay(q, 0), x # Nothing PROVE x \in UnderWay(r, 0)
    OBVIOUS
  <2>1. PICK j \in DOMAIN q : x = Event(q[j])
    BY DEF UnderWay
  <2>2. PICK k \in DOMAIN r : h[k] = j
    BY <2>1
  <2>3. k > 0 /\ r[k] = q[j]
    BY <1>1, <2>2
  <2> QED
    BY <2>1, <2>3 DEF UnderWay
<1>4. ASSUME NEW i \in DOMAIN r PROVE UnderWay(r, i) \subseteq UnderWay(q, h[i])
  <2> SUFFICES ASSUME NEW x \in UnderWay(r, i) PROVE x \in UnderWay(q, h[i])
    OBVIOUS
  <2>1. PICK k \in DOMAIN r : k > i /\ x = Event(r[k])
    BY DEF UnderWay
  <2>2. h[k] \in DOMAIN q /\ h[k] > h[i] /\ r[k] = q[h[k]]
    BY <1>1, <2>1
  <2> QED
    BY <2>1, <2>2 DEF UnderWay
<1>5. ASSUME NEW i \in DOMAIN r PROVE UnderWay(q, h[i]) \subseteq UnderWay(r, i) \cup {Nothing}
  <2> SUFFICES ASSUME NEW x \in UnderWay(q, h[i]), x # Nothing PROVE x \in UnderWay(r, i)
    OBVIOUS
  <2>1. PICK j \in DOMAIN q : j > h[i] /\ x = Event(q[j])
    BY DEF UnderWay
  <2>2. PICK k \in DOMAIN r : h[k] = j
    BY <2>1
  <2>3. k > i
    <3>1. h[i] \in Nat /\ j \in Nat /\ k \in Nat /\ i \in Nat
      BY <1>1
    <3>2. k # i /\ ~(k < i)
      BY <2>1, <2>2, <3>1
    <3> QED
      BY <3>1, <3>2
  <2>4. r[k] = q[j]
    BY <2>2
  <2> QED
    BY <2>1, <2>3, <2>4 DEF UnderWay
<1> QED
  BY <1>2, <1>3, <1>4, <1>5 DEF Known, SameKnown

\* With nothing under way the queue is right.
LEMMA QueueEmpty ==
    ASSUME NEW H, Causal(H), NEW whole
    PROVE  QueueOK(<<>>, H, whole)
<1>1. Known(H, <<>>, 0) = H
  BY DEF Known, UnderWay
<1>2. Len(<<>>) = 0 /\ 0..0 = {0} /\ DOMAIN <<>> = {}
  OBVIOUS
<1> QED
  BY <1>1, <1>2, BeforeSelf DEF QueueOK

\* The queue is right after a message about what has just happened, or an answer.
LEMMA QueueAppend ==
    ASSUME NEW S, NEW q \in Seq(S), NEW m \in S, NEW H, NEW G, NEW whole, Event(m) \notin H,
           G = H \cup {Event(m)} \/ G = H, Causal(G), Before(H, G),
           QueueOK(q, H, whole), MessageOK(m, G, whole),
           IsAnswer(m) => \A j \in DOMAIN q : ~IsAnswer(q[j])
    PROVE  QueueOK(Append(q, m), G, whole)
<1> DEFINE r == Append(q, m)
<1>1. /\ r \in Seq(S) /\ DOMAIN r = 1..(Len(q) + 1) /\ DOMAIN q = 1..Len(q) /\ Len(q) \in Nat
      /\ r[Len(q) + 1] = m /\ \A k \in DOMAIN q : r[k] = q[k]
      /\ Len(r) = Len(q) + 1
  OBVIOUS
<1>2. /\ \A i \in 0..Len(q) : Known(G, r, i) = Known(H, q, i)
      /\ Known(G, r, Len(q) + 1) = G
  BY KnownAppend DEF KnownKept
<1> HIDE DEF r
<1>3. ASSUME NEW i \in 0..Len(r) PROVE Causal(Known(G, r, i)) /\ Before(Known(G, r, i), G)
  <2>1. CASE i = Len(q) + 1
    BY <1>2, <2>1, BeforeSelf
  <2>2. CASE i \in 0..Len(q)
    BY <1>2, <2>2, BeforeBefore DEF QueueOK
  <2> QED
    BY <1>1, <2>1, <2>2
<1>4. ASSUME NEW j \in DOMAIN r PROVE MessageOK(r[j], Known(G, r, j), whole)
  <2>1. CASE j = Len(q) + 1
    BY <1>1, <1>2, <2>1
  <2>2. CASE j \in DOMAIN q
    <3>1. j \in 0..Len(q)
      BY <1>1, <2>2
    <3> QED
      BY <1>1, <1>2, <2>2, <3>1 DEF QueueOK
  <2> QED
    BY <1>1, <2>1, <2>2
<1>5. ASSUME NEW j \in DOMAIN r, NEW k \in DOMAIN r, IsAnswer(r[j]), IsAnswer(r[k]) PROVE j = k
  <2>1. j = Len(q) + 1 \/ j \in DOMAIN q
    BY <1>1
  <2>2. k = Len(q) + 1 \/ k \in DOMAIN q
    BY <1>1
  <2> QED
    BY <1>1, <1>5, <2>1, <2>2 DEF QueueOK
<1>6. QueueOK(r, G, whole)
  BY <1>3, <1>4, <1>5 DEF QueueOK
<1> QED
  BY <1>6 DEF r

\* The queue is right without its first message.
LEMMA QueueTail ==
    ASSUME NEW S, NEW q \in Seq(S), q # <<>>, NEW H, NEW whole, QueueOK(q, H, whole)
    PROVE  QueueOK(Tail(q), H, whole)
<1> DEFINE r == Tail(q)
<1>1. /\ r \in Seq(S) /\ Len(r) = Len(q) - 1 /\ DOMAIN r = 1..(Len(q) - 1) /\ DOMAIN q = 1..Len(q)
      /\ Len(q) \in Nat /\ Len(q) > 0 /\ \A k \in 1..(Len(q) - 1) : r[k] = q[k + 1]
  OBVIOUS
<1>2. \A i \in 0..(Len(q) - 1) : Known(H, r, i) = Known(H, q, i + 1)
  BY KnownTail
<1> HIDE DEF r
<1>3. ASSUME NEW i \in 0..Len(r) PROVE Causal(Known(H, r, i)) /\ Before(Known(H, r, i), H)
  <2>1. i \in 0..(Len(q) - 1) /\ i + 1 \in 0..Len(q)
    BY <1>1
  <2> QED
    BY <1>2, <2>1 DEF QueueOK
<1>4. ASSUME NEW j \in DOMAIN r PROVE MessageOK(r[j], Known(H, r, j), whole)
  <2>1. j \in 0..(Len(q) - 1) /\ j + 1 \in DOMAIN q /\ r[j] = q[j + 1]
    BY <1>1
  <2> QED
    BY <1>2, <2>1 DEF QueueOK
<1>5. ASSUME NEW j \in DOMAIN r, NEW k \in DOMAIN r, IsAnswer(r[j]), IsAnswer(r[k]) PROVE j = k
  <2>1. j + 1 \in DOMAIN q /\ r[j] = q[j + 1] /\ k + 1 \in DOMAIN q /\ r[k] = q[k + 1] /\ j \in Nat /\ k \in Nat
    BY <1>1
  <2>2. j + 1 = k + 1
    BY <1>5, <2>1 DEF QueueOK
  <2> QED
    BY <2>1, <2>2
<1>6. QueueOK(r, H, whole)
  BY <1>3, <1>4, <1>5 DEF QueueOK
<1> QED
  BY <1>6 DEF r

\* The queue is right without its answer, and the same is known.
LEMMA QueueKeep ==
    ASSUME NEW S, NEW q \in Seq(S), NEW H, NEW whole, Nothing \notin H, QueueOK(q, H, whole),
           NEW r, r = Keep(q, {m \in Range(q) : m.kind # "resumed"})
    PROVE  /\ QueueOK(r, H, whole) /\ r \in Seq(S)
           /\ Known(H, r, 0) = Known(H, q, 0)
           /\ \A k \in DOMAIN r : ~IsAnswer(r[k])
           /\ r # <<>> => q # <<>>
<1> DEFINE T == {m \in Range(q) : m.kind # "resumed"}
<1>1. \A j \in DOMAIN q : q[j] \in T <=> ~IsAnswer(q[j])
  BY DEF Range, IsAnswer
<1>2. r = Keep(q, T)
  OBVIOUS
<1> HIDE DEF T
<1>3. r \in Seq(S \cap T)
  BY <1>2, KeepMembers
<1>4. PICK h : Selects(h, r, q, T)
  <2>1. \E h : Selects(h, Keep(q, T), q, T)
    BY KeepSelects
  <2> QED
    BY <1>2, <2>1
<1>5. r \in Seq(S)
  BY <1>3
<1>6. \A k \in DOMAIN r : ~IsAnswer(r[k])
  <2>1. \A k \in DOMAIN r : r[k] \in T
    BY <1>3
  <2> QED
    BY <1>1, <1>4, <2>1 DEF Selects
<1>7. \A j \in DOMAIN q : IsAnswer(q[j]) => Event(q[j]) = Nothing
  BY DEF IsAnswer, Event, Writings
<1>8. /\ Known(H, r, 0) = Known(H, q, 0)
      /\ \A i \in DOMAIN r : Known(H, r, i) = Known(H, q, h[i])
  <2>1. OnlyAnswersOut(q, T)
    BY <1>1, <1>7 DEF OnlyAnswersOut
  <2>2. DOMAIN q \subseteq Nat \ {0} /\ DOMAIN r \subseteq Nat \ {0}
    BY <1>5
  <2>3. SameKnown(H, h, r, q)
    BY <1>4, <2>1, <2>2, KnownKeep
  <2> QED
    BY <2>3 DEF SameKnown
<1>9. DOMAIN q = 1..Len(q) /\ Len(q) \in Nat /\ DOMAIN r = 1..Len(r) /\ Len(r) \in Nat
  BY <1>5
<1>10. ASSUME NEW i \in 0..Len(r) PROVE Causal(Known(H, r, i)) /\ Before(Known(H, r, i), H)
  <2>1. CASE i = 0
    <3>1. 0 \in 0..Len(q)
      BY <1>9
    <3> QED
      BY <1>8, <2>1, <3>1 DEF QueueOK
  <2>2. CASE i \in DOMAIN r
    <3>1. h[i] \in DOMAIN q
      BY <1>4, <2>2 DEF Selects
    <3>2. h[i] \in 0..Len(q)
      BY <1>9, <3>1
    <3> QED
      BY <1>8, <2>2, <3>2 DEF QueueOK
  <2> QED
    BY <1>9, <2>1, <2>2
<1>11. ASSUME NEW j \in DOMAIN r PROVE MessageOK(r[j], Known(H, r, j), whole)
  <2>1. h[j] \in DOMAIN q /\ r[j] = q[h[j]] /\ Known(H, r, j) = Known(H, q, h[j])
    BY <1>4, <1>8 DEF Selects
  <2> QED
    BY <2>1 DEF QueueOK
<1>12. QueueOK(r, H, whole)
  BY <1>6, <1>10, <1>11 DEF QueueOK
<1>13. r # <<>> => q # <<>>
  <2>1. r # <<>> => 1 \in DOMAIN r
    BY <1>5
  <2> QED
    BY <1>4, <2>1 DEF Selects
<1> QED
  BY <1>5, <1>6, <1>8, <1>12, <1>13

-----------------------------------------------------------------------------
(* The server.                                                              *)

\* The log of a server whose latest turn is t.
Entries(t) == [turn : 1..t, len : Nat, done : BOOLEAN]
Logs(t) == Seq(Entries(t))

\* The events that the turns and the log tell of.
TurnsBegun(t) == {TurnBegun(u) : u \in 1..t}
TurnsOver(t, lv) == {TurnOver(u) : u \in {w \in 1..t : w < t \/ ~lv}}
ItemsBegun(L) == {ItemBegun(x, L[x].turn) : x \in DOMAIN L}
ItemsWritten(L) == UNION {{Wrote(x, n) : n \in 1..L[x].len} : x \in DOMAIN L}
ItemsDone(L) == {ItemDone(x, L[x].turn) : x \in {y \in DOMAIN L : L[y].done}}

\* What has happened when the log is L and the t-th turn the latest.
HappenedIn(L, t, lv) ==
    TurnsBegun(t) \cup TurnsOver(t, lv) \cup ItemsBegun(L) \cup ItemsWritten(L) \cup ItemsDone(L)
Happened == HappenedIn(log, turn, live)

\* H is what has happened.
Has(H, L, t, lv) ==
    /\ \A u : TurnBegun(u) \in H <=> u \in 1..t
    /\ \A u : TurnOver(u) \in H <=> u \in 1..t /\ (u < t \/ ~lv)
    /\ \A x, u : ItemBegun(x, u) \in H <=> x \in DOMAIN L /\ u = L[x].turn
    /\ \A x, n : Wrote(x, n) \in H <=> x \in DOMAIN L /\ n \in 1..L[x].len
    /\ \A x, u : ItemDone(x, u) \in H <=> x \in DOMAIN L /\ L[x].done /\ u = L[x].turn

\* z is of one of the five kinds of events.
IsEvent(z) ==
    \/ \E u : z = TurnBegun(u) \/ z = TurnOver(u)
    \/ \E x, u : z = ItemBegun(x, u) \/ z = ItemDone(x, u) \/ z = Wrote(x, u)

\* HappenedIn has the events of the log and the turns, and no others.
LEMMA HappenedHas ==
    ASSUME NEW L, NEW t, NEW lv
    PROVE  /\ Has(HappenedIn(L, t, lv), L, t, lv)
           /\ \A z \in HappenedIn(L, t, lv) : IsEvent(z)
           /\ Nothing \notin HappenedIn(L, t, lv)
<1> DEFINE A == TurnsBegun(t)
           B == TurnsOver(t, lv)
           C == ItemsBegun(L)
           D == ItemsWritten(L)
           E == ItemsDone(L)
           H == HappenedIn(L, t, lv)
<1>a. \A z : z \in A <=> \E u \in 1..t : z = TurnBegun(u)
  BY DEF TurnsBegun
<1>b. \A z : z \in B <=> \E u \in 1..t : (u < t \/ ~lv) /\ z = TurnOver(u)
  BY DEF TurnsOver
<1>c. \A z : z \in C <=> \E x \in DOMAIN L : z = ItemBegun(x, L[x].turn)
  BY DEF ItemsBegun
<1>d. \A z : z \in D <=> \E x \in DOMAIN L : \E n \in 1..L[x].len : z = Wrote(x, n)
  BY DEF ItemsWritten
<1>e. \A z : z \in E <=> \E x \in DOMAIN L : L[x].done /\ z = ItemDone(x, L[x].turn)
  BY DEF ItemsDone
<1>f. H = A \cup B \cup C \cup D \cup E
  BY DEF HappenedIn
<1> HIDE DEF A, B, C, D, E, H
<1>1. \A u : TurnBegun(u) \in H <=> u \in 1..t
  BY <1>a, <1>b, <1>c, <1>d, <1>e, <1>f, EventsSame, EventsDiffer
<1>2. \A u : TurnOver(u) \in H <=> u \in 1..t /\ (u < t \/ ~lv)
  BY <1>a, <1>b, <1>c, <1>d, <1>e, <1>f, EventsSame, EventsDiffer
<1>3. \A x, u : ItemBegun(x, u) \in H <=> x \in DOMAIN L /\ u = L[x].turn
  BY <1>a, <1>b, <1>c, <1>d, <1>e, <1>f, EventsSame, EventsDiffer
<1>4. \A x, n : Wrote(x, n) \in H <=> x \in DOMAIN L /\ n \in 1..L[x].len
  BY <1>a, <1>b, <1>c, <1>d, <1>e, <1>f, EventsSame, EventsDiffer
<1>5. \A x, u : ItemDone(x, u) \in H <=> x \in DOMAIN L /\ L[x].done /\ u = L[x].turn
  BY <1>a, <1>b, <1>c, <1>d, <1>e, <1>f, EventsSame, EventsDiffer
<1>7. \A z \in H : IsEvent(z)
  BY <1>a, <1>b, <1>c, <1>d, <1>e, <1>f DEF IsEvent
<1>8. Nothing \notin H
  BY <1>a, <1>b, <1>c, <1>d, <1>e, <1>f, EventsDiffer
<1>6. Has(H, L, t, lv)
  BY <1>1, <1>2, <1>3, <1>4, <1>5 DEF Has
<1> QED
  BY <1>6, <1>7, <1>8 DEF H

\* What happens does so in the order of causes.
LEMMA HappenedCausal ==
    ASSUME NEW t \in Nat, NEW L \in Logs(t), NEW lv
    PROVE  Causal(HappenedIn(L, t, lv))
<1> DEFINE H == HappenedIn(L, t, lv)
<1>1. Has(H, L, t, lv)
  BY HappenedHas
<1>2. \A x \in DOMAIN L : L[x].turn \in 1..t
  <2> SUFFICES ASSUME NEW x \in DOMAIN L PROVE L[x].turn \in 1..t
    OBVIOUS
  <2>1. L[x] \in Entries(t)
    BY DEF Logs
  <2> QED
    BY <2>1 DEF Entries
<1> HIDE DEF H
<1>3. Causal(H)
  BY <1>1, <1>2 DEF Causal, Has
<1> QED
  BY <1>3 DEF H

\* G is H and the event e, which no completed item of H undergoes.
StepBy(H, G, e) ==
    /\ e \notin H /\ G = H \cup {e}
    /\ Before(H, G) /\ Causal(G)

\* Two sets of events that differ in e only.
LEMMA OneMore ==
    ASSUME NEW H, NEW G, NEW e, \A z \in H \cup G : IsEvent(z), e \in G,
           \A u : TurnBegun(u) \in G <=> TurnBegun(u) \in H \/ TurnBegun(u) = e,
           \A u : TurnOver(u) \in G <=> TurnOver(u) \in H \/ TurnOver(u) = e,
           \A x, u : ItemBegun(x, u) \in G <=> ItemBegun(x, u) \in H \/ ItemBegun(x, u) = e,
           \A x, n : Wrote(x, n) \in G <=> Wrote(x, n) \in H \/ Wrote(x, n) = e,
           \A x, u : ItemDone(x, u) \in G <=> ItemDone(x, u) \in H \/ ItemDone(x, u) = e
    PROVE  G = H \cup {e}
<1>1. ASSUME NEW z \in H \cup G PROVE z \in G <=> z \in H \cup {e}
  <2>1. IsEvent(z)
    OBVIOUS
  <2> QED
    BY <2>1 DEF IsEvent
<1> QED
  BY <1>1

\* One more event that no completed item undergoes is a step.
LEMMA HappenedStep ==
    ASSUME NEW t \in Nat, NEW L \in Logs(t), NEW lv, NEW s \in Nat, NEW M \in Logs(s), NEW lw, NEW e,
           e \notin HappenedIn(L, t, lv), HappenedIn(M, s, lw) = HappenedIn(L, t, lv) \cup {e},
           \A x \in DOMAIN L : \A n : L[x].done => e # Wrote(x, n)
    PROVE  StepBy(HappenedIn(L, t, lv), HappenedIn(M, s, lw), e)
<1>1. Causal(HappenedIn(M, s, lw))
  BY HappenedCausal
<1>2. Before(HappenedIn(L, t, lv), HappenedIn(M, s, lw))
  <2> SUFFICES ASSUME NEW x \in Nat, NEW u \in Nat, NEW n \in Nat,
                      ItemDone(x, u) \in HappenedIn(L, t, lv), e = Wrote(x, n)
               PROVE  FALSE
    BY DEF Before
  <2>1. Has(HappenedIn(L, t, lv), L, t, lv)
    BY HappenedHas
  <2>2. x \in DOMAIN L /\ L[x].done
    BY <2>1 DEF Has
  <2> QED
    BY <2>2
<1> QED
  BY <1>1, <1>2 DEF StepBy

\* The types the proofs use; TypeOK has the bounds as well.
Typed ==
    /\ turn \in Nat /\ live \in BOOLEAN /\ (live => turn > 0)
    /\ log \in Logs(turn)
    /\ inbox \in Seq(Notes \cup Answers)
    /\ read \in Seq(Turns) /\ view \in Seq(Turns)
    /\ opening \in {"no", "read", "resume", "served"}
    /\ subscribed \in BOOLEAN /\ connected \in BOOLEAN
    /\ shown \in BOOLEAN /\ synced \in BOOLEAN /\ gap \in BOOLEAN
    /\ dialect \in [turnItems : BOOLEAN, partial : BOOLEAN, resumeTurns : BOOLEAN]

\* TurnStarts brings about the beginning of the next turn, and nothing else.
LEMMA TurnStartsHappens ==
    ASSUME Typed, TurnStarts
    PROVE  /\ turn' \in Nat /\ log' \in Logs(turn') /\ live' \in BOOLEAN /\ (live' => turn' > 0)
           /\ StepBy(Happened, Happened', TurnBegun(turn + 1))
<1>1. turn' = turn + 1 /\ live' = TRUE /\ log' = log /\ ~live /\ turn \in Nat
  BY DEF TurnStarts, Typed
<1>2. log \in Logs(turn) /\ log' \in Logs(turn')
  <2>1. Entries(turn) \subseteq Entries(turn')
    BY <1>1 DEF Entries
  <2> QED
    BY <1>1, <2>1 DEF Typed, Logs
<1> DEFINE H == HappenedIn(log, turn, live)
           G == HappenedIn(log', turn', live')
           e == TurnBegun(turn + 1)
<1>3. Has(H, log, turn, live) /\ Has(G, log', turn', live') /\ \A z \in H \cup G : IsEvent(z)
  BY HappenedHas
<1>4. e \in G /\ e \notin H
  <2> HIDE DEF H, G
  <2> QED
    BY <1>1, <1>3 DEF Has
<1>5. G = H \cup {e}
  <2> HIDE DEF H, G
  <2>1. \A u : TurnBegun(u) \in G <=> TurnBegun(u) \in H \/ TurnBegun(u) = e
    BY <1>1, <1>3, EventsSame DEF Has
  <2>2. \A u : TurnOver(u) \in G <=> TurnOver(u) \in H \/ TurnOver(u) = e
    BY <1>1, <1>3, EventsDiffer DEF Has
  <2>3. \A x, u : ItemBegun(x, u) \in G <=> ItemBegun(x, u) \in H \/ ItemBegun(x, u) = e
    BY <1>1, <1>3, EventsDiffer DEF Has
  <2>4. \A x, n : Wrote(x, n) \in G <=> Wrote(x, n) \in H \/ Wrote(x, n) = e
    BY <1>1, <1>3, EventsDiffer DEF Has
  <2>5. \A x, u : ItemDone(x, u) \in G <=> ItemDone(x, u) \in H \/ ItemDone(x, u) = e
    BY <1>1, <1>3, EventsDiffer DEF Has
  <2> HIDE DEF e
  <2> QED
    BY <1>3, <1>4, <2>1, <2>2, <2>3, <2>4, <2>5, OneMore
<1>6. \A x \in DOMAIN log : \A n : log[x].done => e # Wrote(x, n)
  BY EventsDiffer
<1>7. StepBy(H, G, e)
  <2>1. turn \in Nat /\ turn' \in Nat /\ log \in Logs(turn) /\ log' \in Logs(turn')
    BY <1>1, <1>2
  <2>2. e \notin H /\ G = H \cup {e}
    BY <1>4, <1>5
  <2> HIDE DEF e
  <2> QED
    BY <1>6, <2>1, <2>2, HappenedStep
<1>8. turn' \in Nat /\ live' \in BOOLEAN /\ (live' => turn' > 0)
  BY <1>1
<1> HIDE DEF e
<1> QED
  BY <1>2, <1>7, <1>8 DEF Happened, e

\* TurnEnds brings about the end of the turn, and nothing else.
LEMMA TurnEndsHappens ==
    ASSUME Typed, TurnEnds
    PROVE  /\ turn' \in Nat /\ log' \in Logs(turn') /\ live' \in BOOLEAN /\ (live' => turn' > 0)
           /\ StepBy(Happened, Happened', TurnOver(turn))
<1>1. turn' = turn /\ live' = FALSE /\ log' = log /\ live /\ turn \in Nat /\ turn > 0
  BY DEF TurnEnds, Typed
<1>2. log \in Logs(turn) /\ log' \in Logs(turn')
  BY <1>1 DEF Typed
<1> DEFINE H == HappenedIn(log, turn, live)
           G == HappenedIn(log', turn', live')
           e == TurnOver(turn)
<1>3. Has(H, log, turn, live) /\ Has(G, log', turn', live') /\ \A z \in H \cup G : IsEvent(z)
  BY HappenedHas
<1>4. e \in G /\ e \notin H
  <2> HIDE DEF H, G
  <2> QED
    BY <1>1, <1>3 DEF Has
<1>5. G = H \cup {e}
  <2> HIDE DEF H, G
  <2>1. \A u : TurnBegun(u) \in G <=> TurnBegun(u) \in H \/ TurnBegun(u) = e
    BY <1>1, <1>3, EventsDiffer DEF Has
  <2>2. \A u : TurnOver(u) \in G <=> TurnOver(u) \in H \/ TurnOver(u) = e
    BY <1>1, <1>3, EventsSame DEF Has
  <2>3. \A x, u : ItemBegun(x, u) \in G <=> ItemBegun(x, u) \in H \/ ItemBegun(x, u) = e
    BY <1>1, <1>3, EventsDiffer DEF Has
  <2>4. \A x, n : Wrote(x, n) \in G <=> Wrote(x, n) \in H \/ Wrote(x, n) = e
    BY <1>1, <1>3, EventsDiffer DEF Has
  <2>5. \A x, u : ItemDone(x, u) \in G <=> ItemDone(x, u) \in H \/ ItemDone(x, u) = e
    BY <1>1, <1>3, EventsDiffer DEF Has
  <2> HIDE DEF e
  <2> QED
    BY <1>3, <1>4, <2>1, <2>2, <2>3, <2>4, <2>5, OneMore
<1>6. \A x \in DOMAIN log : \A n : log[x].done => e # Wrote(x, n)
  BY EventsDiffer
<1>7. StepBy(H, G, e)
  <2>1. turn \in Nat /\ turn' \in Nat /\ log \in Logs(turn) /\ log' \in Logs(turn')
    BY <1>1, <1>2
  <2>2. e \notin H /\ G = H \cup {e}
    BY <1>4, <1>5
  <2> HIDE DEF e
  <2> QED
    BY <1>6, <2>1, <2>2, HappenedStep
<1>8. turn' \in Nat /\ live' \in BOOLEAN /\ (live' => turn' > 0)
  BY <1>1
<1> HIDE DEF e
<1> QED
  BY <1>2, <1>7, <1>8 DEF Happened, e

\* ItemStarts brings about the beginning of one more item, and nothing else.
LEMMA ItemStartsHappens ==
    ASSUME Typed, ItemStarts
    PROVE  /\ turn' \in Nat /\ log' \in Logs(turn') /\ live' \in BOOLEAN /\ (live' => turn' > 0)
           /\ StepBy(Happened, Happened', ItemBegun(Len(log) + 1, turn))
<1> DEFINE x0 == [turn |-> turn, len |-> 0, done |-> FALSE]
           n0 == Len(log) + 1
<1>1. turn' = turn /\ live' = live /\ log' = Append(log, x0) /\ live /\ turn \in Nat /\ turn > 0
  BY DEF ItemStarts, Typed
<1>2. x0 \in Entries(turn)
  BY <1>1 DEF Entries
<1>a. x0.turn = turn /\ x0.len = 0 /\ x0.done = FALSE
  OBVIOUS
<1> HIDE DEF x0
<1>b. log \in Logs(turn)
  BY DEF Typed
<1>c. log' \in Logs(turn')
  BY <1>1, <1>2, <1>b DEF Logs
<1>d. /\ DOMAIN log = 1..Len(log) /\ Len(log) \in Nat
      /\ DOMAIN log' = 1..n0 /\ log'[n0] = x0 /\ \A x \in DOMAIN log : log'[x] = log[x]
  BY <1>1, <1>2, <1>b DEF Logs
<1>e. DOMAIN log' = DOMAIN log \cup {n0} /\ n0 \notin DOMAIN log
  BY <1>d
<1> DEFINE H == HappenedIn(log, turn, live)
           G == HappenedIn(log', turn', live')
           e == ItemBegun(n0, turn)
<1>3. Has(H, log, turn, live) /\ Has(G, log', turn', live') /\ \A z \in H \cup G : IsEvent(z)
  BY HappenedHas
<1> HIDE DEF n0
<1>4. e \in G /\ e \notin H
  <2> HIDE DEF H, G
  <2> QED
    BY <1>1, <1>3, <1>a, <1>d, <1>e DEF Has
<1>5. G = H \cup {e}
  <2> HIDE DEF H, G
  <2>1. \A u : TurnBegun(u) \in G <=> TurnBegun(u) \in H \/ TurnBegun(u) = e
    BY <1>1, <1>3, EventsDiffer DEF Has
  <2>2. \A u : TurnOver(u) \in G <=> TurnOver(u) \in H \/ TurnOver(u) = e
    BY <1>1, <1>3, EventsDiffer DEF Has
  <2>3. \A x, u : ItemBegun(x, u) \in G <=> ItemBegun(x, u) \in H \/ ItemBegun(x, u) = e
    BY <1>1, <1>3, <1>a, <1>d, <1>e, EventsSame DEF Has
  <2>4. \A x, n : Wrote(x, n) \in G <=> Wrote(x, n) \in H \/ Wrote(x, n) = e
    <3>1. 1..0 = {}
      OBVIOUS
    <3>2. \A x, n : Wrote(x, n) \in G <=> x \in DOMAIN log /\ n \in 1..log[x].len
      BY <1>3, <1>a, <1>d, <1>e, <3>1 DEF Has
    <3> QED
      BY <1>3, <3>2, EventsDiffer DEF Has
  <2>5. \A x, u : ItemDone(x, u) \in G <=> ItemDone(x, u) \in H \/ ItemDone(x, u) = e
    <3>1. \A x : x \in DOMAIN log' /\ log'[x].done <=> x \in DOMAIN log /\ log[x].done
      BY <1>a, <1>d, <1>e
    <3>2. \A x, u : ItemDone(x, u) \in G <=> x \in DOMAIN log /\ log[x].done /\ u = log[x].turn
      BY <1>3, <1>d, <3>1 DEF Has
    <3> QED
      BY <1>3, <3>2, EventsDiffer DEF Has
  <2> HIDE DEF e
  <2> QED
    BY <1>3, <1>4, <2>1, <2>2, <2>3, <2>4, <2>5, OneMore
<1>6. \A x \in DOMAIN log : \A n : log[x].done => e # Wrote(x, n)
  BY EventsDiffer
<1>7. StepBy(H, G, e)
  <2>1. turn \in Nat /\ turn' \in Nat /\ log \in Logs(turn) /\ log' \in Logs(turn')
    BY <1>1, <1>b, <1>c
  <2>2. e \notin H /\ G = H \cup {e}
    BY <1>4, <1>5
  <2> HIDE DEF e
  <2> QED
    BY <1>6, <2>1, <2>2, HappenedStep
<1>8. turn' \in Nat /\ live' \in BOOLEAN /\ (live' => turn' > 0)
  BY <1>1
<1> HIDE DEF e
<1> QED
  BY <1>c, <1>7, <1>8 DEF Happened, e, n0

\* Replacing a member of a sequence by another of the set.
LEMMA SeqExcept ==
    ASSUME NEW S, NEW s \in Seq(S), NEW i \in DOMAIN s, NEW x \in S
    PROVE  [s EXCEPT ![i] = x] \in Seq(S)
OBVIOUS

\* ItemWrites and ItemPatched bring about the next delta of the item, and nothing else.
LEMMA WritesHappens ==
    ASSUME Typed, NEW i \in DOMAIN log, InProgress(i), turn' = turn, live' = live,
           log' = [log EXCEPT ![i].len = @ + 1]
    PROVE  /\ turn' \in Nat /\ log' \in Logs(turn') /\ live' \in BOOLEAN /\ (live' => turn' > 0)
           /\ StepBy(Happened, Happened', Wrote(i, log[i].len + 1))
           /\ log[i].turn = turn /\ log[i].len \in Nat /\ ~log[i].done /\ i \in Nat
           /\ turn \in Nat
<1>1. turn' = turn /\ live' = live /\ live /\ turn \in Nat /\ turn > 0 /\ ~log[i].done /\ log[i].turn = turn
  BY DEF InProgress, Typed
<1>b. log \in Logs(turn) /\ i \in Nat
  BY DEF Typed, Logs
<1>a. \A x \in DOMAIN log : log[x] \in Entries(turn)
  BY <1>b DEF Logs
<1>2. log[i].len \in Nat /\ [log[i] EXCEPT !.len = @ + 1] \in Entries(turn)
  BY <1>a DEF Entries
<1>d. /\ DOMAIN log' = DOMAIN log
      /\ log'[i] = [log[i] EXCEPT !.len = @ + 1]
      /\ \A x \in DOMAIN log : x # i => log'[x] = log[x]
  OBVIOUS
<1>c. log' \in Logs(turn')
  <2> DEFINE y == [log[i] EXCEPT !.len = @ + 1]
  <2>1. log' = [log EXCEPT ![i] = y]
    OBVIOUS
  <2> HIDE DEF y
  <2>2. y \in Entries(turn)
    BY <1>2 DEF y
  <2>3. log \in Seq(Entries(turn))
    BY <1>b DEF Logs
  <2>4. [log EXCEPT ![i] = y] \in Seq(Entries(turn))
    BY <2>2, <2>3, SeqExcept
  <2> QED
    BY <1>1, <2>1, <2>4 DEF Logs
<1>e. /\ log'[i].turn = log[i].turn /\ log'[i].done = log[i].done /\ log'[i].len = log[i].len + 1
  BY <1>2, <1>a, <1>d DEF Entries
<1> DEFINE H == HappenedIn(log, turn, live)
           G == HappenedIn(log', turn', live')
           n0 == log[i].len + 1
           e == Wrote(i, n0)
<1>3. Has(H, log, turn, live) /\ Has(G, log', turn', live') /\ \A z \in H \cup G : IsEvent(z)
  BY HappenedHas
<1>f. \A n : n \in 1..log'[i].len <=> n \in 1..log[i].len \/ n = n0
  BY <1>2, <1>e
<1>g. n0 \notin 1..log[i].len
  BY <1>2
<1> HIDE DEF n0
<1>4. e \in G /\ e \notin H
  <2> HIDE DEF H, G
  <2> QED
    BY <1>3, <1>d, <1>f, <1>g DEF Has
<1>5. G = H \cup {e}
  <2> HIDE DEF H, G
  <2>1. \A u : TurnBegun(u) \in G <=> TurnBegun(u) \in H \/ TurnBegun(u) = e
    BY <1>1, <1>3, EventsDiffer DEF Has
  <2>2. \A u : TurnOver(u) \in G <=> TurnOver(u) \in H \/ TurnOver(u) = e
    BY <1>1, <1>3, EventsDiffer DEF Has
  <2>3. \A x, u : ItemBegun(x, u) \in G <=> ItemBegun(x, u) \in H \/ ItemBegun(x, u) = e
    BY <1>3, <1>d, <1>e, EventsDiffer DEF Has
  <2>4. \A x, n : Wrote(x, n) \in G <=> Wrote(x, n) \in H \/ Wrote(x, n) = e
    BY <1>3, <1>d, <1>f, EventsSame DEF Has
  <2>5. \A x, u : ItemDone(x, u) \in G <=> ItemDone(x, u) \in H \/ ItemDone(x, u) = e
    BY <1>3, <1>d, <1>e, EventsDiffer DEF Has
  <2> HIDE DEF e
  <2> QED
    BY <1>3, <1>4, <2>1, <2>2, <2>3, <2>4, <2>5, OneMore
<1>6. \A x \in DOMAIN log : \A n : log[x].done => e # Wrote(x, n)
  BY <1>1, EventsSame
<1>7. StepBy(H, G, e)
  <2>1. turn \in Nat /\ turn' \in Nat /\ log \in Logs(turn) /\ log' \in Logs(turn')
    BY <1>1, <1>b, <1>c
  <2>2. e \notin H /\ G = H \cup {e}
    BY <1>4, <1>5
  <2> HIDE DEF e
  <2> QED
    BY <1>6, <2>1, <2>2, HappenedStep
<1>8. turn' \in Nat /\ live' \in BOOLEAN /\ (live' => turn' > 0)
  BY <1>1
<1> HIDE DEF e
<1> QED
  BY <1>1, <1>2, <1>b, <1>c, <1>7, <1>8 DEF Happened, e, n0

\* ItemCompletes brings about the end of the item, and nothing else.
LEMMA CompletesHappens ==
    ASSUME Typed, NEW i \in DOMAIN log, InProgress(i), turn' = turn, live' = live,
           log' = [log EXCEPT ![i].done = TRUE]
    PROVE  /\ turn' \in Nat /\ log' \in Logs(turn') /\ live' \in BOOLEAN /\ (live' => turn' > 0)
           /\ StepBy(Happened, Happened', ItemDone(i, turn))
           /\ log[i].turn = turn /\ log[i].len \in Nat /\ ~log[i].done /\ i \in Nat
           /\ turn \in Nat
<1>1. turn' = turn /\ live' = live /\ live /\ turn \in Nat /\ turn > 0 /\ ~log[i].done /\ log[i].turn = turn
  BY DEF InProgress, Typed
<1>b. log \in Logs(turn) /\ i \in Nat
  BY DEF Typed, Logs
<1>a. \A x \in DOMAIN log : log[x] \in Entries(turn)
  BY <1>b DEF Logs
<1>2. log[i].len \in Nat /\ [log[i] EXCEPT !.done = TRUE] \in Entries(turn)
  BY <1>a DEF Entries
<1>d. /\ DOMAIN log' = DOMAIN log
      /\ log'[i] = [log[i] EXCEPT !.done = TRUE]
      /\ \A x \in DOMAIN log : x # i => log'[x] = log[x]
  OBVIOUS
<1>c. log' \in Logs(turn')
  <2> DEFINE y == [log[i] EXCEPT !.done = TRUE]
  <2>1. log' = [log EXCEPT ![i] = y]
    OBVIOUS
  <2> HIDE DEF y
  <2>2. y \in Entries(turn)
    BY <1>2 DEF y
  <2>3. log \in Seq(Entries(turn))
    BY <1>b DEF Logs
  <2>4. [log EXCEPT ![i] = y] \in Seq(Entries(turn))
    BY <2>2, <2>3, SeqExcept
  <2> QED
    BY <1>1, <2>1, <2>4 DEF Logs
<1>e. /\ log'[i].turn = log[i].turn /\ log'[i].done /\ log'[i].len = log[i].len
  BY <1>2, <1>a, <1>d DEF Entries
<1> DEFINE H == HappenedIn(log, turn, live)
           G == HappenedIn(log', turn', live')
           e == ItemDone(i, turn)
<1>3. Has(H, log, turn, live) /\ Has(G, log', turn', live') /\ \A z \in H \cup G : IsEvent(z)
  BY HappenedHas
<1>4. e \in G /\ e \notin H
  <2> HIDE DEF H, G
  <2> QED
    BY <1>1, <1>3, <1>d, <1>e DEF Has
<1>5. G = H \cup {e}
  <2> HIDE DEF H, G
  <2>1. \A u : TurnBegun(u) \in G <=> TurnBegun(u) \in H \/ TurnBegun(u) = e
    BY <1>1, <1>3, EventsDiffer DEF Has
  <2>2. \A u : TurnOver(u) \in G <=> TurnOver(u) \in H \/ TurnOver(u) = e
    BY <1>1, <1>3, EventsDiffer DEF Has
  <2>3. \A x, u : ItemBegun(x, u) \in G <=> ItemBegun(x, u) \in H \/ ItemBegun(x, u) = e
    BY <1>3, <1>d, <1>e, EventsDiffer DEF Has
  <2>4. \A x, n : Wrote(x, n) \in G <=> Wrote(x, n) \in H \/ Wrote(x, n) = e
    BY <1>3, <1>d, <1>e, EventsDiffer DEF Has
  <2>5. \A x, u : ItemDone(x, u) \in G <=> ItemDone(x, u) \in H \/ ItemDone(x, u) = e
    BY <1>1, <1>3, <1>d, <1>e, EventsSame DEF Has
  <2> HIDE DEF e
  <2> QED
    BY <1>3, <1>4, <2>1, <2>2, <2>3, <2>4, <2>5, OneMore
<1>6. \A x \in DOMAIN log : \A n : log[x].done => e # Wrote(x, n)
  BY EventsDiffer
<1>7. StepBy(H, G, e)
  <2>1. turn \in Nat /\ turn' \in Nat /\ log \in Logs(turn) /\ log' \in Logs(turn')
    BY <1>1, <1>b, <1>c
  <2>2. e \notin H /\ G = H \cup {e}
    BY <1>4, <1>5
  <2> HIDE DEF e
  <2> QED
    BY <1>6, <2>1, <2>2, HappenedStep
<1>8. turn' \in Nat /\ live' \in BOOLEAN /\ (live' => turn' > 0)
  BY <1>1
<1> HIDE DEF e
<1> QED
  BY <1>1, <1>2, <1>b, <1>c, <1>7, <1>8 DEF Happened, e

\* The text the server gives of an item.
LEMMA WrittenIs ==
    ASSUME Typed, NEW i \in DOMAIN log
    PROVE  /\ Written(i) = IF log[i].done THEN Full(log[i].len) ELSE Stretch(1, log[i].len)
           /\ Written(i) \in Texts /\ i \in Nat /\ log[i].len \in Nat
<1>1. log[i].len \in Nat /\ i \in Nat /\ log[i].done \in BOOLEAN
  <2>1. log[i] \in Entries(turn) /\ i \in Nat
    BY DEF Typed, Logs
  <2> QED
    BY <2>1 DEF Entries
<1> DEFINE n == log[i].len
           s == [k \in 1..n |-> k]
<1>2. s = Stretch(1, n)
  BY <1>1 DEF Stretch
<1>3. 1 \in 1..(n + 1) /\ n \in Nat
  BY <1>1
<1> HIDE DEF n
<1>4. Stretch(1, n) \in Texts /\ Full(n) \in Texts
  BY <1>3, StretchText, FullText
<1>5. Written(i) = s \o (IF log[i].done THEN <<0>> ELSE <<>>)
  BY DEF Written, n
<1> HIDE DEF s
<1>6. s \o <<0>> = Append(s, 0) /\ s \o <<>> = s
  BY <1>2, <1>4 DEF Texts
<1>7. Written(i) = IF log[i].done THEN Full(n) ELSE Stretch(1, n)
  BY <1>1, <1>2, <1>5, <1>6 DEF Full
<1> QED
  BY <1>1, <1>4, <1>7 DEF n

\* An item of the server is as a page that knows all shows it.
LEMMA ItemItself ==
    ASSUME Typed, NEW i \in DOMAIN log
    PROVE  Item(i) \in Items /\ Item(i).id = i /\ ItemOK(Item(i), log[i].turn, Happened)
<1>1. /\ Written(i) = IF log[i].done THEN Full(log[i].len) ELSE Stretch(1, log[i].len)
      /\ Written(i) \in Texts /\ i \in Nat /\ log[i].len \in Nat
  BY WrittenIs
<1>2. Item(i) \in Items /\ Item(i).id = i /\ Item(i).text = Written(i)
  BY <1>1 DEF Item, Items
<1>3. Has(Happened, log, turn, live)
  BY HappenedHas DEF Happened
<1>4. ItemBegun(i, log[i].turn) \in Happened
  BY <1>3 DEF Has
<1>5. ItemDone(i, log[i].turn) \in Happened <=> log[i].done
  BY <1>3 DEF Has
<1>6. Count(Happened, i, log[i].len)
  BY <1>3 DEF Has, Count
<1>7. 1 \in 1..(log[i].len + 1)
  BY <1>1
<1>8. ItemOK(Item(i), log[i].turn, Happened)
  BY <1>1, <1>2, <1>4, <1>5, <1>6, <1>7 DEF ItemOK
<1> QED
  BY <1>2, <1>8

\* The items the server tells of a turn.
LEMMA ItemsOfAre ==
    ASSUME Typed, NEW u
    PROVE  /\ ItemsOf(u) \in Seq(Items)
           /\ ItemsOK(ItemsOf(u), u, Happened)
           /\ HasDone(ItemsOf(u), u, Happened)
<1> DEFINE s == [i \in DOMAIN log |-> i]
           T == {i \in DOMAIN log : log[i].turn = u /\ (log[i].done \/ dialect.partial)}
           told == Told(u)
<1>1. DOMAIN log = 1..Len(log) /\ Len(log) \in Nat
  BY DEF Typed, Logs
<1>2. s \in Seq(Nat) /\ DOMAIN s = DOMAIN log /\ \A i \in DOMAIN log : s[i] = i
  BY <1>1
<1>3. told = Keep(s, T)
  BY DEF Told
<1>4. \A i \in T : i \in DOMAIN log /\ log[i].turn = u
  OBVIOUS
<1>5. \A i \in DOMAIN log : log[i].turn = u /\ log[i].done => i \in T
  OBVIOUS
<1> HIDE DEF s, T, told
<1>6. /\ told \in Seq(Nat \cap T)
      /\ \A i \in DOMAIN s : s[i] \in T => \E k \in DOMAIN told : told[k] = s[i]
  <2>1. /\ Keep(s, T) \in Seq(Nat \cap T)
        /\ \A i \in DOMAIN s : s[i] \in T => \E k \in DOMAIN Keep(s, T) : Keep(s, T)[k] = s[i]
    BY <1>2, KeepMembers
  <2> QED
    BY <1>3, <2>1
<1>7. PICK h : Selects(h, told, s, T)
  BY <1>2, <1>3, KeepSelects
<1>8. \A k \in DOMAIN told : told[k] \in T /\ told[k] \in DOMAIN log
  BY <1>4, <1>6
<1>9. \A k, l \in DOMAIN told : told[k] = told[l] => k = l
  <2> SUFFICES ASSUME NEW k \in DOMAIN told, NEW l \in DOMAIN told, k < l PROVE told[k] # told[l]
    <3>1. DOMAIN told \subseteq Nat
      BY <1>6
    <3> QED
      BY <3>1
  <2>1. h[k] \in DOMAIN s /\ h[l] \in DOMAIN s /\ h[k] < h[l] /\ told[k] = s[h[k]] /\ told[l] = s[h[l]]
    BY <1>7 DEF Selects
  <2> QED
    BY <1>1, <1>2, <2>1
<1>10. ItemsOf(u) = [k \in DOMAIN told |-> Item(told[k])]
  BY DEF ItemsOf, told
<1>11. \A k \in DOMAIN told :
          /\ Item(told[k]) \in Items /\ Item(told[k]).id = told[k]
          /\ ItemOK(Item(told[k]), u, Happened)
  BY <1>4, <1>8, ItemItself
<1> DEFINE items == ItemsOf(u)
<1>12. DOMAIN items = DOMAIN told /\ \A k \in DOMAIN told : items[k] = Item(told[k])
  BY <1>10
<1>13. DOMAIN told = 1..Len(told) /\ Len(told) \in Nat
  BY <1>6
<1>14. items \in Seq(Items)
  BY <1>10, <1>11, <1>13
<1> HIDE DEF items
<1>15. Distinct(items)
  BY <1>9, <1>11, <1>12 DEF Distinct
<1>16. ItemsOK(items, u, Happened)
  BY <1>11, <1>12, <1>15 DEF ItemsOK
<1>17. HasDone(items, u, Happened)
  <2> SUFFICES ASSUME NEW x \in Nat, ItemDone(x, u) \in Happened
               PROVE  \E p \in DOMAIN items : items[p].id = x
    BY DEF HasDone
  <2>1. Has(Happened, log, turn, live)
    BY HappenedHas DEF Happened
  <2>2. x \in DOMAIN log /\ log[x].done /\ log[x].turn = u
    BY <2>1 DEF Has
  <2>3. PICK k \in DOMAIN told : told[k] = x
    BY <1>2, <1>5, <1>6, <2>2
  <2> QED
    BY <1>11, <1>12, <2>3
<1> QED
  BY <1>14, <1>16, <1>17 DEF items

\* The turns the server tells.
LEMMA SnapshotIs ==
    ASSUME Typed
    PROVE  /\ Snapshot \in Seq(Turns) /\ Len(Snapshot) = turn
           /\ Shows(Snapshot, Happened)
           /\ \A u \in DOMAIN Snapshot : HasDone(Snapshot[u].items, u, Happened)
           /\ AllFinishedOK(Snapshot, Happened)
<1> DEFINE v == Snapshot
<1>1. v = [u \in 1..turn |-> [id |-> u, items |-> ItemsOf(u)]] /\ turn \in Nat
  BY DEF Snapshot, Typed
<1>2. \A u \in 1..turn : [id |-> u, items |-> ItemsOf(u)] \in Turns
  BY ItemsOfAre DEF Turns
<1>3. v \in Seq(Turns) /\ Len(v) = turn /\ DOMAIN v = 1..turn
  BY <1>1, <1>2
<1>4. \A u \in 1..turn : v[u].id = u /\ v[u].items = ItemsOf(u)
  BY <1>1
<1> HIDE DEF v
<1>5. \A u \in Nat : TurnBegun(u) \in Happened <=> u \in DOMAIN v
  BY <1>3, HappenedHas DEF Happened, Has
<1>6. \A u \in DOMAIN v :
         v[u].id = u /\ ItemsOK(v[u].items, u, Happened) /\ HasDone(v[u].items, u, Happened)
  BY <1>3, <1>4, ItemsOfAre
<1>7. Shows(v, Happened)
  BY <1>5, <1>6 DEF Shows
<1>8. AllFinishedOK(v, Happened)
  <2> SUFFICES ASSUME NEW u \in DOMAIN v, NEW p \in DOMAIN v[u].items, Over(v[u].items[p].text)
               PROVE  /\ ItemOK(v[u].items[p], v[u].id, Happened)
                      /\ ItemDone(v[u].items[p].id, v[u].id) \in Happened
    BY DEF AllFinishedOK, FinishedOK
  <2>1. ItemOK(v[u].items[p], u, Happened) /\ v[u].id = u
    BY <1>6 DEF ItemsOK
  <2>2. PICK b \in Nat :
          ItemDone(v[u].items[p].id, u) \notin Happened =>
             \E a \in 1..(b + 1) : v[u].items[p].text = Stretch(a, b)
    BY <2>1 DEF ItemOK
  <2> QED
    BY <2>1, <2>2, StretchText
<1> QED
  BY <1>3, <1>6, <1>7, <1>8 DEF v

-----------------------------------------------------------------------------
(* The inductive invariant.                                                 *)

\* What is under way is right, and goes to a page that is subscribed.
InboxInv ==
    /\ QueueOK(inbox, Happened, dialect.turnItems)
    /\ inbox # <<>> => subscribed
    /\ subscribed \/ opening # "no" => connected

\* An answer is under way when thread/resume is served, and what thread/read
\* told before is no more than it tells.
OpeningInv ==
    /\ (\E j \in DOMAIN inbox : IsAnswer(inbox[j])) <=> opening = "served"
    /\ \A j \in DOMAIN inbox : IsAnswer(inbox[j]) =>
          Len(read) <= Len(inbox[j].turns) /\ AllFinishedOK(read, Known(Happened, inbox, j))
    /\ opening = "resume" => Len(read) <= turn /\ AllFinishedOK(read, Happened)

\* The page shows what it knows, unless it lacks what it was not sent.
PageInv ==
    /\ ~shown => view = <<>>
    /\ synced => shown /\ subscribed
    /\ AllFinishedOK(view, Known(Happened, inbox, 0))
    /\ shown /\ ~gap /\ ~synced /\ subscribed => inbox # <<>> /\ IsAnswer(inbox[1])
    /\ synced /\ ~gap =>
          /\ Shows(view, Known(Happened, inbox, 0))
          /\ HasAllDone(view, Known(Happened, inbox, 0), dialect.turnItems)
    /\ shown /\ ~gap => AllWhole(view, Happened)

TranscriptInv == Typed /\ InboxInv /\ OpeningInv /\ PageInv

\* A page without holes stays so while the server goes on.
LEMMA WholeViewStays ==
    ASSUME NEW K, NEW H, Before(K, H), NEW v \in Seq(Turns), AllWhole(v, K)
    PROVE  AllWhole(v, H)
<1> SUFFICES ASSUME NEW k \in DOMAIN v, NEW j \in DOMAIN v[k].items
             PROVE  Whole(v[k].items[j], v[k].id, H)
  BY DEF AllWhole
<1>1. v[k] \in Turns
  OBVIOUS
<1>2. v[k].id \in Nat /\ v[k].items[j] \in Items
  BY <1>1 DEF Turns
<1> QED
  BY <1>2, WholeStays DEF AllWhole

\* A page that shows what it knows has no holes.
LEMMA ShownWhole ==
    ASSUME NEW K, NEW H, Before(K, H), NEW v \in Seq(Turns), Shows(v, K)
    PROVE  AllWhole(v, H)
<1> SUFFICES ASSUME NEW k \in DOMAIN v, NEW j \in DOMAIN v[k].items
             PROVE  Whole(v[k].items[j], v[k].id, H)
  BY DEF AllWhole
<1>1. v[k] \in Turns
  OBVIOUS
<1>2. v[k].id \in Nat /\ v[k].items[j] \in Items
  BY <1>1 DEF Turns
<1>3. ItemOK(v[k].items[j], v[k].id, K)
  BY DEF Shows, ItemsOK
<1> QED
  BY <1>2, <1>3, OKIsWhole

\* The invariant holds at the start.
LEMMA InitInv ==
    ASSUME Init
    PROVE  TranscriptInv
<1>1. Typed
  <2>1. <<>> \in Logs(0) /\ 0 \in Nat /\ <<>> \in Seq(Notes \cup Answers) /\ <<>> \in Seq(Turns)
    BY DEF Logs
  <2> QED
    BY <2>1 DEF Init, Typed
<1>2. Known(Happened, <<>>, 0) = Happened
  BY DEF Known, UnderWay
<1>3. Causal(Happened)
  BY <1>1, HappenedCausal DEF Typed, Happened
<1>4. QueueOK(inbox, Happened, dialect.turnItems)
  BY <1>3, QueueEmpty DEF Init
<1>5. InboxInv /\ OpeningInv
  BY <1>4 DEF Init, InboxInv, OpeningInv
<1>6. AllFinishedOK(<<>>, Happened)
  BY DEF AllFinishedOK
<1>7. PageInv
  BY <1>2, <1>6 DEF Init, PageInv
<1> QED
  BY <1>1, <1>5, <1>7 DEF TranscriptInv

\* What the server does and tells keeps the invariant.
LEMMA TellKeeps ==
    ASSUME TranscriptInv, NEW m \in Notes,
           StepBy(Happened, Happened', Event(m)), MessageOK(m, Happened', dialect.turnItems),
           inbox' = IF subscribed THEN Append(inbox, m) ELSE inbox,
           UNCHANGED <<dialect, subscribed, linkVars, openVars, pageVars>>,
           turn' \in Nat, turn <= turn', log' \in Logs(turn'), live' \in BOOLEAN, live' => turn' > 0
    PROVE  TranscriptInv'
<1> DEFINE H == Happened
           G == HappenedIn(log', turn', live')
           whole == dialect.turnItems
<1>0. UNCHANGED <<dialect, subscribed, connected, losses, opening, read, shown, view, synced, gap>>
  BY DEF linkVars, openVars, pageVars
<1>1. Typed /\ InboxInv /\ OpeningInv /\ PageInv
  BY DEF TranscriptInv
<1>2. H' = G /\ Happened' = G
  BY DEF Happened
<1>3. Event(m) \notin H /\ G = H \cup {Event(m)} /\ Before(H, G) /\ Causal(G) /\ MessageOK(m, G, whole)
  BY <1>2 DEF StepBy
<1>4. inbox \in Seq(Notes \cup Answers) /\ m \in Notes \cup Answers /\ ~IsAnswer(m)
  BY <1>1 DEF Typed, Notes, IsAnswer, TurnKinds, ItemKinds, Writings
<1>5. Typed'
  <2>1. inbox' \in Seq(Notes \cup Answers)
    BY <1>4
  <2> QED
    BY <1>0, <1>1, <2>1 DEF Typed
<1> HIDE DEF H, G
<1>6. CASE subscribed
  <2>1. inbox' = Append(inbox, m)
    BY <1>6
  <2>2. /\ \A i \in 0..Len(inbox) : Known(G, inbox', i) = Known(H, inbox, i)
        /\ Known(G, inbox', Len(inbox) + 1) = G
    <3>1. KnownKept(H, inbox, G, Append(inbox, m))
      BY <1>3, <1>4, KnownAppend
    <3> QED
      BY <2>1, <3>1 DEF KnownKept
  <2>3. QueueOK(inbox', G, whole)
    <3>1. QueueOK(inbox, H, whole)
      BY <1>1 DEF InboxInv, H
    <3>2. QueueOK(Append(inbox, m), G, whole)
      BY <1>3, <1>4, <3>1, QueueAppend
    <3> QED
      BY <2>1, <3>2
  <2>4. InboxInv'
    BY <1>0, <1>1, <1>2, <1>6, <2>3 DEF InboxInv
  <2>5. /\ DOMAIN inbox = 1..Len(inbox) /\ Len(inbox) \in Nat
        /\ DOMAIN inbox' = 1..(Len(inbox) + 1)
        /\ inbox'[Len(inbox) + 1] = m
        /\ \A j \in DOMAIN inbox : inbox'[j] = inbox[j] /\ Known(G, inbox', j) = Known(H, inbox, j)
    BY <1>4, <2>1, <2>2
  <2>6. \A j \in DOMAIN inbox' : IsAnswer(inbox'[j]) => j \in DOMAIN inbox
    BY <1>4, <2>5
  <2>7. OpeningInv'
    <3>1. (\E j \in DOMAIN inbox' : IsAnswer(inbox'[j])) <=> opening' = "served"
      <4>1. DOMAIN inbox \subseteq DOMAIN inbox'
        BY <2>5
      <4> QED
        BY <1>0, <1>1, <2>5, <2>6, <4>1 DEF OpeningInv
    <3>2. \A j \in DOMAIN inbox' : IsAnswer(inbox'[j]) =>
             Len(read') <= Len(inbox'[j].turns) /\ AllFinishedOK(read', Known(G, inbox', j))
      BY <1>0, <1>1, <2>5, <2>6 DEF OpeningInv, H
    <3>3. opening' = "resume" => Len(read') <= turn' /\ AllFinishedOK(read', G)
      <4> SUFFICES ASSUME opening = "resume" PROVE Len(read) <= turn' /\ AllFinishedOK(read, G)
        BY <1>0
      <4>1. Len(read) <= turn /\ AllFinishedOK(read, H) /\ read \in Seq(Turns) /\ turn \in Nat
        BY <1>1 DEF OpeningInv, Typed, H
      <4> QED
        BY <1>3, <4>1, FinishedStays
    <3> QED
      BY <1>2, <3>1, <3>2, <3>3 DEF OpeningInv
  <2>8. Known(G, inbox', 0) = Known(H, inbox, 0)
    BY <2>2, <2>5
  <2>9. PageInv'
    <3>1. shown /\ ~gap => AllWhole(view, G)
      BY <1>1, <1>3, WholeViewStays DEF PageInv, Typed, H
    <3>2. inbox # <<>> => inbox' # <<>> /\ inbox'[1] = inbox[1]
      <4>1. inbox # <<>> => 1 \in DOMAIN inbox
        BY <1>4
      <4> QED
        BY <1>4, <2>1, <2>5, <4>1
    <3> QED
      BY <1>0, <1>1, <1>2, <2>8, <3>1, <3>2 DEF PageInv, H
  <2> QED
    BY <1>5, <2>4, <2>7, <2>9 DEF TranscriptInv
<1>7. CASE ~subscribed
  <2>1. inbox = <<>> /\ inbox' = <<>>
    BY <1>1, <1>7 DEF InboxInv
  <2>2. Known(H, <<>>, 0) = H /\ Known(G, <<>>, 0) = G
    BY DEF Known, UnderWay
  <2>3. InboxInv'
    BY <1>0, <1>1, <1>2, <1>3, <2>1, QueueEmpty DEF InboxInv
  <2>4. OpeningInv'
    <3>3. opening' = "resume" => Len(read') <= turn' /\ AllFinishedOK(read', G)
      <4> SUFFICES ASSUME opening = "resume" PROVE Len(read) <= turn' /\ AllFinishedOK(read, G)
        BY <1>0
      <4>1. Len(read) <= turn /\ AllFinishedOK(read, H) /\ read \in Seq(Turns) /\ turn \in Nat
        BY <1>1 DEF OpeningInv, Typed, H
      <4> QED
        BY <1>3, <4>1, FinishedStays
    <3> QED
      BY <1>0, <1>1, <1>2, <2>1, <3>3 DEF OpeningInv
  <2>5. PageInv'
    <3>1. shown /\ ~gap => AllWhole(view, G)
      BY <1>1, <1>3, WholeViewStays DEF PageInv, Typed, H
    <3>2. AllFinishedOK(view, G)
      BY <1>1, <1>3, <2>1, <2>2, FinishedStays DEF PageInv, Typed, H
    <3>3. ~synced
      BY <1>1, <1>7 DEF PageInv
    <3> QED
      BY <1>0, <1>1, <1>2, <1>7, <2>1, <2>2, <3>1, <3>2, <3>3 DEF PageInv
  <2> QED
    BY <1>5, <2>3, <2>4, <2>5 DEF TranscriptInv
<1> QED
  BY <1>6, <1>7

\* The part of Typed that is about the server.
TypedServer ==
    turn \in Nat /\ log \in Logs(turn) /\ live \in BOOLEAN /\ (live => turn > 0)

\* Telling what has just happened.
LEMMA TellStep ==
    ASSUME TranscriptInv, NEW kind \in TurnKinds \cup ItemKinds \cup Writings,
           NEW u \in Nat, NEW items \in Seq(Items), Tell(kind, u, items), NEW m,
           m = [kind |-> kind, turn |-> u, items |-> items],
           StepBy(Happened, Happened', Event(m)), MessageOK(m, Happened', dialect.turnItems),
           TypedServer', turn <= turn'
    PROVE  TranscriptInv'
<1>1. m \in Notes
  BY DEF Notes
<1>2. inbox' = IF subscribed THEN Append(inbox, m) ELSE inbox
  <2>1. inbox \in Seq(Notes \cup Answers)
    BY DEF TranscriptInv, Typed
  <2>2. inbox' = inbox \o (IF subscribed THEN <<m>> ELSE <<>>)
    BY DEF Tell, Note
  <2>3. inbox \o <<m>> = Append(inbox, m) /\ inbox \o <<>> = inbox
    BY <1>1, <2>1
  <2> QED
    BY <2>2, <2>3
<1>3. UNCHANGED <<dialect, subscribed, linkVars, openVars, pageVars>>
  BY DEF Tell
<1> QED
  BY <1>1, <1>2, <1>3, TellKeeps DEF TypedServer

\* A new turn keeps the invariant: what it tells is one event more.
LEMMA TurnStartsKeeps ==
    ASSUME TranscriptInv, TurnStarts
    PROVE  TranscriptInv'
<1> DEFINE m == [kind |-> "turn/started", turn |-> turn + 1, items |-> <<>>]
<1>1. Typed /\ turn \in Nat
  BY DEF TranscriptInv, Typed
<1>2. TypedServer' /\ StepBy(Happened, Happened', TurnBegun(turn + 1))
  BY <1>1, TurnStartsHappens DEF TypedServer
<1>3. Event(m) = TurnBegun(turn + 1)
  BY DEF Event
<1>4. MessageOK(m, Happened', dialect.turnItems)
  <2>1. Event(m) \in Happened'
    BY <1>2, <1>3 DEF StepBy
  <2> QED
    BY <2>1 DEF MessageOK, ItemKinds, Writings
<1>5. Tell("turn/started", turn + 1, <<>>) /\ turn' = turn + 1
  BY DEF TurnStarts
<1>6. turn + 1 \in Nat /\ <<>> \in Seq(Items) /\ "turn/started" \in TurnKinds \cup ItemKinds \cup Writings
  BY <1>1 DEF TurnKinds
<1>7. turn <= turn'
  BY <1>1, <1>5
<1>8. StepBy(Happened, Happened', Event(m))
  BY <1>2, <1>3
<1>9. m = [kind |-> "turn/started", turn |-> turn + 1, items |-> <<>>]
  OBVIOUS
<1> HIDE DEF m
<1> QED
  BY <1>2, <1>4, <1>5, <1>6, <1>7, <1>8, <1>9, TellStep

\* The end of a turn keeps the invariant: the items it tells are those of the turn.
LEMMA TurnEndsKeeps ==
    ASSUME TranscriptInv, TurnEnds
    PROVE  TranscriptInv'
<1> DEFINE items == IF dialect.turnItems THEN ItemsOf(turn) ELSE <<>>
           m == [kind |-> "turn/completed", turn |-> turn, items |-> items]
           e == TurnOver(turn)
           G == Happened'
<1>1. Typed /\ turn \in Nat
  BY DEF TranscriptInv, Typed
<1>2. TypedServer' /\ StepBy(Happened, G, e)
  BY <1>1, TurnEndsHappens DEF TypedServer
<1>3. Event(m) = e
  BY DEF Event
<1>4. /\ ItemsOf(turn) \in Seq(Items) /\ ItemsOK(ItemsOf(turn), turn, Happened)
      /\ HasDone(ItemsOf(turn), turn, Happened)
  BY <1>1, ItemsOfAre
<1>5. G = Happened \cup {e}
  BY <1>2 DEF StepBy
<1>6. ItemsOK(ItemsOf(turn), turn, G)
  <2>1. \A p \in DOMAIN ItemsOf(turn) : ItemOK(ItemsOf(turn)[p], turn, Happened \cup {e})
    BY <1>4, ItemFrame, EventsDiffer DEF ItemsOK
  <2> HIDE DEF G, e
  <2> QED
    BY <1>4, <1>5, <2>1 DEF ItemsOK
<1>7. HasDone(ItemsOf(turn), turn, G)
  <2>1. \A x : ItemDone(x, turn) \in G => ItemDone(x, turn) \in Happened
    BY <1>5, EventsDiffer
  <2> HIDE DEF G
  <2> QED
    BY <1>4, <2>1 DEF HasDone
<1>8. ItemsOK(<<>>, turn, G)
  BY DEF ItemsOK, Distinct
<1>9. MessageOK(m, G, dialect.turnItems)
  <2>1. Event(m) \in G
    BY <1>3, <1>5
  <2> HIDE DEF G
  <2>2. ItemsOK(items, turn, G) /\ (dialect.turnItems => HasDone(items, turn, G))
    BY <1>6, <1>7, <1>8
  <2> HIDE DEF items
  <2> QED
    BY <2>1, <2>2 DEF MessageOK, ItemKinds, Writings
<1>10. Tell("turn/completed", turn, items) /\ turn' = turn
  BY DEF TurnEnds
<1>11. items \in Seq(Items) /\ "turn/completed" \in TurnKinds \cup ItemKinds \cup Writings
  BY <1>4 DEF TurnKinds
<1>12. turn <= turn'
  BY <1>1, <1>10
<1>13. StepBy(Happened, Happened', Event(m))
  BY <1>2, <1>3
<1>14. m = [kind |-> "turn/completed", turn |-> turn, items |-> items]
  OBVIOUS
<1> HIDE DEF m, items
<1> QED
  BY <1>1, <1>2, <1>9, <1>10, <1>11, <1>12, <1>13, <1>14, TellStep

\* A list of one item.
LEMMA OneItem ==
    ASSUME NEW i \in Nat, NEW t \in Texts, NEW items, items = <<[id |-> i, text |-> t]>>
    PROVE  items \in Seq(Items) /\ Len(items) = 1 /\ items[1].id = i /\ items[1].text = t
BY DEF Items

\* A new item keeps the invariant.
LEMMA ItemStartsKeeps ==
    ASSUME TranscriptInv, ItemStarts
    PROVE  TranscriptInv'
<1> DEFINE n0 == Len(log) + 1
           items == <<[id |-> n0, text |-> <<>>]>>
           m == [kind |-> "item/started", turn |-> turn, items |-> items]
           e == ItemBegun(n0, turn)
           G == Happened'
<1>1. Typed /\ turn \in Nat /\ DOMAIN log = 1..Len(log) /\ Len(log) \in Nat
  BY DEF TranscriptInv, Typed, Logs
<1>2. TypedServer' /\ StepBy(Happened, G, e)
  BY <1>1, ItemStartsHappens DEF TypedServer
<1>3. n0 \in Nat /\ <<>> \in Texts /\ n0 \notin DOMAIN log
  BY <1>1 DEF Texts
<1>4. Tell("item/started", turn, items) /\ turn' = turn
  BY DEF ItemStarts
<1>5. items = <<[id |-> n0, text |-> <<>>]>>
  OBVIOUS
<1> HIDE DEF n0, items
<1>6. items \in Seq(Items) /\ Len(items) = 1 /\ items[1].id = n0 /\ items[1].text = <<>>
  BY <1>3, <1>5, OneItem
<1>7. Event(m) = e
  BY <1>6 DEF Event
<1>8. G = Happened \cup {e}
  BY <1>2 DEF StepBy
<1>9. Count(G, n0, 0)
  <2>1. \A n : Wrote(n0, n) \notin Happened
    BY <1>3, HappenedHas DEF Happened, Has
  <2>2. \A n : Wrote(n0, n) \notin G
    BY <1>8, <2>1, EventsDiffer
  <2> QED
    BY <2>2 DEF Count
<1>10. MessageOK(m, G, dialect.turnItems)
  <2>1. e \in G
    BY <1>8
  <2> HIDE DEF G
  <2> QED
    BY <1>6, <1>7, <1>9, <2>1 DEF MessageOK, ItemKinds, Writings
<1>11. "item/started" \in TurnKinds \cup ItemKinds \cup Writings /\ turn <= turn'
  BY <1>1, <1>4 DEF ItemKinds
<1>12. StepBy(Happened, Happened', Event(m))
  BY <1>2, <1>7
<1>13. m = [kind |-> "item/started", turn |-> turn, items |-> items]
  OBVIOUS
<1> HIDE DEF m
<1> QED
  BY <1>1, <1>2, <1>4, <1>6, <1>10, <1>11, <1>12, <1>13, TellStep

\* A delta alone.
LEMMA OneDelta ==
    ASSUME NEW b \in Nat \ {0}
    PROVE  Stretch(b, b) = <<b>>
<1> DEFINE s == Stretch(b, b)
<1>1. b \in 1..(b + 1) /\ b + 1 - b = 1
  OBVIOUS
<1>2. s \in Texts /\ Len(s) = 1
  BY <1>1, StretchText
<1>3. s[1] = b
  BY DEF Stretch
<1> HIDE DEF s
<1>4. s = <<b>>
  BY <1>2, <1>3 DEF Texts
<1> QED
  BY <1>4 DEF s

\* What is known of an item just written to.
LEMMA WrittenCount ==
    ASSUME Typed, NEW i \in DOMAIN log, NEW b, b = log[i].len + 1, ~log[i].done, log[i].len \in Nat,
           NEW G, G = Happened \cup {Wrote(i, b)}
    PROVE  /\ Count(G, i, b) /\ ItemBegun(i, log[i].turn) \in G
           /\ ItemDone(i, log[i].turn) \notin G
<1>1. Has(Happened, log, turn, live)
  BY HappenedHas DEF Happened
<1>2. \A n \in Nat : n \in 1..b <=> n \in 1..log[i].len \/ n = b
  OBVIOUS
<1>3. \A n \in Nat : Wrote(i, n) \in G <=> n \in 1..b
  BY <1>1, <1>2, EventsSame DEF Has
<1> QED
  BY <1>1, <1>3, EventsDiffer DEF Has, Count

\* A delta and a patch keep the invariant: each tells the text it adds to or makes.
LEMMA ItemWritesKeeps ==
    ASSUME TranscriptInv, NEW i \in DOMAIN log, ItemWrites(i) \/ ItemPatched(i)
    PROVE  TranscriptInv'
<1> DEFINE b == log[i].len + 1
           kind == IF ItemWrites(i) THEN "delta" ELSE "patch"
           text == IF ItemWrites(i) THEN <<b>> ELSE [k \in 1..b |-> k]
           items == <<[id |-> i, text |-> text]>>
           m == [kind |-> kind, turn |-> turn, items |-> items]
           e == Wrote(i, b)
           G == Happened'
<1>1. Typed /\ InProgress(i) /\ turn' = turn /\ live' = live /\ log' = [log EXCEPT ![i].len = @ + 1]
  BY DEF TranscriptInv, ItemWrites, ItemPatched
<1>2. /\ TypedServer' /\ StepBy(Happened, G, e)
      /\ log[i].turn = turn /\ log[i].len \in Nat /\ ~log[i].done /\ i \in Nat /\ turn \in Nat
  BY <1>1, WritesHappens DEF TypedServer
<1>3. Tell(kind, turn, items)
  BY DEF ItemWrites, ItemPatched
<1>4. b \in Nat \ {0} /\ b \in 1..b /\ 1 \in 1..b /\ b \in 1..(b + 1) /\ 1 \in 1..(b + 1)
  BY <1>2
<1>5. G = Happened \cup {e}
  BY <1>2 DEF StepBy
<1>6. b = log[i].len + 1
  OBVIOUS
<1>7. text = IF kind = "delta" THEN Stretch(b, b) ELSE Stretch(1, b)
  <2> HIDE DEF b
  <2>1. Stretch(1, b) = [k \in 1..b |-> k]
    BY <1>4 DEF Stretch
  <2>2. Stretch(b, b) = <<b>>
    BY <1>4, OneDelta
  <2> QED
    BY <2>1, <2>2
<1>8. kind \in Writings
  BY DEF Writings
<1>9. items = <<[id |-> i, text |-> text]>>
  OBVIOUS
<1> HIDE DEF b, text, items, kind
<1>10. text \in Texts /\ Last(text) = b
  BY <1>4, <1>7, StretchText, StretchLast
<1>11. items \in Seq(Items) /\ Len(items) = 1 /\ items[1].id = i /\ items[1].text = text
  BY <1>2, <1>9, <1>10, OneItem
<1>12. Event(m) = e
  BY <1>8, <1>10, <1>11 DEF Event, Writings
<1>13. Count(G, i, b) /\ ItemBegun(i, turn) \in G /\ ItemDone(i, turn) \notin G
  <2> HIDE DEF G
  <2> QED
    BY <1>1, <1>2, <1>5, <1>6, WrittenCount
<1>14. MessageOK(m, G, dialect.turnItems)
  <2>1. e \in G
    BY <1>5
  <2>2. m.kind \in Writings /\ m.kind = kind /\ m.turn = turn /\ m.items = items
    BY <1>8
  <2> HIDE DEF G, m, e
  <2>3. m.kind # "resumed" /\ m.kind \notin {"turn/started", "turn/completed", "item/started", "item/completed"}
    BY <2>2 DEF Writings
  <2>4. Len(m.items) = 1 /\ ItemBegun(m.items[1].id, m.turn) \in G
    BY <1>11, <1>13, <2>2
  <2>5. \E c \in Nat \ {0} :
             /\ Count(G, m.items[1].id, c) /\ ItemDone(m.items[1].id, m.turn) \notin G
             /\ m.items[1].text = IF m.kind = "delta" THEN Stretch(c, c) ELSE Stretch(1, c)
    BY <1>4, <1>7, <1>11, <1>13, <2>2
  <2> QED
    BY <1>12, <2>1, <2>3, <2>4, <2>5 DEF MessageOK, ItemKinds
<1>15. kind \in TurnKinds \cup ItemKinds \cup Writings /\ turn <= turn'
  BY <1>1, <1>2, <1>8
<1>16. StepBy(Happened, Happened', Event(m))
  BY <1>2, <1>12
<1>17. m = [kind |-> kind, turn |-> turn, items |-> items]
  OBVIOUS
<1> HIDE DEF m
<1> QED
  BY <1>2, <1>3, <1>11, <1>14, <1>15, <1>16, <1>17, TellStep

\* The end of an item keeps the invariant: it tells the whole text.
LEMMA ItemCompletesKeeps ==
    ASSUME TranscriptInv, NEW i \in DOMAIN log, ItemCompletes(i)
    PROVE  TranscriptInv'
<1> DEFINE n == log[i].len
           text == Append(Written(i), 0)
           items == <<[id |-> i, text |-> text]>>
           m == [kind |-> "item/completed", turn |-> turn, items |-> items]
           e == ItemDone(i, turn)
           G == Happened'
<1>1. /\ Typed /\ InProgress(i) /\ turn' = turn /\ live' = live /\ log' = [log EXCEPT ![i].done = TRUE]
      /\ Tell("item/completed", turn, items)
  BY DEF TranscriptInv, ItemCompletes
<1>2. /\ TypedServer' /\ StepBy(Happened, G, e)
      /\ log[i].turn = turn /\ log[i].len \in Nat /\ ~log[i].done /\ i \in Nat /\ turn \in Nat
  BY <1>1, CompletesHappens DEF TypedServer
<1>3. G = Happened \cup {e}
  BY <1>2 DEF StepBy
<1>4. text = Full(n) /\ n \in Nat
  BY <1>1, <1>2, WrittenIs DEF Full
<1>5. items = <<[id |-> i, text |-> text]>>
  OBVIOUS
<1>6. Has(Happened, log, turn, live)
  BY HappenedHas DEF Happened
<1>7. Count(G, i, n)
  BY <1>3, <1>6, EventsDiffer DEF Has, Count
<1>8. ItemBegun(i, turn) \in G
  BY <1>2, <1>3, <1>6 DEF Has
<1> HIDE DEF n, text, items
<1>9. text \in Texts
  BY <1>4, FullText
<1>10. items \in Seq(Items) /\ Len(items) = 1 /\ items[1].id = i /\ items[1].text = text
  BY <1>2, <1>5, <1>9, OneItem
<1>11. Event(m) = e
  BY <1>10 DEF Event
<1>12. MessageOK(m, G, dialect.turnItems)
  <2>1. e \in G
    BY <1>3
  <2> HIDE DEF G, e
  <2> QED
    BY <1>4, <1>7, <1>8, <1>10, <1>11, <2>1 DEF MessageOK, ItemKinds, Writings
<1>13. "item/completed" \in TurnKinds \cup ItemKinds \cup Writings /\ turn <= turn'
  BY <1>1, <1>2 DEF ItemKinds
<1>14. StepBy(Happened, Happened', Event(m))
  BY <1>2, <1>11
<1>15. m = [kind |-> "item/completed", turn |-> turn, items |-> items]
  OBVIOUS
<1> HIDE DEF m
<1> QED
  BY <1>1, <1>2, <1>10, <1>12, <1>13, <1>14, <1>15, TellStep

-----------------------------------------------------------------------------
(* Each step keeps the invariant.                                           *)

\* The places of what is left when the first message is handled.
LEMMA AfterHead ==
    ASSUME NEW S, NEW q \in Seq(S), q # <<>>, NEW H
    PROVE  /\ 1 \in DOMAIN q /\ Head(q) = q[1] /\ Head(q) \in S /\ Tail(q) \in Seq(S)
           /\ \A j \in DOMAIN Tail(q) :
                 /\ j + 1 \in DOMAIN q /\ Tail(q)[j] = q[j + 1] /\ j \in Nat
                 /\ Known(H, Tail(q), j) = Known(H, q, j + 1)
           /\ \A j \in DOMAIN q : j # 1 => j - 1 \in DOMAIN Tail(q) /\ Tail(q)[j - 1] = q[j]
           /\ Known(H, Tail(q), 0) = Known(H, q, 1)
<1> DEFINE r == Tail(q)
<1>1. /\ r \in Seq(S) /\ Len(r) = Len(q) - 1 /\ DOMAIN r = 1..(Len(q) - 1) /\ DOMAIN q = 1..Len(q)
      /\ Len(q) \in Nat /\ Len(q) > 0 /\ \A k \in 1..(Len(q) - 1) : r[k] = q[k + 1]
      /\ Head(q) = q[1]
  OBVIOUS
<1>2. \A i \in 0..(Len(q) - 1) : Known(H, r, i) = Known(H, q, i + 1)
  BY KnownTail
<1> HIDE DEF r
<1>3. \A j \in DOMAIN r : j + 1 \in DOMAIN q /\ r[j] = q[j + 1] /\ j \in Nat /\ j \in 0..(Len(q) - 1)
  BY <1>1
<1>4. \A j \in DOMAIN q : j # 1 => j - 1 \in DOMAIN r /\ r[j - 1] = q[j - 1 + 1] /\ j - 1 + 1 = j
  BY <1>1
<1>5. Known(H, r, 0) = Known(H, q, 1)
  <2>1. 0 \in 0..(Len(q) - 1) /\ 0 + 1 = 1
    BY <1>1
  <2> QED
    BY <1>2, <2>1
<1>6. 1 \in DOMAIN q /\ q[1] \in S
  BY <1>1
<1> QED
  BY <1>1, <1>2, <1>3, <1>4, <1>5, <1>6 DEF r

\* Serving thread/resume keeps the invariant.
LEMMA ServeResumeKeeps ==
    ASSUME TranscriptInv, ServeResume
    PROVE  TranscriptInv'
<1> DEFINE H == Happened
           m == [kind |-> "resumed", turns |-> Snapshot]
           q == inbox
           r == Append(inbox, m)
           whole == dialect.turnItems
<1>1. Typed /\ InboxInv /\ OpeningInv /\ PageInv
  BY DEF TranscriptInv
<1>2. /\ opening = "resume" /\ opening' = "served" /\ subscribed' /\ inbox' = r
      /\ UNCHANGED <<log, turn, live, dialect, connected, losses, read, shown, view, synced, gap>>
  BY DEF ServeResume, linkVars, pageVars
<1>3. Happened' = H
  BY <1>2 DEF Happened
<1>4. /\ Snapshot \in Seq(Turns) /\ Len(Snapshot) = turn /\ Shows(Snapshot, H)
      /\ \A u \in DOMAIN Snapshot : HasDone(Snapshot[u].items, u, H)
  BY <1>1, SnapshotIs
<1>5. m \in Answers /\ IsAnswer(m) /\ Event(m) = Nothing /\ m.turns = Snapshot /\ m.kind = "resumed"
  BY <1>4 DEF Answers, IsAnswer, Event, Writings
<1>6. Nothing \notin H
  BY HappenedHas DEF Happened
<1>7. MessageOK(m, H, whole)
  <2> HIDE DEF m, H
  <2> QED
    BY <1>4, <1>5 DEF MessageOK, ItemKinds, Writings
<1>8. inbox \in Seq(Notes \cup Answers) /\ m \in Notes \cup Answers
  BY <1>1, <1>5 DEF Typed
<1>9. \A j \in DOMAIN inbox : ~IsAnswer(inbox[j])
  BY <1>1, <1>2 DEF OpeningInv
<1>10. QueueOK(inbox, H, whole) /\ Causal(H) /\ Before(H, H)
  BY <1>1, BeforeSelf DEF InboxInv, QueueOK
<1>11. Typed'
  <2>1. inbox' \in Seq(Notes \cup Answers) /\ subscribed' \in BOOLEAN
    BY <1>2, <1>8
  <2> QED
    BY <1>1, <1>2, <2>1 DEF Typed
<1> HIDE DEF H, m
<1>12. QueueOK(r, H, whole)
  BY <1>5, <1>6, <1>7, <1>8, <1>9, <1>10, QueueAppend
<1>13. KnownKept(H, inbox, H, r)
  BY <1>5, <1>6, <1>8, KnownAppend
<1>14. /\ DOMAIN inbox = 1..Len(inbox) /\ Len(inbox) \in Nat /\ DOMAIN r = 1..(Len(inbox) + 1)
       /\ r[Len(inbox) + 1] = m /\ \A j \in DOMAIN inbox : r[j] = inbox[j]
  BY <1>8
<1> HIDE DEF r
<1>15. Known(H, r, 0) = Known(H, inbox, 0) /\ Known(H, r, Len(inbox) + 1) = H
  <2>1. 0 \in 0..Len(inbox)
    BY <1>14
  <2> QED
    BY <1>13, <2>1 DEF KnownKept
<1>16. InboxInv'
  BY <1>1, <1>2, <1>3, <1>12 DEF InboxInv
<1>17. \A j \in DOMAIN r : IsAnswer(r[j]) <=> j = Len(inbox) + 1
  BY <1>5, <1>9, <1>14
<1>18. OpeningInv'
  <2>1. Len(inbox) + 1 \in DOMAIN r
    BY <1>14
  <2>2. \E j \in DOMAIN r : IsAnswer(r[j])
    BY <1>17, <2>1
  <2>3. Len(read) <= Len(m.turns) /\ AllFinishedOK(read, H)
    BY <1>1, <1>2, <1>4, <1>5 DEF OpeningInv, H
  <2>4. \A j \in DOMAIN r : IsAnswer(r[j]) =>
           Len(read) <= Len(r[j].turns) /\ AllFinishedOK(read, Known(H, r, j))
    BY <1>14, <1>15, <1>17, <2>3
  <2> QED
    BY <1>2, <1>3, <2>2, <2>4 DEF OpeningInv
<1>19. PageInv'
  <2>1. ASSUME shown, ~gap, ~synced PROVE r # <<>> /\ IsAnswer(r[1])
    <3>1. 1 \in DOMAIN r /\ (inbox # <<>> => 1 \in DOMAIN inbox) /\ (inbox = <<>> => Len(inbox) + 1 = 1)
      BY <1>8, <1>14
    <3>2. r # <<>>
      BY <3>1
    <3>3. CASE inbox = <<>>
      BY <1>17, <3>1, <3>2, <3>3
    <3>4. CASE inbox # <<>>
      <4>1. subscribed
        BY <1>1, <3>4 DEF InboxInv
      <4> QED
        BY <1>1, <1>9, <2>1, <3>1, <3>4, <4>1 DEF PageInv
    <3> QED
      BY <3>3, <3>4
  <2> QED
    BY <1>1, <1>2, <1>3, <1>15, <2>1 DEF PageInv, H
<1> QED
  BY <1>11, <1>16, <1>18, <1>19 DEF TranscriptInv

\* Handling the first message leaves the others right.
LEMMA HeadHandled ==
    ASSUME TranscriptInv, inbox # <<>>, inbox' = Tail(inbox), UNCHANGED <<serverVars, linkVars>>,
           opening' \in {opening, "no"}
    PROVE  InboxInv'
<1>1. Typed /\ InboxInv
  BY DEF TranscriptInv
<1>2. /\ UNCHANGED <<log, turn, live, dialect, subscribed, connected>>
      /\ inbox \in Seq(Notes \cup Answers)
  BY <1>1 DEF serverVars, linkVars, Typed
<1>3. Happened' = Happened
  BY <1>2 DEF Happened
<1>4. QueueOK(Tail(inbox), Happened, dialect.turnItems)
  BY <1>1, <1>2, QueueTail DEF InboxInv
<1>5. InboxInv'
  BY <1>1, <1>2, <1>3, <1>4 DEF InboxInv
<1> QED
  BY <1>5

\* What is shown of a snapshot is complete where it looks so.
LEMMA ShowsFinished ==
    ASSUME NEW v \in Seq(Turns), NEW K, Shows(v, K)
    PROVE  AllFinishedOK(v, K)
<1> SUFFICES ASSUME NEW u \in DOMAIN v, NEW p \in DOMAIN v[u].items, Over(v[u].items[p].text)
             PROVE  /\ ItemOK(v[u].items[p], v[u].id, K)
                    /\ ItemDone(v[u].items[p].id, v[u].id) \in K
  BY DEF AllFinishedOK, FinishedOK
<1>1. ItemOK(v[u].items[p], u, K) /\ v[u].id = u
  BY DEF Shows, ItemsOK
<1>2. PICK b \in Nat :
        ItemDone(v[u].items[p].id, u) \notin K =>
           \E a \in 1..(b + 1) : v[u].items[p].text = Stretch(a, b)
  BY <1>1 DEF ItemOK
<1> QED
  BY <1>1, <1>2, StretchText

\* What the page knows before and after the first message.
LEMMA KnownOfHead ==
    ASSUME Typed, InboxInv, inbox # <<>>
    PROVE  LET K == Known(Happened, inbox, 0)
               L == Known(Happened, inbox, 1)
           IN  /\ Causal(K) /\ Causal(L) /\ Before(K, L) /\ Before(L, Happened)
               /\ MessageOK(Head(inbox), L, dialect.turnItems)
               /\ Head(inbox).kind # "resumed" =>
                     Head(inbox) \in Notes /\ Event(Head(inbox)) \notin K /\ L = K \cup {Event(Head(inbox))}
               /\ Head(inbox).kind = "resumed" => K = L /\ Head(inbox) \in Answers
<1> DEFINE H == Happened
           K == Known(H, inbox, 0)
           L == Known(H, inbox, 1)
           m == Head(inbox)
<1>1. inbox \in Seq(Notes \cup Answers)
  BY DEF Typed
<1>2. 1 \in DOMAIN inbox /\ m = inbox[1] /\ m \in Notes \cup Answers /\ 0 \in 0..Len(inbox) /\ 1 \in 0..Len(inbox)
  BY <1>1
<1>3. K = L \ {Event(m)}
  BY <1>1, <1>2, KnownTail
<1>4. Causal(K) /\ Causal(L) /\ Before(K, H) /\ Before(L, H) /\ MessageOK(m, L, dialect.turnItems)
  BY <1>2 DEF InboxInv, QueueOK
<1>5. L \subseteq H /\ Nothing \notin L
  <2>1. Nothing \notin H
    BY HappenedHas DEF Happened
  <2> QED
    BY <1>4, <2>1 DEF Before
<1>6. Before(K, L)
  BY <1>3, <1>4, <1>5 DEF Before
<1>7. ASSUME m.kind # "resumed" PROVE m \in Notes /\ Event(m) \notin K /\ L = K \cup {Event(m)}
  <2>1. m \in Notes
    BY <1>2, <1>7 DEF Answers
  <2>2. Event(m) \in L
    BY <1>4, <1>7 DEF MessageOK
  <2> QED
    BY <1>3, <2>1, <2>2
<1>8. ASSUME m.kind = "resumed" PROVE K = L /\ m \in Answers
  <2>1. Event(m) = Nothing
    BY <1>8 DEF Event, Writings
  <2>2. m \in Answers
    BY <1>2, <1>8 DEF Notes, TurnKinds, ItemKinds, Writings
  <2> QED
    BY <1>3, <1>5, <2>1, <2>2
<1> QED
  BY <1>4, <1>6, <1>7, <1>8

\* Handling a notification keeps the invariant.
LEMMA HandleNotificationKeeps ==
    ASSUME TranscriptInv, HandleNotification
    PROVE  TranscriptInv'
<1> DEFINE H == Happened
           K == Known(H, inbox, 0)
           L == Known(H, inbox, 1)
           m == Head(inbox)
           e == Event(m)
           whole == dialect.turnItems
<1>1. Typed /\ InboxInv /\ OpeningInv /\ PageInv
  BY DEF TranscriptInv
<1>2. /\ inbox # <<>> /\ m.kind # "resumed" /\ inbox' = Tail(inbox)
      /\ view' = IF shown THEN Applied(m) ELSE view
      /\ UNCHANGED <<serverVars, linkVars>>
      /\ UNCHANGED <<log, turn, live, dialect, subscribed, connected, opening, read, shown, synced, gap>>
  BY DEF HandleNotification, serverVars, linkVars, openVars
<1>3. Happened' = H
  BY <1>2 DEF Happened
<1>4. /\ Causal(K) /\ Causal(L) /\ Before(K, L) /\ Before(L, H) /\ MessageOK(m, L, whole)
      /\ m \in Notes /\ e \notin K /\ L = K \cup {e}
  BY <1>1, <1>2, KnownOfHead
<1>5. inbox \in Seq(Notes \cup Answers) /\ view \in Seq(Turns)
  BY <1>1 DEF Typed
<1>6. /\ 1 \in DOMAIN inbox /\ m = inbox[1] /\ Tail(inbox) \in Seq(Notes \cup Answers)
      /\ \A j \in DOMAIN Tail(inbox) :
            /\ j + 1 \in DOMAIN inbox /\ Tail(inbox)[j] = inbox[j + 1] /\ j \in Nat
            /\ Known(H, Tail(inbox), j) = Known(H, inbox, j + 1)
      /\ \A j \in DOMAIN inbox : j # 1 => j - 1 \in DOMAIN Tail(inbox) /\ Tail(inbox)[j - 1] = inbox[j]
      /\ Known(H, Tail(inbox), 0) = L
  <2>1. inbox # <<>> /\ inbox \in Seq(Notes \cup Answers)
    BY <1>2, <1>5
  <2> HIDE DEF H
  <2> QED
    BY <2>1, AfterHead DEF m, L
<1>7. InboxInv'
  BY <1>2, HeadHandled
<1> HIDE DEF H, K, L, m, e
<1>8. Applied(m) \in Seq(Turns)
  <2>1. m.kind \in ItemKinds \cup Writings => Len(m.items) = 1
    BY <1>4 DEF MessageOK
  <2> QED
    BY <1>4, <1>5, <2>1, AppliedType
<1>9. Typed'
  BY <1>1, <1>2, <1>6, <1>8 DEF Typed
<1>10. OpeningInv'
  <2>1. ~IsAnswer(inbox[1])
    BY <1>2, <1>6 DEF IsAnswer
  <2>2. (\E j \in DOMAIN Tail(inbox) : IsAnswer(Tail(inbox)[j])) <=> \E j \in DOMAIN inbox : IsAnswer(inbox[j])
    BY <1>6, <2>1
  <2>3. \A j \in DOMAIN Tail(inbox) : IsAnswer(Tail(inbox)[j]) =>
           Len(read) <= Len(Tail(inbox)[j].turns) /\ AllFinishedOK(read, Known(H, Tail(inbox), j))
    BY <1>1, <1>6 DEF OpeningInv, H
  <2> QED
    BY <1>1, <1>2, <1>3, <2>2, <2>3 DEF OpeningInv, H
<1>11. AllFinishedOK(view', L)
  <2>1. CASE shown
    <3>1. AllFinishedOK(view, K)
      BY <1>1 DEF PageInv, K, H
    <3> QED
      BY <1>2, <1>4, <1>5, <2>1, <3>1, AppliedFinished
  <2>2. CASE ~shown
    BY <1>1, <1>2, <2>2 DEF PageInv, AllFinishedOK
  <2> QED
    BY <2>1, <2>2
<1>12. shown /\ ~gap => synced
  BY <1>1, <1>2, <1>6 DEF PageInv, InboxInv, IsAnswer
<1>13. ASSUME synced, ~gap
       PROVE  Shows(view', L) /\ HasAllDone(view', L, whole) /\ AllWhole(view', H)
  <2>1. Shows(view, K) /\ HasAllDone(view, K, whole) /\ shown
    BY <1>1, <1>13 DEF PageInv, K, H
  <2>2. Shows(Applied(m), L) /\ HasAllDone(Applied(m), L, whole)
    BY <1>4, <1>5, <2>1, AppliedShows DEF e
  <2>3. AllWhole(Applied(m), H)
    BY <1>4, <1>8, <2>2, ShownWhole
  <2> QED
    BY <1>2, <2>1, <2>2, <2>3
<1>14. PageInv'
  BY <1>1, <1>2, <1>3, <1>6, <1>11, <1>12, <1>13 DEF PageInv, H
<1> QED
  BY <1>7, <1>9, <1>10, <1>14 DEF TranscriptInv

\* Showing the thread as thread/resume or thread/read has it keeps the invariant.
LEMMA ResumeAnsweredKeeps ==
    ASSUME TranscriptInv, ResumeAnswered
    PROVE  TranscriptInv'
<1> DEFINE H == Happened
           L == Known(H, inbox, 1)
           m == Head(inbox)
           whole == dialect.turnItems
<1>1. Typed /\ InboxInv /\ OpeningInv /\ PageInv
  BY DEF TranscriptInv
<1>2. /\ inbox # <<>> /\ m.kind = "resumed" /\ inbox' = Tail(inbox)
      /\ view' = NextThread(m.turns) /\ shown' /\ synced' /\ shown' = TRUE /\ synced' = TRUE
      /\ gap' = (~dialect.resumeTurns /\ read # m.turns)
      /\ opening' = "no" /\ read' = <<>>
      /\ UNCHANGED <<serverVars, linkVars>>
      /\ UNCHANGED <<log, turn, live, dialect, subscribed, connected>>
  BY DEF ResumeAnswered, serverVars, linkVars
<1>3. Happened' = H
  BY <1>2 DEF Happened
<1>4. Before(L, H) /\ MessageOK(m, L, whole) /\ m \in Answers
  BY <1>1, <1>2, KnownOfHead
<1>5. inbox \in Seq(Notes \cup Answers) /\ read \in Seq(Turns) /\ m.turns \in Seq(Turns)
  BY <1>1, <1>4 DEF Typed, Answers
<1>6. /\ 1 \in DOMAIN inbox /\ m = inbox[1] /\ Tail(inbox) \in Seq(Notes \cup Answers)
      /\ \A j \in DOMAIN Tail(inbox) :
            /\ j + 1 \in DOMAIN inbox /\ Tail(inbox)[j] = inbox[j + 1] /\ j \in Nat
            /\ Known(H, Tail(inbox), j) = Known(H, inbox, j + 1)
      /\ \A j \in DOMAIN inbox : j # 1 => j - 1 \in DOMAIN Tail(inbox) /\ Tail(inbox)[j - 1] = inbox[j]
      /\ Known(H, Tail(inbox), 0) = L
  <2>1. inbox # <<>> /\ inbox \in Seq(Notes \cup Answers)
    BY <1>2, <1>5
  <2> HIDE DEF H
  <2> QED
    BY <2>1, AfterHead DEF m, L
<1>7. InboxInv'
  BY <1>2, HeadHandled
<1>8. Len(read) <= Len(m.turns) /\ AllFinishedOK(read, L)
  BY <1>1, <1>2, <1>6 DEF OpeningInv, IsAnswer
<1> HIDE DEF H, L, m
<1>9. Shows(m.turns, L) /\ \A u \in DOMAIN m.turns : HasDone(m.turns[u].items, u, L)
  BY <1>2, <1>4 DEF MessageOK
<1>10. view' \in {m.turns, read}
  BY <1>2 DEF NextThread
<1>11. ~gap' => view' = m.turns
  <2>1. m.turns = <<>> => read = <<>>
    BY <1>5, <1>8
  <2> QED
    BY <1>2, <2>1 DEF NextThread
<1>12. Typed'
  <2>1. <<>> \in Seq(Turns) /\ view' \in Seq(Turns) /\ gap' \in BOOLEAN
    BY <1>2, <1>5, <1>10
  <2> QED
    BY <1>1, <1>2, <1>6, <2>1 DEF Typed
<1>13. OpeningInv'
  <2>1. \A j \in DOMAIN Tail(inbox) : ~IsAnswer(Tail(inbox)[j])
    <3> SUFFICES ASSUME NEW j \in DOMAIN Tail(inbox), IsAnswer(Tail(inbox)[j]) PROVE FALSE
      OBVIOUS
    <3>1. j + 1 \in DOMAIN inbox /\ IsAnswer(inbox[j + 1]) /\ j \in Nat
      BY <1>6
    <3>2. 1 \in DOMAIN inbox /\ IsAnswer(inbox[1])
      BY <1>2, <1>6 DEF IsAnswer
    <3>3. j + 1 = 1
      BY <1>1, <3>1, <3>2 DEF InboxInv, QueueOK
    <3>4. Tail(inbox) \in Seq(Notes \cup Answers)
      BY <1>6
    <3>5. j # 0
      BY <3>4
    <3> QED
      BY <3>1, <3>3, <3>5
  <2> QED
    BY <1>2, <2>1 DEF OpeningInv
<1>14. AllFinishedOK(view', L)
  BY <1>5, <1>8, <1>9, <1>10, ShowsFinished
<1>15. HasAllDone(m.turns, L, whole)
  BY <1>9 DEF HasAllDone
<1>16. AllWhole(m.turns, H)
  BY <1>4, <1>5, <1>9, ShownWhole
<1>17. subscribed'
  BY <1>1, <1>2 DEF InboxInv
<1>18. PageInv'
  BY <1>2, <1>3, <1>6, <1>9, <1>11, <1>14, <1>15, <1>16, <1>17 DEF PageInv, H
<1> QED
  BY <1>7, <1>12, <1>13, <1>18 DEF TranscriptInv

\* Beginning to open the thread keeps the invariant.
LEMMA OpenThreadKeeps ==
    ASSUME TranscriptInv, OpenThread
    PROVE  TranscriptInv'
<1>1. Typed /\ InboxInv /\ OpeningInv /\ PageInv
  BY DEF TranscriptInv
<1>2. /\ connected /\ opening = "no" /\ opening' = "read"
      /\ UNCHANGED <<log, turn, live, dialect, subscribed, inbox, connected, read, shown, view, synced, gap>>
  BY DEF OpenThread, serverVars, linkVars, pageVars
<1>3. Happened' = Happened
  BY <1>2 DEF Happened
<1>4. Typed'
  BY <1>1, <1>2 DEF Typed
<1>5. InboxInv'
  BY <1>1, <1>2, <1>3 DEF InboxInv
<1>6. OpeningInv'
  BY <1>1, <1>2, <1>3 DEF OpeningInv
<1>7. PageInv'
  BY <1>1, <1>2, <1>3 DEF PageInv
<1> QED
  BY <1>4, <1>5, <1>6, <1>7 DEF TranscriptInv

\* The answer of thread/read keeps the invariant.
LEMMA ReadAnsweredKeeps ==
    ASSUME TranscriptInv, ReadAnswered
    PROVE  TranscriptInv'
<1>1. Typed /\ InboxInv /\ OpeningInv /\ PageInv
  BY DEF TranscriptInv
<1>2. /\ opening = "read" /\ opening' = "resume" /\ read' = Snapshot
      /\ UNCHANGED <<log, turn, live, dialect, subscribed, inbox, connected, shown, view, synced, gap>>
  BY DEF ReadAnswered, serverVars, linkVars, pageVars
<1>3. Happened' = Happened
  BY <1>2 DEF Happened
<1>4. Snapshot \in Seq(Turns) /\ Len(Snapshot) = turn /\ AllFinishedOK(Snapshot, Happened) /\ turn \in Nat
  BY <1>1, SnapshotIs DEF Typed
<1> DEFINE s == Snapshot
           H == Happened
<1>5. read' = s /\ s \in Seq(Turns) /\ Len(s) <= turn /\ AllFinishedOK(s, H) /\ Happened' = H
  BY <1>2, <1>3, <1>4
<1> HIDE DEF s, H
<1>6. Typed'
  BY <1>1, <1>2, <1>5 DEF Typed
<1>7. InboxInv'
  BY <1>1, <1>2, <1>3 DEF InboxInv
<1>8. OpeningInv'
  BY <1>1, <1>2, <1>5 DEF OpeningInv
<1>9. PageInv'
  BY <1>1, <1>2, <1>3 DEF PageInv
<1> QED
  BY <1>6, <1>7, <1>8, <1>9 DEF TranscriptInv

\* What is under way without the answer of thread/resume.
LEMMA AnswerDropped ==
    ASSUME TranscriptInv, inbox' = WithoutAnswer, UNCHANGED <<serverVars, linkVars>>,
           opening' = "no", read' = <<>>
    PROVE  /\ inbox' \in Seq(Notes \cup Answers) /\ InboxInv' /\ OpeningInv'
           /\ Happened' = Happened
           /\ Known(Happened, inbox', 0) = Known(Happened, inbox, 0)
<1>1. Typed /\ InboxInv
  BY DEF TranscriptInv
<1>2. UNCHANGED <<log, turn, live, dialect, subscribed, connected>>
  BY DEF serverVars, linkVars
<1>3. Happened' = Happened
  BY <1>2 DEF Happened
<1> DEFINE r == WithoutAnswer
<1>4. /\ inbox \in Seq(Notes \cup Answers) /\ QueueOK(inbox, Happened, dialect.turnItems)
      /\ Nothing \notin Happened
  BY <1>1, HappenedHas DEF Typed, InboxInv, Happened
<1>5. r = Keep(inbox, {m \in Range(inbox) : m.kind # "resumed"})
  BY DEF WithoutAnswer
<1> HIDE DEF r
<1>6. /\ QueueOK(r, Happened, dialect.turnItems) /\ r \in Seq(Notes \cup Answers)
      /\ Known(Happened, r, 0) = Known(Happened, inbox, 0)
      /\ \A k \in DOMAIN r : ~IsAnswer(r[k])
      /\ r # <<>> => inbox # <<>>
  BY <1>4, <1>5, QueueKeep
<1>7. inbox' = r
  BY DEF r
<1>8. InboxInv'
  BY <1>1, <1>2, <1>3, <1>6, <1>7 DEF InboxInv
<1>9. OpeningInv'
  BY <1>6, <1>7 DEF OpeningInv
<1> QED
  BY <1>3, <1>6, <1>7, <1>8, <1>9

\* Failing to open the thread keeps the invariant.
LEMMA OpenFailsKeeps ==
    ASSUME TranscriptInv, OpenFails
    PROVE  TranscriptInv'
<1>1. Typed /\ InboxInv /\ OpeningInv /\ PageInv
  BY DEF TranscriptInv
<1>2. /\ inbox' = WithoutAnswer /\ UNCHANGED <<serverVars, linkVars>> /\ opening' = "no" /\ read' = <<>>
      /\ gap' = (gap \/ (opening = "served" /\ ~synced))
      /\ UNCHANGED <<log, turn, live, dialect, subscribed, connected, shown, view, synced>>
  BY DEF OpenFails, serverVars, linkVars
<1>3. /\ inbox' \in Seq(Notes \cup Answers) /\ InboxInv' /\ OpeningInv'
      /\ Happened' = Happened
      /\ Known(Happened, inbox', 0) = Known(Happened, inbox, 0)
  BY <1>2, AnswerDropped
<1>4. Typed'
  <2>1. <<>> \in Seq(Turns) /\ gap' \in BOOLEAN
    BY <1>2
  <2> QED
    BY <1>1, <1>2, <1>3, <2>1 DEF Typed
<1>5. ASSUME shown, ~gap', ~synced, subscribed PROVE FALSE
  <2>1. ~gap /\ opening # "served"
    BY <1>1, <1>2, <1>5 DEF Typed
  <2>2. inbox # <<>> /\ IsAnswer(inbox[1]) /\ inbox \in Seq(Notes \cup Answers)
    BY <1>1, <1>5, <2>1 DEF PageInv, Typed
  <2>3. 1 \in DOMAIN inbox
    BY <2>2
  <2> QED
    BY <1>1, <2>1, <2>2, <2>3 DEF OpeningInv
<1>6. gap => gap'
  BY <1>1, <1>2 DEF Typed
<1>7. PageInv'
  BY <1>1, <1>2, <1>3, <1>5, <1>6 DEF PageInv
<1> QED
  BY <1>3, <1>4, <1>7 DEF TranscriptInv

\* Going to another thread keeps the invariant.
LEMMA LeaveKeeps ==
    ASSUME TranscriptInv, Leave
    PROVE  TranscriptInv'
<1>1. Typed /\ InboxInv /\ OpeningInv /\ PageInv
  BY DEF TranscriptInv
<1>2. /\ inbox' = WithoutAnswer /\ UNCHANGED <<serverVars, linkVars>> /\ opening' = "no" /\ read' = <<>>
      /\ shown' = FALSE /\ view' = <<>> /\ synced' = FALSE /\ gap' = FALSE
      /\ UNCHANGED <<log, turn, live, dialect, subscribed, connected>>
  BY DEF Leave, serverVars, linkVars
<1>3. inbox' \in Seq(Notes \cup Answers) /\ InboxInv' /\ OpeningInv'
  BY <1>2, AnswerDropped
<1>4. Typed'
  <2>1. <<>> \in Seq(Turns)
    OBVIOUS
  <2> QED
    BY <1>1, <1>2, <1>3, <2>1 DEF Typed
<1>5. PageInv'
  BY <1>2 DEF PageInv, AllFinishedOK
<1> QED
  BY <1>3, <1>4, <1>5 DEF TranscriptInv

\* The loss of the connection keeps the invariant: what is shown has no holes,
\* and what is complete in it remains so.
LEMMA LostKeeps ==
    ASSUME TranscriptInv, Lost
    PROVE  TranscriptInv'
<1>1. Typed /\ InboxInv /\ OpeningInv /\ PageInv
  BY DEF TranscriptInv
<1>2. /\ connected' = FALSE /\ inbox' = <<>> /\ subscribed' = FALSE /\ opening' = "no" /\ read' = <<>>
      /\ synced' = FALSE /\ UNCHANGED <<log, turn, live, dialect, shown, view, gap>>
  BY DEF Lost
<1>3. Happened' = Happened
  BY <1>2 DEF Happened
<1> DEFINE H == Happened
<1>4. Causal(H) /\ Before(Known(H, inbox, 0), H) /\ view \in Seq(Turns)
  <2>1. 0 \in 0..Len(inbox)
    BY <1>1 DEF Typed
  <2> QED
    BY <1>1, <2>1 DEF InboxInv, QueueOK, Typed
<1>5. AllFinishedOK(view, H)
  <2> HIDE DEF H
  <2>1. AllFinishedOK(view, Known(H, inbox, 0))
    BY <1>1 DEF PageInv, H
  <2> QED
    BY <1>4, <2>1, FinishedStays
<1>6. Known(H, <<>>, 0) = H
  BY DEF Known, UnderWay
<1> HIDE DEF H
<1>7. Happened = H
  BY DEF H
<1>8. Typed'
  <2>1. <<>> \in Seq(Turns) /\ <<>> \in Seq(Notes \cup Answers)
    OBVIOUS
  <2> QED
    BY <1>1, <1>2, <2>1 DEF Typed
<1>9. InboxInv'
  BY <1>2, <1>3, <1>4, <1>7, QueueEmpty DEF InboxInv
<1>10. OpeningInv'
  BY <1>2 DEF OpeningInv
<1>11. PageInv'
  BY <1>1, <1>2, <1>3, <1>5, <1>6, <1>7 DEF PageInv
<1> QED
  BY <1>8, <1>9, <1>10, <1>11 DEF TranscriptInv

\* A new connection keeps the invariant.
LEMMA ReadyKeeps ==
    ASSUME TranscriptInv, Ready
    PROVE  TranscriptInv'
<1>1. Typed /\ InboxInv /\ OpeningInv /\ PageInv
  BY DEF TranscriptInv
<1>2. /\ ~connected /\ connected' = TRUE /\ opening' \in {"no", "read"}
      /\ UNCHANGED <<log, turn, live, dialect, subscribed, inbox, read, shown, view, synced, gap>>
  BY DEF Ready, serverVars, pageVars
<1>3. Happened' = Happened
  BY <1>2 DEF Happened
<1>4. inbox = <<>>
  BY <1>1, <1>2 DEF InboxInv
<1>5. Typed'
  BY <1>1, <1>2 DEF Typed
<1>6. InboxInv'
  BY <1>1, <1>2, <1>3 DEF InboxInv
<1>7. OpeningInv'
  BY <1>2, <1>4 DEF OpeningInv
<1>8. PageInv'
  BY <1>1, <1>2, <1>3 DEF PageInv
<1> QED
  BY <1>5, <1>6, <1>7, <1>8 DEF TranscriptInv

\* A step that changes nothing keeps the invariant.
LEMMA StutterKeeps ==
    ASSUME TranscriptInv, UNCHANGED vars
    PROVE  TranscriptInv'
<1>1. Typed /\ InboxInv /\ OpeningInv /\ PageInv
  BY DEF TranscriptInv
<1>2. UNCHANGED <<log, turn, live, dialect, subscribed, inbox, connected, opening, read, shown, view, synced, gap>>
  BY DEF vars, serverVars, linkVars, openVars, pageVars
<1>3. Happened' = Happened
  BY <1>2 DEF Happened
<1>4. Typed'
  BY <1>1, <1>2 DEF Typed
<1>5. InboxInv'
  BY <1>1, <1>2, <1>3 DEF InboxInv
<1>6. OpeningInv'
  BY <1>1, <1>2, <1>3 DEF OpeningInv
<1>7. PageInv'
  BY <1>1, <1>2, <1>3 DEF PageInv
<1> QED
  BY <1>4, <1>5, <1>6, <1>7 DEF TranscriptInv

\* The invariant is inductive.
LEMMA StepInv ==
    ASSUME TranscriptInv, [Next]_vars
    PROVE  TranscriptInv'
<1>1. CASE TurnStarts
  BY <1>1, TurnStartsKeeps
<1>2. CASE TurnEnds
  BY <1>2, TurnEndsKeeps
<1>3. CASE ItemStarts
  BY <1>3, ItemStartsKeeps
<1>4. CASE ServeResume
  BY <1>4, ServeResumeKeeps
<1>5. CASE \E i \in DOMAIN log : ItemWrites(i) \/ ItemPatched(i)
  BY <1>5, ItemWritesKeeps
<1>6. CASE \E i \in DOMAIN log : ItemCompletes(i)
  BY <1>6, ItemCompletesKeeps
<1>7. CASE HandleNotification
  BY <1>7, HandleNotificationKeeps
<1>8. CASE OpenThread
  BY <1>8, OpenThreadKeeps
<1>9. CASE ReadAnswered
  BY <1>9, ReadAnsweredKeeps
<1>10. CASE ResumeAnswered
  BY <1>10, ResumeAnsweredKeeps
<1>11. CASE OpenFails
  BY <1>11, OpenFailsKeeps
<1>12. CASE Leave
  BY <1>12, LeaveKeeps
<1>13. CASE Lost
  BY <1>13, LostKeeps
<1>14. CASE Ready
  BY <1>14, ReadyKeeps
<1>15. CASE UNCHANGED vars
  BY <1>15, StutterKeeps
<1> QED
  BY <1>1, <1>2, <1>3, <1>4, <1>5, <1>6, <1>7, <1>8, <1>9, <1>10, <1>11, <1>12, <1>13, <1>14, <1>15
     DEF Next, Server, Page

\* At all times what is under way is what the page does not know yet, message
\* by message, and a page in step with the server shows what it knows.
THEOREM TranscriptCorrect == Spec => []TranscriptInv
<1>1. Init => TranscriptInv
  BY InitInv
<1>2. TranscriptInv /\ [Next]_vars => TranscriptInv'
  BY StepInv
<1> QED
  BY <1>1, <1>2, PTL DEF Spec

-----------------------------------------------------------------------------
(* What the page promises.                                                  *)

\* A text without holes, of what the server has written so far, is a stretch
\* of it or the whole text of a completed item.
LEMMA WholeIsStretch ==
    ASSUME Typed, NEW item \in Items, NEW u, Whole(item, u, Happened)
    PROVE  item.id \in DOMAIN log /\ log[item.id].turn = u /\ IsStretch(item.text, item.id)
<1> DEFINE i == item.id
           t == item.text
           H == Happened
           n == log[i].len
<1>1. Has(H, log, turn, live)
  BY HappenedHas DEF Happened
<1> HIDE DEF H
<1>2. i \in DOMAIN log /\ log[i].turn = u
  BY <1>1 DEF Whole, Has, H
<1>3. /\ Written(i) = IF log[i].done THEN Full(n) ELSE Stretch(1, n)
      /\ n \in Nat
  BY <1>2, WrittenIs
<1>4. ASSUME ItemDone(i, u) \in H, NEW b \in Nat, Count(H, i, b), t = Full(b)
      PROVE  IsStretch(t, i)
  <2>1. log[i].done
    BY <1>1, <1>4 DEF Has
  <2>2. Count(H, i, n)
    BY <1>1, <1>2 DEF Has, Count
  <2> HIDE DEF n
  <2>3. b = n
    BY <1>3, <1>4, <2>2, CountUnique
  <2> HIDE DEF i, t
  <2> QED
    BY <1>3, <1>4, <2>1, <2>3 DEF IsStretch
<1>5. ASSUME NEW b \in Nat, NEW a \in 1..(b + 1), t = Stretch(a, b), \A k \in 1..b : Wrote(i, k) \in H
      PROVE  IsStretch(t, i)
  <2>1. b <= n
    <3>1. b # 0 => b \in 1..b
      OBVIOUS
    <3>2. b # 0 => Wrote(i, b) \in H
      BY <1>5, <3>1
    <3>3. b # 0 => b \in 1..n
      BY <1>1, <3>2 DEF Has
    <3> HIDE DEF n
    <3> QED
      BY <1>3, <3>3
  <2>2. Len(t) = b + 1 - a
    BY <1>5, StretchText
  <2> HIDE DEF n
  <2>3. a \in 1..(n + 1) /\ a + Len(t) <= n + 1
    BY <1>3, <2>1, <2>2
  <2>4. t = [k \in 1..Len(t) |-> a + k - 1]
    BY <1>5, <2>2 DEF Stretch
  <2> HIDE DEF i, t
  <2> QED
    BY <2>3, <2>4 DEF IsStretch, n
<1> QED
  BY <1>2, <1>4, <1>5 DEF Whole, H

\* The invariant gives NoHoles.
LEMMA InvNoHoles ==
    ASSUME TranscriptInv
    PROVE  NoHoles
<1> SUFFICES ASSUME shown, ~gap, NEW k \in DOMAIN view, NEW j \in DOMAIN view[k].items
             PROVE  LET item == view[k].items[j]
                    IN  /\ item.id \in DOMAIN log /\ log[item.id].turn = view[k].id
                        /\ IsStretch(item.text, item.id)
  BY DEF NoHoles
<1>1. Typed /\ view \in Seq(Turns) /\ AllWhole(view, Happened)
  BY DEF TranscriptInv, Typed, PageInv
<1>2. view[k] \in Turns
  BY <1>1
<1>3. view[k].items[j] \in Items
  BY <1>2 DEF Turns
<1>4. Whole(view[k].items[j], view[k].id, Happened)
  BY <1>1 DEF AllWhole
<1> QED
  BY <1>1, <1>3, <1>4, WholeIsStretch

\* The invariant gives Converges: with nothing under way all is known.
LEMMA InvConverges ==
    ASSUME TranscriptInv
    PROVE  Converges
<1> SUFFICES ASSUME synced, ~gap, inbox = <<>>
             PROVE  /\ [k \in DOMAIN view |-> view[k].id] = [u \in 1..turn |-> u]
                    /\ \A i \in DOMAIN log :
                          log[i].done /\ (dialect.turnItems \/ (live /\ log[i].turn = turn)) =>
                              FindItem(log[i].turn, i) = <<Item(i)>>
  BY DEF Converges
<1> DEFINE H == Happened
<1>1. Typed /\ view \in Seq(Turns) /\ turn \in Nat
  BY DEF TranscriptInv, Typed
<1>2. Known(H, <<>>, 0) = H
  BY DEF Known, UnderWay
<1>3. Has(H, log, turn, live)
  BY HappenedHas DEF Happened
<1>4. Shows(view, H) /\ HasAllDone(view, H, dialect.turnItems)
  BY <1>2 DEF TranscriptInv, PageInv
<1> HIDE DEF H
<1>5. DOMAIN view = 1..turn
  <2>1. \A u \in Nat : u \in 1..turn <=> u \in DOMAIN view
    BY <1>3, <1>4 DEF Has, Shows
  <2>2. DOMAIN view \subseteq Nat
    BY <1>1
  <2> QED
    BY <1>1, <2>1, <2>2
<1>6. \A u \in DOMAIN view : view[u].id = u /\ ItemsOK(view[u].items, u, H)
  BY <1>4 DEF Shows
<1>7. [k \in DOMAIN view |-> view[k].id] = [u \in 1..turn |-> u]
  BY <1>5, <1>6
<1>8. ASSUME NEW i \in DOMAIN log, log[i].done, dialect.turnItems \/ (live /\ log[i].turn = turn)
      PROVE  FindItem(log[i].turn, i) = <<Item(i)>>
  <2> DEFINE u == log[i].turn
             items == ItemsShown(u)
  <2>1. TurnBegun(u) \in H
    <3>1. ItemBegun(i, u) \in H /\ i \in Nat /\ u \in Nat
      <4>1. log[i] \in Entries(turn) /\ i \in Nat
        BY <1>1 DEF Typed, Logs
      <4> QED
        BY <1>1, <1>3, <4>1 DEF Has, Entries
    <3>2. Causal(H)
      BY <1>1, HappenedCausal DEF H, Happened, Typed
    <3> QED
      BY <3>1, <3>2 DEF Causal
  <2>2. u \in DOMAIN view
    BY <1>3, <1>5, <2>1 DEF Has
  <2>3. items = view[u].items /\ items \in Seq(Items)
    BY <1>1, <1>6, <2>2, ItemsShownAre
  <2>4. ItemDone(i, u) \in H
    BY <1>3, <1>8 DEF Has
  <2>5. dialect.turnItems \/ TurnOver(u) \notin H
    BY <1>3, <1>8 DEF Has
  <2>6. HasDone(items, u, H) /\ ItemsOK(items, u, H)
    BY <1>4, <1>6, <2>2, <2>3, <2>5 DEF HasAllDone
  <2>7. Item(i) \in Items /\ Item(i).id = i /\ ItemOK(Item(i), u, H) /\ i \in Nat
    <3>1. i \in Nat
      BY <1>1 DEF Typed, Logs
    <3> QED
      BY <1>1, <3>1, ItemItself DEF H
  <2> HIDE DEF u, items
  <2>8. PICK p \in DOMAIN items : items[p].id = i
    BY <2>4, <2>6, <2>7 DEF HasDone
  <2>9. items[p] \in Items /\ ItemOK(items[p], u, H)
    BY <2>3, <2>6 DEF ItemsOK
  <2>10. items[p] = Item(i)
    BY <2>4, <2>7, <2>8, <2>9, SameItem
  <2>11. FindItem(u, i) = <<items[p]>>
    <3>1. Distinct(ItemsShown(u)) /\ p \in DOMAIN ItemsShown(u) /\ ItemsShown(u)[p].id = i
      BY <2>6, <2>8 DEF ItemsOK, items
    <3>2. FindItem(u, i) = <<ItemsShown(u)[p]>>
      BY <1>1, <3>1, FindItemFinds
    <3> QED
      BY <3>2 DEF items
  <2> QED
    BY <2>10, <2>11 DEF u
<1> QED
  BY <1>7, <1>8

\* The completed items of v, each with the turn it is shown in.
LEMMA FinishedAre ==
    ASSUME NEW v \in Seq(Turns)
    PROVE  \A z : z \in Finished(v) <=>
              \E k \in DOMAIN v : \E p \in DOMAIN v[k].items :
                 Over(v[k].items[p].text) /\ z = <<v[k].id, v[k].items[p]>>
<1>1. \A k \in DOMAIN v : \A item :
         item \in Complete(v[k].items) <=> \E p \in DOMAIN v[k].items : Over(item.text) /\ item = v[k].items[p]
  BY DEF Complete, Range, Over
<1>2. \A z : z \in Finished(v) <=> \E k \in DOMAIN v : \E item \in Complete(v[k].items) : z = <<v[k].id, item>>
  BY DEF Finished
<1> SUFFICES ASSUME NEW z
             PROVE  z \in Finished(v) <=>
                       \E k \in DOMAIN v : \E p \in DOMAIN v[k].items :
                          Over(v[k].items[p].text) /\ z = <<v[k].id, v[k].items[p]>>
  OBVIOUS
<1>3. ASSUME z \in Finished(v)
      PROVE  \E k \in DOMAIN v : \E p \in DOMAIN v[k].items :
                Over(v[k].items[p].text) /\ z = <<v[k].id, v[k].items[p]>>
  <2>1. PICK k \in DOMAIN v : \E item \in Complete(v[k].items) : z = <<v[k].id, item>>
    BY <1>2, <1>3
  <2>2. PICK item \in Complete(v[k].items) : z = <<v[k].id, item>>
    BY <2>1
  <2>3. PICK p \in DOMAIN v[k].items : Over(item.text) /\ item = v[k].items[p]
    BY <1>1
  <2> QED
    BY <2>2, <2>3
<1>4. ASSUME NEW k \in DOMAIN v, NEW p \in DOMAIN v[k].items,
             Over(v[k].items[p].text), z = <<v[k].id, v[k].items[p]>>
      PROVE  z \in Finished(v)
  BY <1>1, <1>2, <1>4
<1> QED
  BY <1>3, <1>4

\* Handling the first message leaves each completed item where it is.
LEMMA HandledFinished ==
    ASSUME TranscriptInv, TranscriptInv', inbox # <<>>, inbox' = Tail(inbox),
           UNCHANGED serverVars, synced', ~gap', dialect.turnItems
    PROVE  Finished(view) \subseteq Finished(view')
<1> DEFINE H == Happened
           K == Known(H, inbox, 0)
           L == Known(H, inbox, 1)
           w == view'
<1>1. Typed /\ InboxInv /\ PageInv /\ Typed' /\ PageInv'
  BY DEF TranscriptInv
<1>2. UNCHANGED <<log, turn, live, dialect>>
  BY DEF serverVars
<1>3. Happened' = H
  BY <1>2 DEF Happened
<1>4. Before(K, L) /\ Causal(L)
  BY <1>1, KnownOfHead
<1>5. Known(H, Tail(inbox), 0) = L
  <2>1. inbox \in Seq(Notes \cup Answers)
    BY <1>1 DEF Typed
  <2> HIDE DEF H
  <2> QED
    BY <2>1, AfterHead DEF L
<1>6. AllFinishedOK(view, K) /\ view \in Seq(Turns) /\ w \in Seq(Turns)
  BY <1>1 DEF PageInv, Typed
<1>7. Shows(w, L) /\ HasAllDone(w, L, TRUE)
  <2> HIDE DEF H, L, w
  <2>1. /\ Shows(view', Known(Happened', inbox', 0))
        /\ HasAllDone(view', Known(Happened', inbox', 0), dialect'.turnItems)
    BY <1>1 DEF PageInv
  <2>2. Known(Happened', inbox', 0) = L
    BY <1>3, <1>5
  <2>3. Shows(w, L) /\ HasAllDone(w, L, dialect'.turnItems)
    BY <2>1, <2>2 DEF w
  <2> QED
    BY <1>2, <2>3 DEF HasAllDone
<1> HIDE DEF H, K, L, w
<1>8. AllFinishedOK(view, L)
  BY <1>4, <1>6, FinishedStays
<1>9. ASSUME NEW z \in Finished(view) PROVE z \in Finished(w)
  <2>1. PICK k \in DOMAIN view : \E p \in DOMAIN view[k].items :
                 Over(view[k].items[p].text) /\ z = <<view[k].id, view[k].items[p]>>
    BY <1>6, <1>9, FinishedAre
  <2>2. PICK p \in DOMAIN view[k].items :
                 Over(view[k].items[p].text) /\ z = <<view[k].id, view[k].items[p]>>
    BY <2>1
  <2> DEFINE item == view[k].items[p]
             u == view[k].id
  <2>3. view[k] \in Turns
    BY <1>6
  <2>4. u \in Nat /\ item \in Items /\ item.id \in Nat
    <3>1. u \in Nat /\ item \in Items
      BY <2>3 DEF Turns
    <3> HIDE DEF item
    <3> QED
      BY <3>1 DEF Items
  <2>5. ItemOK(item, u, L) /\ ItemDone(item.id, u) \in L
    BY <1>8, <2>2 DEF AllFinishedOK, FinishedOK
  <2>6. Over(item.text) /\ z = <<u, item>>
    BY <2>2
  <2> HIDE DEF item, u
  <2>7. u \in DOMAIN w
    BY <1>4, <1>7, <2>4, <2>5 DEF Causal, Shows
  <2>8. w[u].id = u /\ ItemsOK(w[u].items, u, L) /\ HasDone(w[u].items, u, L)
    BY <1>7, <2>7 DEF Shows, HasAllDone
  <2>9. PICK r \in DOMAIN w[u].items : w[u].items[r].id = item.id
    BY <2>4, <2>5, <2>8 DEF HasDone
  <2>10. w[u].items[r] \in Items
    <3>1. w[u] \in Turns
      BY <1>6, <2>7
    <3> QED
      BY <3>1 DEF Turns
  <2>11. w[u].items[r] = item
    <3>1. ItemOK(w[u].items[r], u, L)
      BY <2>8 DEF ItemsOK
    <3> QED
      BY <2>4, <2>5, <2>9, <2>10, <3>1, SameItem
  <2> QED
    BY <1>6, <2>6, <2>7, <2>8, <2>11, FinishedAre
<1> QED
  BY <1>9 DEF w

\* A step leaves each completed item where it is shown, complete, as long as
\* the page stays on the thread and connected.
LEMMA StepFinished ==
    ASSUME TranscriptInv, TranscriptInv', [Next]_vars, synced, synced', ~gap', dialect.turnItems
    PROVE  Finished(view) \subseteq Finished(view')
<1>1. CASE view' = view
  BY <1>1
<1>2. CASE HandleNotification
  BY <1>2, HandledFinished DEF HandleNotification
<1>3. CASE ResumeAnswered
  BY <1>3, HandledFinished DEF ResumeAnswered
<1>4. CASE Leave \/ Lost
  BY <1>4 DEF Leave, Lost
<1>5. ASSUME ~HandleNotification, ~ResumeAnswered, ~Leave, ~Lost PROVE view' = view
  <2>1. CASE Server
    BY <2>1 DEF Server, TurnStarts, TurnEnds, ItemStarts, ServeResume, ItemWrites, ItemPatched,
                ItemCompletes, Tell, pageVars
  <2>2. CASE Page
    BY <1>5, <2>2 DEF Page, OpenThread, ReadAnswered, OpenFails, Ready, pageVars
  <2>3. CASE UNCHANGED vars
    BY <2>3 DEF vars, pageVars
  <2> QED
    BY <2>1, <2>2, <2>3 DEF Next
<1> QED
  BY <1>1, <1>2, <1>3, <1>4, <1>5

\* useCodexSession.ts, appendItemString and appendIndexedString: at all times
\* each text shown is a stretch of what the server wrote, with no delta left
\* out, repeated or out of order, or the completed text.
THEOREM ShownWithoutHoles == Spec => []NoHoles
<1>1. TranscriptInv => NoHoles
  BY InvNoHoles
<1> QED
  BY <1>1, TranscriptCorrect, PTL

\* With all that was sent handled, the page shows the turns of the thread in
\* order and each completed item once, with its final text.
THEOREM PageConverges == Spec => []Converges
<1>1. TranscriptInv => Converges
  BY InvConverges
<1> QED
  BY <1>1, TranscriptCorrect, PTL

\* useCodexSession.ts, mergeLifecycleItem and upsertTurn: while the page stays
\* on the thread and connected, no step shortens, rewrites, moves or drops a
\* completed item it shows.
THEOREM FinishedStay == Spec => FinishedItemsStay
<1> DEFINE A == synced /\ synced' /\ ~gap' /\ dialect.turnItems => Finished(view) \subseteq Finished(view')
<1>1. TranscriptInv /\ TranscriptInv' /\ [Next]_vars => A
  BY StepFinished
<1>2. TranscriptInv /\ TranscriptInv' /\ [Next]_vars => [A]_vars
  BY <1>1
<1> QED
  BY <1>2, TranscriptCorrect, PTL DEF Spec, FinishedItemsStay
=============================================================================
