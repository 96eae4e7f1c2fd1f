----------------------------- MODULE RelayProofs -----------------------------
(***************************************************************************)
(* Proofs about Relay, for every number of frames and every capacity of    *)
(* the sockets.                                                            *)
(***************************************************************************)
EXTENDS Relay, ListProofs

USE RelayAssumption DEF RelayAssumption

-----------------------------------------------------------------------------
(* Sides, buffers and sequences of frames.                                  *)

\* There are two sides.
LEMMA TwoSides ==
    ASSUME NEW s \in Sides
    PROVE  /\ Other(s) \in Sides /\ Other(Other(s)) = s /\ Other(s) # s
           /\ \A t \in Sides : t = s \/ t = Other(s)
BY DEF Sides, Other

\* A buffer is a sequence of at most Capacity frames.
LEMMA BufferIsSeq ==
    ASSUME NEW q
    PROVE  q \in Buffers <=> q \in Seq(Frames) /\ Len(q) <= Capacity
<1>1. ASSUME q \in Buffers PROVE q \in Seq(Frames) /\ Len(q) <= Capacity
  <2>1. PICK n \in 0..Capacity : q \in [1..n -> Frames]
    BY <1>1 DEF Buffers
  <2>2. n \in Nat /\ n <= Capacity
    OBVIOUS
  <2>3. q \in Seq(Frames)
    BY <2>1, <2>2, SeqDef
  <2>4. Len(q) = n
    BY <2>1, <2>2, <2>3
  <2> QED
    BY <2>2, <2>3, <2>4
<1>2. ASSUME q \in Seq(Frames), Len(q) <= Capacity PROVE q \in Buffers
  <2>1. Len(q) \in 0..Capacity /\ q \in [1..Len(q) -> Frames]
    BY <1>2, LenProperties
  <2> QED
    BY <2>1 DEF Buffers
<1> QED
  BY <1>1, <1>2

\* p is how q begins.
Begins(p, q) == \E r \in Seq(Frames) : q = p \o r

\* A sequence begins with itself.
LEMMA BeginsSame ==
    ASSUME NEW p \in Seq(Frames)
    PROVE  Begins(p, p)
<1>1. <<>> \in Seq(Frames) /\ p \o <<>> = p
  BY ConcatEmptySeq, EmptySeq
<1> QED
  BY <1>1 DEF Begins

\* What begins with p and r begins with p.
LEMMA BeginsShorter ==
    ASSUME NEW p \in Seq(Frames), NEW r \in Seq(Frames), NEW q, Begins(p \o r, q)
    PROVE  Begins(p, q)
<1>1. PICK u \in Seq(Frames) : q = (p \o r) \o u
  BY DEF Begins
<1>2. q = p \o (r \o u) /\ r \o u \in Seq(Frames)
  BY <1>1, ConcatAssociative, ConcatProperties
<1> QED
  BY <1>2 DEF Begins

\* What is added at the end changes no beginning.
LEMMA BeginsLonger ==
    ASSUME NEW p \in Seq(Frames), NEW q \in Seq(Frames), NEW r \in Seq(Frames), Begins(p, q)
    PROVE  Begins(p, q \o r)
<1>1. PICK u \in Seq(Frames) : q = p \o u
  BY DEF Begins
<1>2. q \o r = p \o (u \o r) /\ u \o r \in Seq(Frames)
  BY <1>1, ConcatAssociative, ConcatProperties
<1> QED
  BY <1>2 DEF Begins

\* A beginning is a prefix, as IsPrefix of SequencesExt has it.
LEMMA BeginsIsPrefix ==
    ASSUME NEW p \in Seq(Frames), NEW q, Begins(p, q)
    PROVE  IsPrefix(p, q)
<1>1. PICK r \in Seq(Frames) : q = p \o r
  BY DEF Begins
<1>2. Len(p) \in Nat /\ Len(r) \in Nat /\ Len(q) = Len(p) + Len(r) /\ q \in Seq(Frames)
  BY <1>1, ConcatProperties, LenProperties
<1>3. SubSeq(p, 1, Len(p)) = SubSeq(q, 1, Len(p))
  <2>1. CASE Len(p) = 0
    BY <2>1, SubSeqEmpty
  <2>2. CASE Len(p) # 0
    <3>1. 1 \in 1..Len(p) /\ Len(p) \in 1..Len(p)
      BY <1>2, <2>2
    <3> QED
      BY <1>1, <3>1, SubSeqOfConcat1
  <2> QED
    BY <2>1, <2>2
<1> QED
  BY <1>2, <1>3 DEF IsPrefix

\* The data frames of two sequences, one after the other.
LEMMA DataFacts ==
    /\ \A q \in Seq(Frames) : Data(q) \in Seq(Frames)
    /\ \A p, q \in Seq(Frames) : Data(p \o q) = Data(p) \o Data(q)
    /\ \A f \in Frames : Data(<<f>>) = IF f = Close THEN <<>> ELSE <<f>>
    /\ Data(<<>>) = <<>>
<1>1. ASSUME NEW q \in Seq(Frames) PROVE Data(q) \in Seq(Frames)
  <2>1. Keep(q, Frames \ {Close}) \in Seq(Frames \cap (Frames \ {Close}))
    BY KeepMembers
  <2> QED
    BY <2>1, SeqMonotonic DEF Data
<1>2. ASSUME NEW p \in Seq(Frames), NEW q \in Seq(Frames) PROVE Data(p \o q) = Data(p) \o Data(q)
  BY KeepConcat DEF Data
<1>3. Data(<<>>) = <<>>
  BY KeepEmpty DEF Data
<1>4. ASSUME NEW f \in Frames PROVE Data(<<f>>) = IF f = Close THEN <<>> ELSE <<f>>
  <2> DEFINE e == <<>>
             T == Frames \ {Close}
  <2>1. e \in Seq(Frames) /\ Append(e, f) = <<f>>
    OBVIOUS
  <2>2. Keep(e, T) = e
    BY KeepEmpty
  <2> HIDE DEF e, T
  <2>3. Keep(Append(e, f), T) = IF f \in T THEN Append(Keep(e, T), f) ELSE Keep(e, T)
    BY <2>1, KeepAppend
  <2>4. Keep(<<f>>, T) = IF f \in T THEN <<f>> ELSE e
    BY <2>1, <2>2, <2>3
  <2> QED
    BY <2>4 DEF Data, e, T
<1> QED
  BY <1>1, <1>2, <1>3, <1>4

\* What a side has sent grows by its next frame.
LEMMA SequenceGrows ==
    ASSUME NEW n \in 0..MaxFrames
    PROVE  /\ Sequence(n) \in Seq(Frames)
           /\ n < MaxFrames => Sequence(n + 1) = Sequence(n) \o <<n + 1>>
<1>1. n \in Nat /\ 1..n \subseteq Frames
  BY DEF Frames
<1>2. Sequence(n) \in [1..n -> Frames]
  BY <1>1 DEF Sequence
<1>3. Sequence(n) \in Seq(Frames)
  BY <1>1, <1>2, SeqDef
<1>4. Len(Sequence(n)) = n
  BY <1>1, <1>2, <1>3
<1>5. ASSUME n < MaxFrames PROVE Sequence(n + 1) = Sequence(n) \o <<n + 1>>
  <2> DEFINE a == Sequence(n)
             b == Sequence(n + 1)
             c == a \o <<n + 1>>
  <2>1. n + 1 \in Nat /\ n + 1 \in Frames /\ 1..(n + 1) \subseteq Frames
    BY <1>1, <1>5 DEF Frames
  <2>2. b \in [1..(n + 1) -> Frames]
    BY <2>1 DEF Sequence
  <2>3. b \in Seq(Frames)
    BY <2>1, <2>2, SeqDef
  <2>4. Len(b) = n + 1
    BY <2>1, <2>2, <2>3
  <2>5. \A i \in 1..n : a[i] = i
    BY DEF Sequence
  <2>6. \A i \in 1..(n + 1) : b[i] = i
    BY DEF Sequence
  <2> HIDE DEF a, b
  <2>7. c \in Seq(Frames) /\ Len(c) = n + 1 /\ \A i \in 1..(n + 1) : c[i] = IF i <= n THEN a[i] ELSE n + 1
    BY <1>1, <1>3, <1>4, <2>1 DEF a
  <2> HIDE DEF c
  <2>8. \A i \in 1..(n + 1) : b[i] = c[i]
    BY <1>1, <2>5, <2>6, <2>7
  <2>9. b = c
    BY <2>3, <2>4, <2>7, <2>8, SeqEqual
  <2> QED
    BY <2>9 DEF a, b, c
<1> QED
  BY <1>3, <1>5

-----------------------------------------------------------------------------
(* The inductive invariant.                                                 *)

Running == stage \in {"dialing", "relaying"}

\* What side s got, and what is on its way from the relay to it.
Ahead(s) == got[s] \o out[s]

\* All frames between side s and the other, in the order they are ahead.
Way(s) == got[Other(s)] \o out[Other(s)] \o HeldFor(Other(s)) \o wire[s]

HoldsWhileRelaying == stage # "relaying" => holding = <<>>

\* The way of each side carries what it sent, or the beginning of it when the
\* side broke off or the relay ended.
InOrder ==
    \A s \in Sides :
        /\ Running => Begins(Data(Way(s)), Sequence(sent[s]))
        /\ Running /\ peer[s] # "gone" => Data(Way(s)) = Sequence(sent[s])
        /\ ~Running => Begins(Data(Ahead(Other(s))), Sequence(sent[s]))

\* A Close frame is the last that the relay puts on the way to a side.
CloseLast ==
    \A s \in Sides : \A i \in DOMAIN Ahead(s) :
        Ahead(s)[i] = Close => i = Len(Ahead(s)) /\ s \in shut

RelayInv == TypeOK /\ HoldsWhileRelaying /\ InOrder /\ CloseLast

\* The types, side by side.
LEMMA SideTypes ==
    ASSUME TypeOK, NEW s \in Sides
    PROVE  /\ wire[s] \in Seq(Frames) /\ Len(wire[s]) <= Capacity
           /\ out[s] \in Seq(Frames) /\ Len(out[s]) <= Capacity
           /\ got[s] \in Seq(Frames) /\ sent[s] \in 0..MaxFrames
           /\ HeldFor(s) \in Seq(Frames)
<1>1. wire[s] \in Buffers /\ out[s] \in Buffers /\ got[s] \in Seq(Frames) /\ sent[s] \in 0..MaxFrames
  BY DEF TypeOK
<1>2. HeldFor(s) \in Seq(Frames)
  <2>1. CASE holding = <<>>
    BY <2>1, EmptySeq DEF HeldFor
  <2>2. CASE holding # <<>>
    <3>1. holding[2] \in Frames
      BY <2>2 DEF TypeOK
    <3>2. <<holding[2]>> \in Seq(Frames) /\ <<>> \in Seq(Frames)
      BY <3>1
    <3> QED
      BY <3>2 DEF HeldFor
  <2> QED
    BY <2>1, <2>2
<1> QED
  BY <1>1, <1>2, BufferIsSeq

\* The way of a side begins with what is ahead.
LEMMA WaySplit ==
    ASSUME TypeOK, NEW s \in Sides
    PROVE  /\ Ahead(Other(s)) \in Seq(Frames) /\ Way(s) \in Seq(Frames)
           /\ HeldFor(Other(s)) \o wire[s] \in Seq(Frames)
           /\ Way(s) = Ahead(Other(s)) \o (HeldFor(Other(s)) \o wire[s])
<1> DEFINE t == Other(s)
<1>1. /\ wire[s] \in Seq(Frames) /\ out[t] \in Seq(Frames) /\ got[t] \in Seq(Frames)
      /\ HeldFor(t) \in Seq(Frames)
  BY SideTypes, TwoSides
<1>2. Ahead(t) \in Seq(Frames)
  BY <1>1, ConcatProperties DEF Ahead
<1>3. Way(s) = (Ahead(t) \o HeldFor(t)) \o wire[s]
  BY DEF Way, Ahead
<1>4. Way(s) = Ahead(t) \o (HeldFor(t) \o wire[s])
  <2> DEFINE a == Ahead(t)
             h == HeldFor(t)
             w == wire[s]
  <2>1. a \in Seq(Frames) /\ h \in Seq(Frames) /\ w \in Seq(Frames)
    BY <1>1, <1>2
  <2> HIDE DEF a, h, w
  <2>2. (a \o h) \o w = a \o (h \o w)
    BY <2>1, ConcatAssociative
  <2> QED
    BY <1>3, <2>2 DEF a, h, w
<1>5. HeldFor(t) \o wire[s] \in Seq(Frames) /\ Way(s) \in Seq(Frames)
  BY <1>1, <1>2, <1>4, ConcatProperties
<1> QED
  BY <1>2, <1>4, <1>5

\* What is ahead of a side was sent in this order by the other.
LEMMA AheadInOrder ==
    ASSUME RelayInv, NEW s \in Sides
    PROVE  Begins(Data(Ahead(Other(s))), Sequence(sent[s]))
<1> DEFINE a == Ahead(Other(s))
           b == HeldFor(Other(s)) \o wire[s]
<1>1. a \in Seq(Frames) /\ b \in Seq(Frames) /\ Way(s) = a \o b
  BY WaySplit DEF RelayInv
<1> HIDE DEF a, b
<1>2. Data(Way(s)) = Data(a) \o Data(b) /\ Data(a) \in Seq(Frames) /\ Data(b) \in Seq(Frames)
  BY <1>1, DataFacts
<1>3. CASE Running
  BY <1>2, <1>3, BeginsShorter DEF RelayInv, InOrder, a
<1>4. CASE ~Running
  BY <1>4 DEF RelayInv, InOrder, a
<1> QED
  BY <1>3, <1>4 DEF a

\* A buffer that is not empty is its head, then the rest.
LEMMA HeadFirst ==
    ASSUME NEW q \in Seq(Frames), q # <<>>
    PROVE  /\ Head(q) \in Frames /\ Tail(q) \in Seq(Frames)
           /\ Len(Tail(q)) = Len(q) - 1
           /\ <<Head(q)>> \o Tail(q) = q
<1>1. Head(q) \in Frames /\ Tail(q) \in Seq(Frames) /\ Len(Tail(q)) = Len(q) - 1
  BY HeadTailProperties
<1>2. Len(q) \in Nat /\ 1 \in 1..Len(q) /\ Len(q) \in 1..Len(q)
  BY EmptySeq
<1>3. SubSeq(q, 1, Len(q)) = <<q[1]>> \o SubSeq(q, 1 + 1, Len(q))
  BY <1>2, SubSeqRecursiveFirst
<1>4. SubSeq(q, 1, Len(q)) = q /\ Tail(q) = SubSeq(q, 2, Len(q)) /\ Head(q) = q[1]
  BY SubSeqFull, TailIsSubSeq
<1> QED
  BY <1>1, <1>3, <1>4

-----------------------------------------------------------------------------
(* Types are kept.                                                          *)

\* Steps of the relay that move a frame.
LEMMA RelayTypes ==
    ASSUME TypeOK, Forward \/ SeeShutdown \/ Closing
    PROVE  TypeOK'
<1>1. ASSUME NEW s \in Sides, Read(s) PROVE TypeOK'
  <2>1. /\ Head(wire[s]) \in Frames /\ Tail(wire[s]) \in Seq(Frames)
        /\ Len(Tail(wire[s])) = Len(wire[s]) - 1
    BY <1>1, SideTypes, HeadFirst DEF Read
  <2>6. wire[s] \in Seq(Frames) /\ Len(wire[s]) \in Nat /\ Len(wire[s]) <= Capacity
    BY SideTypes, LenProperties
  <2>7. Len(Tail(wire[s])) <= Capacity
    BY <2>1, <2>6
  <2>2. Tail(wire[s]) \in Buffers
    BY <2>1, <2>7, BufferIsSeq
  <2>3. wire' \in [Sides -> Buffers]
    BY <1>1, <2>2 DEF Read, TypeOK
  <2>4. holding' \in Sides \X Frames
    BY <1>1, <2>1, TwoSides DEF Read
  <2>5. shut' \subseteq Sides
    BY <1>1 DEF Read, TypeOK
  <2> QED
    BY <1>1, <2>3, <2>4, <2>5 DEF Read, TypeOK
<1>2. ASSUME NEW t \in Sides, NEW f \in Frames, Put(t, f)
      PROVE  out' \in [Sides -> Buffers] /\ shut' \subseteq Sides
  <2>1. Append(out[t], f) \in Seq(Frames) /\ Len(Append(out[t], f)) <= Capacity
    BY <1>2, SideTypes, AppendProperties, LenProperties DEF Put
  <2>2. Append(out[t], f) \in Buffers
    BY <2>1, BufferIsSeq
  <2> QED
    BY <1>2, <2>2 DEF Put, TypeOK
<1>3. CASE Write
  <2>1. holding[1] \in Sides /\ holding[2] \in Frames
    BY <1>3 DEF Write, TypeOK
  <2>2. out' \in [Sides -> Buffers] /\ shut' \subseteq Sides
    BY <1>2, <1>3, <2>1 DEF Write
  <2> QED
    BY <1>3, <2>2 DEF Write, TypeOK
<1>4. ASSUME NEW t \in Sides, NEW from, NEW to \in {"closingClient", "ended"}, CloseSide(t, from, to)
      PROVE  TypeOK'
  <2>1. Close \in Frames
    BY DEF Close, Frames
  <2>2. out' \in [Sides -> Buffers] /\ shut' \subseteq Sides
    BY <1>2, <1>4, <2>1 DEF CloseSide, TypeOK
  <2> QED
    BY <1>4, <2>2 DEF CloseSide, TypeOK
<1>5. CASE Closing
  BY <1>4, <1>5 DEF Closing, CloseUpstream, CloseClient, Sides
<1>6. CASE WriteFails \/ SeeShutdown \/ \E s \in Sides : ReadEnds(s)
  BY <1>6 DEF WriteFails, SeeShutdown, ReadEnds, TypeOK
<1> QED
  BY <1>1, <1>3, <1>5, <1>6 DEF Forward

\* Steps of the two sides, of the handler and of the gateway.
LEMMA PeerTypes ==
    ASSUME TypeOK, NEW s \in Sides,
           (\E f \in Frames : PeerSends(s, f)) \/ PeerVanishes(s) \/ PeerReceives(s)
    PROVE  TypeOK'
<1>1. ASSUME NEW f \in Frames, PeerSends(s, f) PROVE TypeOK'
  <2>1. Append(wire[s], f) \in Seq(Frames) /\ Len(Append(wire[s], f)) <= Capacity
    BY <1>1, SideTypes, AppendProperties, LenProperties DEF PeerSends
  <2>2. Append(wire[s], f) \in Buffers
    BY <2>1, BufferIsSeq
  <2>3. wire' \in [Sides -> Buffers]
    BY <1>1, <2>2 DEF PeerSends, TypeOK
  <2>4. f # Close => f \in 0..MaxFrames
    BY DEF Frames
  <2>5. sent' \in [Sides -> 0..MaxFrames] /\ peer' \in [Sides -> {"open", "closed", "gone"}]
    BY <1>1, <2>4 DEF PeerSends, TypeOK, Frames
  <2> QED
    BY <1>1, <2>3, <2>5 DEF PeerSends, TypeOK
<1>2. CASE PeerVanishes(s)
  <2>1. PICK n \in 0..Len(wire[s]) : wire' = [wire EXCEPT ![s] = SubSeq(wire[s], 1, n)]
    BY <1>2 DEF PeerVanishes
  <2>2. wire[s] \in Seq(Frames) /\ Len(wire[s]) \in Nat /\ Len(wire[s]) <= Capacity
    BY SideTypes, LenProperties
  <2>3. n \in Int /\ 1 \in Int /\ \A i \in 1..n : wire[s][i] \in Frames
    BY <2>2, ElementOfSeq
  <2>4. /\ SubSeq(wire[s], 1, n) \in Seq(Frames)
        /\ Len(SubSeq(wire[s], 1, n)) = IF 1 <= n THEN n - 1 + 1 ELSE 0
    BY <2>3, SubSeqProperties
  <2>5. Len(SubSeq(wire[s], 1, n)) <= Capacity
    BY <2>2, <2>4
  <2>6. SubSeq(wire[s], 1, n) \in Buffers
    BY <2>4, <2>5, BufferIsSeq
  <2>7. wire' \in [Sides -> Buffers]
    BY <2>1, <2>6 DEF TypeOK
  <2> QED
    BY <1>2, <2>7 DEF PeerVanishes, TypeOK
<1>3. CASE PeerReceives(s)
  <2>1. /\ Head(out[s]) \in Frames /\ Tail(out[s]) \in Seq(Frames)
        /\ Len(Tail(out[s])) = Len(out[s]) - 1
    BY <1>3, SideTypes, HeadFirst DEF PeerReceives
  <2>6. out[s] \in Seq(Frames) /\ Len(out[s]) \in Nat /\ Len(out[s]) <= Capacity
    BY SideTypes, LenProperties
  <2>7. Len(Tail(out[s])) <= Capacity
    BY <2>1, <2>6
  <2>2. Tail(out[s]) \in Buffers
    BY <2>1, <2>7, BufferIsSeq
  <2>3. Append(got[s], Head(out[s])) \in Seq(Frames)
    BY <2>1, SideTypes, AppendProperties
  <2>4. out' \in [Sides -> Buffers] /\ got' \in [Sides -> Seq(Frames)]
    BY <1>3, <2>2, <2>3 DEF PeerReceives, TypeOK
  <2> QED
    BY <1>3, <2>4 DEF PeerReceives, TypeOK
<1> QED
  BY <1>1, <1>2, <1>3

-----------------------------------------------------------------------------
(* Frames stay in order.                                                    *)

\* A step that moves no frame, and may end the relay.
LEMMA QuietKeeps ==
    ASSUME RelayInv, TypeOK', UNCHANGED <<wire, out, got, sent, peer, shut>>,
           HoldsWhileRelaying', Running' => Running /\ UNCHANGED holding
    PROVE  RelayInv'
<1>1. ASSUME NEW s \in Sides PROVE Ahead(s)' = Ahead(s)
  BY DEF Ahead
<1>2. ASSUME Running', NEW s \in Sides PROVE Way(s)' = Way(s)
  BY <1>2 DEF Way, HeldFor
<1>3. ASSUME NEW s \in Sides PROVE Other(s) \in Sides
  BY TwoSides
<1>4. InOrder'
  <2> SUFFICES ASSUME NEW s \in Sides
               PROVE  /\ Running' => Begins(Data(Way(s)'), Sequence(sent'[s]))
                      /\ Running' /\ peer'[s] # "gone" => Data(Way(s)') = Sequence(sent'[s])
                      /\ ~Running' => Begins(Data(Ahead(Other(s))'), Sequence(sent'[s]))
    BY DEF InOrder
  <2>1. CASE Running'
    BY <1>2, <2>1 DEF RelayInv, InOrder
  <2>2. CASE ~Running'
    <3>1. Ahead(Other(s))' = Ahead(Other(s)) /\ sent' = sent
      BY <1>1, <1>3
    <3>2. Begins(Data(Ahead(Other(s))), Sequence(sent[s]))
      BY AheadInOrder
    <3> QED
      BY <2>2, <3>1, <3>2
  <2> QED
    BY <2>1, <2>2
<1>5. CloseLast'
  BY <1>1 DEF RelayInv, CloseLast
<1> QED
  BY <1>4, <1>5 DEF RelayInv

\* A step that moves frames along their way.
LEMMA MoveKeeps ==
    ASSUME RelayInv, TypeOK', HoldsWhileRelaying', CloseLast', UNCHANGED <<sent, peer, stage>>,
           \A s \in Sides : Running => Way(s)' = Way(s),
           \A s \in Sides : ~Running => Ahead(s)' = Ahead(s)
    PROVE  RelayInv'
<1>1. InOrder'
  <2> SUFFICES ASSUME NEW s \in Sides
               PROVE  /\ Running' => Begins(Data(Way(s)'), Sequence(sent'[s]))
                      /\ Running' /\ peer'[s] # "gone" => Data(Way(s)') = Sequence(sent'[s])
                      /\ ~Running' => Begins(Data(Ahead(Other(s))'), Sequence(sent'[s]))
    BY DEF InOrder
  <2>1. Running' = Running /\ Other(s) \in Sides
    BY TwoSides DEF Running
  <2> QED
    BY <2>1 DEF RelayInv, InOrder
<1> QED
  BY <1>1 DEF RelayInv

\* next() of a side yields a frame.
LEMMA ReadKeeps ==
    ASSUME RelayInv, TypeOK', NEW s \in Sides, Read(s)
    PROVE  RelayInv'
<1> DEFINE t == Other(s)
           h == Head(wire[s])
           w == Tail(wire[s])
           a == Ahead(t)
<1>1. t \in Sides /\ Other(t) = s /\ t # s /\ \A u \in Sides : u = s \/ u = t
  BY TwoSides
<1>2. holding = <<>> /\ holding' = <<t, h>> /\ wire'[s] = w /\ wire'[t] = wire[t]
      /\ UNCHANGED <<stage, out, got, sent, peer>> /\ stage = "relaying" /\ shut \subseteq shut'
  BY <1>1 DEF Read, Polling, RelayInv, TypeOK
<1>3. h \in Frames /\ w \in Seq(Frames) /\ <<h>> \o w = wire[s] /\ a \in Seq(Frames)
  BY SideTypes, HeadFirst, WaySplit DEF Read, RelayInv
<1>4. /\ HeldFor(t) = <<>> /\ HeldFor(s) = <<>>
      /\ HeldFor(t)' = <<h>> /\ HeldFor(s)' = <<>>
  BY <1>1, <1>2 DEF HeldFor
<1>5. Way(s)' = (a \o <<h>>) \o w
  BY <1>2, <1>4 DEF Way, Ahead
<1>6. Way(s) = (a \o <<>>) \o wire[s]
  BY <1>4 DEF Way, Ahead
<1>7. Way(t)' = Way(t)
  BY <1>1, <1>2, <1>4 DEF Way
<1>8. \A u \in Sides : Ahead(u)' = Ahead(u)
  BY <1>2 DEF Ahead
<1>9. Way(s)' = Way(s)
  <2> HIDE DEF a, h, w
  <2>1. <<h>> \in Seq(Frames) /\ a \o <<>> = a
    BY <1>3, ConcatEmptySeq
  <2>2. (a \o <<h>>) \o w = a \o (<<h>> \o w)
    BY <1>3, <2>1, ConcatAssociative
  <2> QED
    BY <1>3, <1>5, <1>6, <2>1, <2>2
<1>10. CloseLast'
  BY <1>2, <1>8 DEF CloseLast, RelayInv
<1>11. HoldsWhileRelaying'
  BY <1>2 DEF HoldsWhileRelaying
<1> HIDE DEF t
<1>12. \A u \in Sides : Way(u)' = Way(u)
  BY <1>1, <1>7, <1>9
<1> QED
  BY <1>2, <1>8, <1>10, <1>11, <1>12, MoveKeeps

\* Nothing was put after a Close frame, so a frame may be put where there is
\* none; a Close frame bars the way behind it.
LEMMA PutKeepsCloseLast ==
    ASSUME RelayInv, NEW t \in Sides, NEW f \in Frames, Put(t, f), UNCHANGED got
    PROVE  /\ CloseLast'
           /\ Ahead(t)' = Ahead(t) \o <<f>>
           /\ \A u \in Sides : u # t => Ahead(u)' = Ahead(u)
<1> DEFINE a == Ahead(t)
           b == Ahead(t)'
<1>1. out[t] \in Seq(Frames) /\ got[t] \in Seq(Frames)
  BY SideTypes DEF RelayInv
<1>2. out'[t] = out[t] \o <<f>> /\ \A u \in Sides : u # t => out'[u] = out[u]
  BY <1>1, AppendIsConcat DEF Put, RelayInv, TypeOK
<1>3. b = a \o <<f>>
  <2>1. <<f>> \in Seq(Frames)
    OBVIOUS
  <2>2. \A g, o, e \in Seq(Frames) : g \o (o \o e) = (g \o o) \o e
    BY ConcatAssociative
  <2>3. got[t] \o (out[t] \o <<f>>) = (got[t] \o out[t]) \o <<f>>
    BY <1>1, <2>1, <2>2
  <2> QED
    BY <1>2, <2>3 DEF Ahead
<1>4. a \in Seq(Frames)
  BY <1>1, ConcatProperties DEF Ahead
<1>5. \A u \in Sides : u # t => Ahead(u)' = Ahead(u)
  BY <1>2 DEF Ahead
<1>6. \A i \in DOMAIN a : a[i] # Close
  BY DEF Put, RelayInv, CloseLast
<1>7. shut \subseteq shut' /\ (f = Close => t \in shut')
  BY DEF Put
<1> HIDE DEF a, b
<1>8. /\ Len(b) = Len(a) + 1 /\ DOMAIN b = 1..Len(b) /\ Len(a) \in Nat
      /\ \A i \in DOMAIN b : i # Len(b) => i \in DOMAIN a /\ b[i] = a[i]
      /\ b[Len(b)] = f
  BY <1>3, <1>4
<1>9. \A i \in DOMAIN b : b[i] = Close => i = Len(b) /\ t \in shut'
  BY <1>6, <1>7, <1>8
<1>10. ASSUME NEW u \in Sides, u # t
       PROVE  \A i \in DOMAIN Ahead(u)' : Ahead(u)'[i] = Close => i = Len(Ahead(u)') /\ u \in shut'
  BY <1>5, <1>7, <1>10 DEF RelayInv, CloseLast
<1>11. CloseLast'
  BY <1>9, <1>10 DEF CloseLast, b
<1> QED
  BY <1>3, <1>5, <1>11 DEF a, b

\* A frame is sent on.
LEMMA WriteKeeps ==
    ASSUME RelayInv, TypeOK', Write
    PROVE  RelayInv'
<1>0. PICK t \in Sides, f \in Frames : holding = <<t, f>>
  BY DEF Write, RelayInv, TypeOK
<1> DEFINE s == Other(t)
           a == Ahead(t)
<1>1. /\ holding # <<>> /\ holding[1] = t /\ holding[2] = f /\ holding' = <<>> /\ Put(t, f)
      /\ UNCHANGED <<stage, wire, got, sent, peer>> /\ stage = "relaying"
  BY <1>0 DEF Write
<1>2. s \in Sides /\ Other(s) = t /\ s # t /\ \A u \in Sides : u = s \/ u = t
  BY TwoSides
<1> HIDE DEF s
<1>3. CloseLast' /\ Ahead(t)' = a \o <<f>> /\ Ahead(s)' = Ahead(s)
  BY <1>1, <1>2, PutKeepsCloseLast
<1>4. /\ HeldFor(t) = <<f>> /\ HeldFor(s) = <<>>
      /\ HeldFor(t)' = <<>> /\ HeldFor(s)' = <<>>
  BY <1>1, <1>2 DEF HeldFor
<1>5. Way(s) = (a \o <<f>>) \o wire[s] /\ Way(s)' = ((a \o <<f>>) \o <<>>) \o wire[s]
  BY <1>1, <1>2, <1>3, <1>4 DEF Way, Ahead
<1>6. Way(t)' = Way(t)
  BY <1>1, <1>2, <1>3, <1>4 DEF Way, Ahead, s
<1>7. a \in Seq(Frames)
  BY <1>2, WaySplit DEF RelayInv
<1>8. Way(s)' = Way(s)
  <2> HIDE DEF a
  <2>1. a \o <<f>> \in Seq(Frames)
    BY <1>1, <1>7
  <2>2. (a \o <<f>>) \o <<>> = a \o <<f>>
    BY <2>1, ConcatEmptySeq
  <2> QED
    BY <1>5, <2>2
<1>9. HoldsWhileRelaying'
  BY <1>1 DEF HoldsWhileRelaying
<1>10. Running
  BY <1>1 DEF Running
<1>11. \A u \in Sides : Way(u)' = Way(u)
  BY <1>2, <1>6, <1>8
<1> QED
  BY <1>1, <1>3, <1>9, <1>10, <1>11, MoveKeeps

\* A side receives a frame.
LEMMA ReceiveKeeps ==
    ASSUME RelayInv, TypeOK', NEW t \in Sides, PeerReceives(t)
    PROVE  RelayInv'
<1> DEFINE h == Head(out[t])
           o == Tail(out[t])
           g == got[t]
<1>1. g \in Seq(Frames) /\ h \in Frames /\ o \in Seq(Frames) /\ <<h>> \o o = out[t]
  BY SideTypes, HeadFirst DEF PeerReceives, RelayInv
<1>2. /\ got'[t] = Append(g, h) /\ out'[t] = o
      /\ \A u \in Sides : u # t => got'[u] = got[u] /\ out'[u] = out[u]
      /\ UNCHANGED <<stage, wire, holding, sent, peer, shut>>
  BY DEF PeerReceives, RelayInv, TypeOK
<1>3. Ahead(t)' = Append(g, h) \o o /\ Ahead(t) = g \o out[t]
  BY <1>2 DEF Ahead
<1>4. Ahead(t)' = Ahead(t)
  <2> HIDE DEF g, h, o
  <2>1. Append(g, h) = g \o <<h>> /\ <<h>> \in Seq(Frames)
    BY <1>1, AppendIsConcat
  <2>2. (g \o <<h>>) \o o = g \o (<<h>> \o o)
    BY <1>1, <2>1, ConcatAssociative
  <2> QED
    BY <1>1, <1>3, <2>1, <2>2
<1>5. \A u \in Sides : Ahead(u)' = Ahead(u)
  BY <1>2, <1>4 DEF Ahead
<1>6. \A u \in Sides : Other(u) \in Sides
  BY TwoSides
<1>7. \A u \in Sides : Way(u)' = Way(u)
  BY <1>2, <1>5, <1>6 DEF Way, Ahead, HeldFor
<1>8. CloseLast' /\ HoldsWhileRelaying'
  BY <1>2, <1>5 DEF CloseLast, HoldsWhileRelaying, RelayInv
<1> QED
  BY <1>2, <1>5, <1>7, <1>8, MoveKeeps

\* A side sends a frame.
LEMMA SendKeeps ==
    ASSUME RelayInv, TypeOK', NEW s \in Sides, NEW f \in Frames, PeerSends(s, f)
    PROVE  RelayInv'
<1> DEFINE w == wire[s]
           d == Data(Way(s))
           q == Sequence(sent[s])
<1>1. /\ UNCHANGED <<stage, holding, got, out, shut>> /\ peer[s] = "open"
      /\ wire'[s] = Append(w, f)
      /\ \A u \in Sides : u # s => wire'[u] = wire[u] /\ sent'[u] = sent[u] /\ peer'[u] = peer[u]
      /\ IF f = Close THEN sent'[s] = sent[s] ELSE f = sent[s] + 1 /\ sent'[s] = f
  BY DEF PeerSends, RelayInv, TypeOK, Close
<1>2. w \in Seq(Frames) /\ Way(s) \in Seq(Frames) /\ sent[s] \in 0..MaxFrames /\ sent'[s] \in 0..MaxFrames
  BY SideTypes, WaySplit DEF RelayInv, TypeOK
<1>3. Way(s)' = Way(s) \o <<f>>
  <2> DEFINE a == got[Other(s)] \o out[Other(s)] \o HeldFor(Other(s))
  <2>1. a \in Seq(Frames)
    <3>1. /\ got[Other(s)] \in Seq(Frames) /\ out[Other(s)] \in Seq(Frames)
          /\ HeldFor(Other(s)) \in Seq(Frames)
      BY SideTypes, TwoSides DEF RelayInv
    <3> QED
      BY <3>1
  <2>2. Way(s) = a \o w /\ Way(s)' = a \o Append(w, f)
    BY <1>1 DEF Way, HeldFor
  <2> HIDE DEF a, w
  <2>3. Append(w, f) = w \o <<f>> /\ <<f>> \in Seq(Frames)
    BY <1>2, AppendIsConcat
  <2>4. a \o (w \o <<f>>) = (a \o w) \o <<f>>
    BY <1>2, <2>1, <2>3, ConcatAssociative
  <2> QED
    BY <2>2, <2>3, <2>4
<1>4. Data(Way(s)') = d \o (IF f = Close THEN <<>> ELSE <<f>>) /\ d \in Seq(Frames)
  <2>1. <<f>> \in Seq(Frames) /\ Data(<<f>>) = IF f = Close THEN <<>> ELSE <<f>>
    BY DataFacts
  <2>2. Data(Way(s) \o <<f>>) = d \o Data(<<f>>) /\ d \in Seq(Frames)
    BY <1>2, <2>1, DataFacts
  <2> QED
    BY <1>3, <2>1, <2>2
<1>5. Sequence(sent'[s]) = q \o (IF f = Close THEN <<>> ELSE <<f>>) /\ q \in Seq(Frames)
  <2>1. q \in Seq(Frames) /\ q \o <<>> = q
    BY <1>2, SequenceGrows, ConcatEmptySeq
  <2>2. CASE f = Close
    BY <1>1, <2>1, <2>2
  <2>3. CASE f # Close
    <3>1. sent'[s] = sent[s] + 1 /\ sent[s] < MaxFrames /\ f = sent[s] + 1
      BY <1>1, <1>2, <2>3
    <3>2. Sequence(sent[s] + 1) = q \o <<sent[s] + 1>>
      BY <1>2, <3>1, SequenceGrows
    <3> QED
      BY <2>1, <2>3, <3>1, <3>2
  <2> QED
    BY <2>2, <2>3
<1>6. ASSUME NEW u \in Sides PROVE Ahead(u)' = Ahead(u)
  BY <1>1 DEF Ahead
<1>7. ASSUME NEW u \in Sides, u # s PROVE Way(u)' = Way(u)
  <2>1. HeldFor(Other(u))' = HeldFor(Other(u)) /\ wire'[u] = wire[u]
    BY <1>1, <1>7 DEF HeldFor
  <2> QED
    BY <1>1, <2>1 DEF Way
<1>8. InOrder'
  <2> SUFFICES ASSUME NEW u \in Sides
               PROVE  /\ Running' => Begins(Data(Way(u)'), Sequence(sent'[u]))
                      /\ Running' /\ peer'[u] # "gone" => Data(Way(u)') = Sequence(sent'[u])
                      /\ ~Running' => Begins(Data(Ahead(Other(u))'), Sequence(sent'[u]))
    BY DEF InOrder
  <2>1. Running' = Running
    BY <1>1 DEF Running
  <2>2. CASE u # s
    <3>1. Ahead(Other(u))' = Ahead(Other(u))
      BY <1>1 DEF Ahead
    <3> QED
      BY <1>1, <1>7, <2>1, <2>2, <3>1 DEF RelayInv, InOrder
  <2>3. CASE u = s
    <3> DEFINE e == IF f = Close THEN <<>> ELSE <<f>>
    <3>1. e \in Seq(Frames)
      BY EmptySeq
    <3> HIDE DEF d, q, e
    <3>2. ASSUME Running PROVE Data(Way(s)') = Sequence(sent'[s])
      <4>1. d = q
        BY <1>1, <3>2 DEF RelayInv, InOrder, d, q
      <4> QED
        BY <1>4, <1>5, <4>1
    <3>3. Running => Begins(Data(Way(s)'), Sequence(sent'[s]))
      <4>1. q \o e \in Seq(Frames) /\ Sequence(sent'[s]) = q \o e
        BY <1>5, <3>1, ConcatProperties DEF e
      <4> QED
        BY <3>2, <4>1, BeginsSame
    <3>4. Begins(Data(Ahead(Other(s))'), Sequence(sent'[s]))
      <4> DEFINE p == Data(Ahead(Other(s)))
      <4>1. Ahead(Other(s))' = Ahead(Other(s)) /\ Ahead(Other(s)) \in Seq(Frames)
        BY <1>6, TwoSides, WaySplit DEF RelayInv
      <4>2. Begins(p, q)
        BY AheadInOrder DEF q
      <4>3. p \in Seq(Frames)
        BY <4>1, DataFacts
      <4> HIDE DEF p
      <4>4. Begins(p, q \o e)
        BY <1>5, <3>1, <4>2, <4>3, BeginsLonger
      <4> QED
        BY <1>5, <4>1, <4>4 DEF p, e
    <3> QED
      BY <2>1, <2>3, <3>2, <3>3, <3>4
  <2> QED
    BY <2>2, <2>3
<1>9. CloseLast' /\ HoldsWhileRelaying'
  BY <1>1, <1>6 DEF CloseLast, HoldsWhileRelaying, RelayInv
<1> QED
  BY <1>8, <1>9 DEF RelayInv

\* A side breaks off: of what it sent, the end may not arrive.
LEMMA VanishKeeps ==
    ASSUME RelayInv, TypeOK', NEW s \in Sides, PeerVanishes(s)
    PROVE  RelayInv'
<1> DEFINE w == wire[s]
           a == got[Other(s)] \o out[Other(s)] \o HeldFor(Other(s))
<1>1. PICK n \in 0..Len(w) : wire' = [wire EXCEPT ![s] = SubSeq(w, 1, n)]
  BY DEF PeerVanishes
<1> DEFINE v == SubSeq(w, 1, n)
           r == SubSeq(w, n + 1, Len(w))
<1>2. /\ UNCHANGED <<stage, holding, got, out, shut, sent>> /\ peer'[s] = "gone"
      /\ wire'[s] = v
      /\ \A u \in Sides : u # s => wire'[u] = wire[u] /\ peer'[u] = peer[u]
  BY <1>1 DEF PeerVanishes, RelayInv, TypeOK
<1>3. w \in Seq(Frames) /\ Len(w) \in Nat
  BY SideTypes, LenProperties DEF RelayInv
<1>4. v \in Seq(Frames) /\ r \in Seq(Frames) /\ w = v \o r
  <2> HIDE DEF w
  <2>1. \A i \in 1..Len(w) : w[i] \in Frames
    BY <1>3, ElementOfSeq
  <2>2. v \in Seq(Frames)
    BY <1>3, <2>1, SubSeqProperties
  <2>3. r \in Seq(Frames)
    BY <1>3, <2>1, SubSeqProperties
  <2>4. 1 \in 1..(Len(w) + 1) /\ n \in (1 - 1)..Len(w) /\ Len(w) \in n..Len(w)
    BY <1>3
  <2>5. v \o r = SubSeq(w, 1, Len(w))
    BY <1>3, <2>4, ConcatAdjacentSubSeq
  <2> QED
    BY <1>3, <2>2, <2>3, <2>5, SubSeqFull
<1>5. a \in Seq(Frames)
  <2>1. /\ got[Other(s)] \in Seq(Frames) /\ out[Other(s)] \in Seq(Frames)
        /\ HeldFor(Other(s)) \in Seq(Frames)
    BY SideTypes, TwoSides DEF RelayInv
  <2> QED
    BY <2>1
<1>6. Way(s) = a \o w /\ Way(s)' = a \o v
  BY <1>2 DEF Way, HeldFor
<1> HIDE DEF a, w, v, r
<1>7. Way(s) = (a \o v) \o r /\ a \o v \in Seq(Frames)
  <2>1. (a \o v) \o r = a \o (v \o r)
    BY <1>4, <1>5, ConcatAssociative
  <2>2. a \o v \in Seq(Frames)
    BY <1>4, <1>5, ConcatProperties
  <2> QED
    BY <1>4, <1>6, <2>1, <2>2
<1>8. Data(Way(s)) = Data(Way(s)') \o Data(r) /\ Data(Way(s)') \in Seq(Frames) /\ Data(r) \in Seq(Frames)
  BY <1>4, <1>6, <1>7, DataFacts
<1>9. ASSUME NEW u \in Sides, u # s PROVE Way(u)' = Way(u)
  <2>1. HeldFor(Other(u))' = HeldFor(Other(u)) /\ wire'[u] = wire[u]
    BY <1>2, <1>9 DEF HeldFor
  <2> QED
    BY <1>2, <2>1 DEF Way
<1>10. InOrder'
  <2> SUFFICES ASSUME NEW u \in Sides
               PROVE  /\ Running' => Begins(Data(Way(u)'), Sequence(sent'[u]))
                      /\ Running' /\ peer'[u] # "gone" => Data(Way(u)') = Sequence(sent'[u])
                      /\ ~Running' => Begins(Data(Ahead(Other(u))'), Sequence(sent'[u]))
    BY DEF InOrder
  <2>1. Running' = Running /\ Ahead(Other(u))' = Ahead(Other(u))
    BY <1>2 DEF Running, Ahead
  <2>2. CASE u # s
    BY <1>2, <1>9, <2>1, <2>2 DEF RelayInv, InOrder
  <2>3. CASE u = s
    <3>1. Running => Begins(Data(Way(s)'), Sequence(sent[s]))
      BY <1>8, BeginsShorter DEF RelayInv, InOrder
    <3> QED
      BY <1>2, <2>1, <2>3, <3>1 DEF RelayInv, InOrder
  <2> QED
    BY <2>2, <2>3
<1>11. \A u \in Sides : Ahead(u)' = Ahead(u)
  BY <1>2 DEF Ahead
<1>12. CloseLast' /\ HoldsWhileRelaying'
  BY <1>2, <1>11 DEF CloseLast, HoldsWhileRelaying, RelayInv
<1> QED
  BY <1>10, <1>12 DEF RelayInv

\* The relay closes a side, unless that fails.
LEMMA CloseKeeps ==
    ASSUME RelayInv, TypeOK', NEW t \in Sides, NEW from \in {"closingUpstream", "closingClient"},
           NEW to \in {"closingClient", "ended"}, CloseSide(t, from, to)
    PROVE  RelayInv'
<1>1. ~Running /\ ~Running' /\ UNCHANGED <<wire, holding, got, sent, peer>> /\ stage # "relaying"
  BY DEF CloseSide, Running
<1>2. HoldsWhileRelaying'
  BY <1>1 DEF RelayInv, HoldsWhileRelaying
<1>3. CASE Put(t, Close)
  <2> DEFINE s == Other(t)
  <2>1. s \in Sides /\ Other(s) = t /\ s # t /\ \A u \in Sides : u = s \/ u = t
    BY TwoSides
  <2>2. Close \in Frames
    BY DEF Close, Frames
  <2>3. CloseLast' /\ Ahead(t)' = Ahead(t) \o <<Close>> /\ Ahead(s)' = Ahead(s)
    BY <1>1, <1>3, <2>1, <2>2, PutKeepsCloseLast
  <2>4. Ahead(t) \in Seq(Frames)
    BY <2>1, WaySplit DEF RelayInv
  <2>5. Data(Ahead(t)') = Data(Ahead(t))
    <3>1. <<Close>> \in Seq(Frames) /\ Data(<<Close>>) = <<>>
      BY <2>2, DataFacts
    <3>2. Data(Ahead(t)) \o <<>> = Data(Ahead(t))
      BY <2>4, DataFacts, ConcatEmptySeq
    <3> QED
      BY <2>3, <2>4, <3>1, <3>2, DataFacts
  <2>6. \A u \in Sides : Other(u) \in Sides /\ Data(Ahead(Other(u))') = Data(Ahead(Other(u)))
    BY <2>1, <2>3, <2>5
  <2>7. InOrder'
    BY <1>1, <2>6 DEF InOrder, RelayInv
  <2> QED
    BY <1>2, <2>3, <2>7 DEF RelayInv
<1>4. CASE UNCHANGED <<out, shut>>
  BY <1>1, <1>2, <1>4, QuietKeeps
<1> QED
  BY <1>3, <1>4 DEF CloseSide

-----------------------------------------------------------------------------
(* The theorems.                                                            *)

\* RelayInv holds in every behaviour.
THEOREM RelayInductive == Spec => []RelayInv
<1>1. Init => RelayInv
  <2> SUFFICES ASSUME Init PROVE RelayInv
    OBVIOUS
  <2>1. <<>> \in Buffers /\ <<>> \in Seq(Frames) /\ 0 \in 0..MaxFrames
    <3> DEFINE e == <<>>
    <3>1. e \in Seq(Frames) /\ Len(e) = 0 /\ 0 <= Capacity
      BY EmptySeq
    <3> HIDE DEF e
    <3>2. e \in Buffers
      BY <3>1, BufferIsSeq
    <3> QED
      BY <3>1, <3>2 DEF e
  <2>2. TypeOK
    BY <2>1 DEF Init, TypeOK
  <2>3. ASSUME NEW s \in Sides PROVE Ahead(s) = <<>> /\ Way(s) = <<>>
    <3>1. Other(s) \in Sides
      BY TwoSides
    <3>2. got[s] = <<>> /\ out[s] = <<>> /\ got[Other(s)] = <<>> /\ out[Other(s)] = <<>> /\ wire[s] = <<>>
      BY <3>1 DEF Init
    <3>3. HeldFor(Other(s)) = <<>>
      BY DEF HeldFor, Init
    <3>4. <<>> \o <<>> = <<>>
      BY <2>1, ConcatEmptySeq
    <3> QED
      BY <3>2, <3>3, <3>4 DEF Ahead, Way
  <2>4. InOrder
    <3>1. Sequence(0) = <<>>
      BY DEF Sequence
    <3> SUFFICES ASSUME NEW s \in Sides
                 PROVE  /\ Begins(Data(Way(s)), Sequence(sent[s]))
                        /\ Data(Way(s)) = Sequence(sent[s])
                        /\ Running
      BY DEF InOrder
    <3>2. sent[s] = 0 /\ Running
      BY DEF Init, Running
    <3>3. Data(Way(s)) = <<>>
      BY <2>3, DataFacts
    <3> QED
      BY <2>1, <3>1, <3>2, <3>3, BeginsSame
  <2>5. CloseLast /\ HoldsWhileRelaying
    BY <2>3 DEF CloseLast, HoldsWhileRelaying, Init
  <2> QED
    BY <2>2, <2>4, <2>5 DEF RelayInv
<1>2. RelayInv /\ [Next]_vars => RelayInv'
  <2> SUFFICES ASSUME RelayInv, [Next]_vars PROVE RelayInv'
    OBVIOUS
  <2>1. CASE Handler \/ BeginShutdown \/ GatewayExits
    <3>1. TypeOK' /\ HoldsWhileRelaying'
      BY <2>1 DEF Handler, DialFails, Upgrade, BeginShutdown, GatewayExits, TypeOK, RelayInv,
         HoldsWhileRelaying
    <3>2. UNCHANGED <<wire, out, got, sent, peer, shut>> /\ (Running' => Running /\ UNCHANGED holding)
      BY <2>1 DEF Handler, DialFails, Upgrade, BeginShutdown, GatewayExits, Running
    <3> QED
      BY <3>1, <3>2, QuietKeeps
  <2>2. CASE Forward \/ SeeShutdown \/ Closing
    <3>1. TypeOK'
      BY <2>2, RelayTypes DEF RelayInv
    <3>2. CASE WriteFails \/ SeeShutdown \/ \E s \in Sides : ReadEnds(s)
      <4>1. UNCHANGED <<wire, out, got, sent, peer, shut>> /\ ~Running' /\ holding' = <<>>
        BY <3>2 DEF WriteFails, SeeShutdown, ReadEnds, Polling, Running
      <4> QED
        BY <3>1, <4>1, QuietKeeps DEF HoldsWhileRelaying
    <3>3. CASE Closing
      BY <3>1, <3>3, CloseKeeps DEF Closing, CloseUpstream, CloseClient, Sides
    <3> QED
      BY <2>2, <3>1, <3>2, <3>3, ReadKeeps, WriteKeeps DEF Forward
  <2>3. ASSUME NEW s \in Sides,
               (\E f \in Frames : PeerSends(s, f)) \/ PeerVanishes(s) \/ PeerReceives(s)
        PROVE  RelayInv'
    <3>1. TypeOK'
      BY <2>3, PeerTypes DEF RelayInv
    <3> QED
      BY <2>3, <3>1, SendKeeps, VanishKeeps, ReceiveKeeps
  <2>4. CASE UNCHANGED vars
    <3>1. UNCHANGED <<stage, shutdown, watching, wire, holding, out, got, sent, peer, shut>>
      BY <2>4 DEF vars
    <3>2. TypeOK' /\ HoldsWhileRelaying' /\ Running' = Running
      BY <3>1 DEF TypeOK, RelayInv, HoldsWhileRelaying, Running
    <3> QED
      BY <3>1, <3>2, QuietKeeps
  <2> QED
    BY <2>1, <2>2, <2>3, <2>4 DEF Next
<1> QED
  BY <1>1, <1>2, PTL DEF Spec

\* proxy.rs, relay: for as long as the loop runs no frame is lost, doubled or
\* out of order, in either direction, whatever the sides do.
THEOREM NothingIsLost == Spec => []NothingLost
<1>1. RelayInv => NothingLost
  <2> SUFFICES ASSUME RelayInv, stage = "relaying", NEW s \in Sides, peer[s] # "gone"
               PROVE  Journey(s) = Sequence(sent[s])
    BY DEF NothingLost
  <2>1. Data(Way(s)) = Sequence(sent[s])
    BY DEF RelayInv, InOrder, Running
  <2> QED
    BY <2>1 DEF Journey, Way
<1> QED
  BY <1>1, RelayInductive, PTL

\* However the relay ends, a side has received the beginning of what the other
\* sent, and a Close frame is the last thing it receives.
THEOREM RelayIsFaithful == Spec => []Faithful
<1>1. RelayInv => Faithful
  <2> SUFFICES ASSUME RelayInv, NEW s \in Sides
               PROVE  /\ IsPrefix(Data(got[Other(s)]), Sequence(sent[s]))
                      /\ \A i \in DOMAIN got[s] : got[s][i] = Close => i = Len(got[s])
    BY DEF Faithful
  <2>1. IsPrefix(Data(got[Other(s)]), Sequence(sent[s]))
    <3> DEFINE g == got[Other(s)]
               o == out[Other(s)]
    <3>1. g \in Seq(Frames) /\ o \in Seq(Frames)
      BY SideTypes, TwoSides DEF RelayInv
    <3>2. Begins(Data(g \o o), Sequence(sent[s]))
      BY AheadInOrder DEF Ahead
    <3> HIDE DEF g, o
    <3>3. Data(g \o o) = Data(g) \o Data(o) /\ Data(g) \in Seq(Frames) /\ Data(o) \in Seq(Frames)
      BY <3>1, DataFacts
    <3>4. Begins(Data(g), Sequence(sent[s]))
      BY <3>2, <3>3, BeginsShorter
    <3>5. IsPrefix(Data(g), Sequence(sent[s]))
      BY <3>3, <3>4, BeginsIsPrefix
    <3> QED
      BY <3>5 DEF g
  <2>2. ASSUME NEW i \in DOMAIN got[s], got[s][i] = Close PROVE i = Len(got[s])
    <3> DEFINE g == got[s]
               o == out[s]
    <3>1. g \in Seq(Frames) /\ o \in Seq(Frames)
      BY SideTypes DEF RelayInv
    <3>2. Ahead(s) = g \o o /\ i \in DOMAIN g /\ g[i] = Close
      BY <2>2 DEF Ahead
    <3> HIDE DEF g, o
    <3>3. /\ Len(g) \in Nat /\ Len(o) \in Nat /\ i \in 1..Len(g) /\ i \in DOMAIN (g \o o)
          /\ (g \o o)[i] = g[i] /\ Len(g \o o) = Len(g) + Len(o)
      BY <3>1, <3>2
    <3>4. i = Len(g) + Len(o)
      BY <3>2, <3>3 DEF RelayInv, CloseLast
    <3> QED
      BY <3>3, <3>4 DEF g
  <2> QED
    BY <2>1, <2>2
<1> QED
  BY <1>1, RelayInductive, PTL
=============================================================================
