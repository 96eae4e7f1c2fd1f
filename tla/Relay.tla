-------------------------------- MODULE Relay --------------------------------
(***************************************************************************)
(* One /ws request of the gateway: src/backend/src/proxy.rs, with the      *)
(* shutdown channel of AppState (lib.rs).  The handler dials the active    *)
(* upstream, subscribes to the shutdown channel and upgrades the client;   *)
(* then one task moves frames both ways until a side ends or the gateway   *)
(* shuts down.  The task has one select loop: while it awaits a send it    *)
(* reads neither side nor the shutdown channel.                            *)
(***************************************************************************)
EXTENDS Lists, SequencesExt

CONSTANTS
    MaxFrames,  \* bound: data frames each side sends
    Capacity    \* bound: frames a socket buffers in each direction

ASSUME RelayAssumption == MaxFrames \in Nat /\ Capacity \in Nat \ {0}

Sides == {"client", "upstream"}
Other(s) == IF s = "client" THEN "upstream" ELSE "client"
Close == 0                      \* a Close frame; data frames are 1, 2, ...
Frames == 0..MaxFrames
Buffers == UNION {[1..n -> Frames] : n \in 0..Capacity}

VARIABLES
    stage,     \* of the request and its relay task
    shutdown,  \* value of the watch channel
    watching,  \* the relay's receiver is older than the shutdown: it will wake
    wire,      \* frames on their way from each side to the relay
    holding,   \* frame being sent on: <<>>, or <<side it goes to, frame>>
    out,       \* frames on their way from the relay to each side
    got,       \* what each side has received
    sent,      \* data frames each side has sent
    peer,      \* "open", "closed" (sent a Close frame), or "gone"
    shut       \* sides whose Close was read or written: no more sends to them

vars == <<stage, shutdown, watching, wire, holding, out, got, sent, peer, shut>>

Init ==
    /\ stage = "dialing"
    /\ shutdown \in BOOLEAN
    /\ watching = FALSE
    /\ wire = [s \in Sides |-> <<>>]
    /\ holding = <<>>
    /\ out = [s \in Sides |-> <<>>]
    /\ got = [s \in Sides |-> <<>>]
    /\ sent = [s \in Sides |-> 0]
    /\ peer = [s \in Sides |-> "open"]
    /\ shut = {}

-----------------------------------------------------------------------------
(* websocket_handler                                                        *)

\* connect_async fails (502), or the client goes away while it is awaited.
DialFails ==
    /\ stage = "dialing"
    /\ stage' = "ended"
    /\ UNCHANGED <<shutdown, watching, wire, holding, out, got, sent, peer, shut>>

\* A receiver subscribed after the shutdown has its value marked as seen.
Upgrade ==
    /\ stage = "dialing"
    /\ stage' = "relaying"
    /\ watching' = ~shutdown
    /\ UNCHANGED <<shutdown, wire, holding, out, got, sent, peer, shut>>

-----------------------------------------------------------------------------
(* relay                                                                    *)

Polling == stage = "relaying" /\ holding = <<>>

\* Mutants: the client is the only side read; the newest frame goes first.
ReadClient(s) ==
    /\ Polling
    /\ s = "client" /\ wire[s] # <<>>
    /\ holding' = <<Other(s), Head(wire[s])>>
    /\ wire' = [wire EXCEPT ![s] = Tail(@)]
    /\ shut' = IF Head(wire[s]) = Close THEN shut \cup {s} ELSE shut
    /\ UNCHANGED <<stage, shutdown, watching, out, got, sent, peer>>
ReadNewest(s) ==
    /\ Polling
    /\ wire[s] # <<>>
    /\ holding' = <<Other(s), Last(wire[s])>>
    /\ wire' = [wire EXCEPT ![s] = Front(@)]
    /\ shut' = IF Last(wire[s]) = Close THEN shut \cup {s} ELSE shut
    /\ UNCHANGED <<stage, shutdown, watching, out, got, sent, peer>>

\* next() of side s yields a frame.
Read(s) ==
    /\ Polling
    /\ wire[s] # <<>>
    /\ holding' = <<Other(s), Head(wire[s])>>
    /\ wire' = [wire EXCEPT ![s] = Tail(@)]
    /\ shut' = IF Head(wire[s]) = Close THEN shut \cup {s} ELSE shut
    /\ UNCHANGED <<stage, shutdown, watching, out, got, sent, peer>>

\* Mutant: the end of the client is not noticed.
ReadEndsUpstream(s) ==
    /\ Polling
    /\ s = "upstream" /\ wire[s] = <<>>
    /\ peer[s] = "gone" \/ s \in shut
    /\ stage' = "ended"
    /\ UNCHANGED <<shutdown, watching, wire, holding, out, got, sent, peer, shut>>

\* next() of side s yields None or an error: leave the loop.
ReadEnds(s) ==
    /\ Polling
    /\ wire[s] = <<>>
    /\ peer[s] = "gone" \/ s \in shut
    /\ stage' = "ended"
    /\ UNCHANGED <<shutdown, watching, wire, holding, out, got, sent, peer, shut>>

\* Put frame f into the sink towards t; it waits for room.
Put(t, f) ==
    /\ t \notin shut
    /\ Len(out[t]) < Capacity
    /\ out' = [out EXCEPT ![t] = Append(@, f)]
    /\ shut' = IF f = Close THEN shut \cup {t} ELSE shut

CannotPut(t) == t \in shut \/ peer[t] = "gone"

\* Mutant: the select loop drops a send it has begun.
WriteOrDrop ==
    /\ stage = "relaying"
    /\ holding # <<>>
    /\ Put(holding[1], holding[2]) \/ UNCHANGED <<out, shut>>
    /\ holding' = <<>>
    /\ UNCHANGED <<stage, shutdown, watching, wire, got, sent, peer>>

Write ==
    /\ stage = "relaying"
    /\ holding # <<>>
    /\ Put(holding[1], holding[2])
    /\ holding' = <<>>
    /\ UNCHANGED <<stage, shutdown, watching, wire, got, sent, peer>>

\* The send fails: leave the loop, and the frame is dropped.
WriteFails ==
    /\ stage = "relaying"
    /\ holding # <<>>
    /\ CannotPut(holding[1])
    /\ stage' = "ended"
    /\ holding' = <<>>
    /\ UNCHANGED <<shutdown, watching, wire, out, got, sent, peer, shut>>

\* shutdown.changed(): close the upstream, then the client, then leave.
SeeShutdown ==
    /\ Polling
    /\ shutdown /\ watching
    /\ watching' = FALSE
    /\ stage' = "closingUpstream"
    /\ UNCHANGED <<shutdown, wire, holding, out, got, sent, peer, shut>>

\* Mutant: the loop waits for the Close to be taken.
CloseSideOrWait(t, from, to) ==
    /\ stage = from
    /\ stage' = to
    /\ Put(t, Close)
    /\ UNCHANGED <<shutdown, watching, wire, holding, got, sent, peer>>

CloseSide(t, from, to) ==
    /\ stage = from
    /\ stage' = to
    /\ \/ Put(t, Close)
       \/ CannotPut(t) /\ UNCHANGED <<out, shut>>
    /\ UNCHANGED <<shutdown, watching, wire, holding, got, sent, peer>>
CloseUpstream == CloseSide("upstream", "closingUpstream", "closingClient")
CloseClient == CloseSide("client", "closingClient", "ended")

-----------------------------------------------------------------------------
(* The two ends, and the gateway around the relay.                          *)

\* A side sends its next data frame, or a Close after which it sends nothing.
PeerSends(s, f) ==
    /\ stage # "dialing"
    /\ peer[s] = "open"
    /\ Len(wire[s]) < Capacity
    /\ \/ f = Close /\ peer' = [peer EXCEPT ![s] = "closed"] /\ UNCHANGED sent
       \/ f = sent[s] + 1 /\ sent' = [sent EXCEPT ![s] = f] /\ UNCHANGED peer
    /\ wire' = [wire EXCEPT ![s] = Append(@, f)]
    /\ UNCHANGED <<stage, shutdown, watching, holding, out, got, shut>>

\* The connection to a side breaks; what it sent may or may not arrive.
PeerVanishes(s) ==
    /\ stage # "dialing"
    /\ peer[s] # "gone"
    /\ peer' = [peer EXCEPT ![s] = "gone"]
    /\ \E n \in 0..Len(wire[s]) : wire' = [wire EXCEPT ![s] = SubSeq(@, 1, n)]
    /\ UNCHANGED <<stage, shutdown, watching, holding, out, got, sent, shut>>

PeerReceives(s) ==
    /\ peer[s] # "gone"
    /\ out[s] # <<>>
    /\ got' = [got EXCEPT ![s] = Append(@, Head(out[s]))]
    /\ out' = [out EXCEPT ![s] = Tail(@)]
    /\ UNCHANGED <<stage, shutdown, watching, wire, holding, sent, peer, shut>>

BeginShutdown ==
    /\ ~shutdown
    /\ shutdown' = TRUE
    /\ UNCHANGED <<stage, watching, wire, holding, out, got, sent, peer, shut>>

\* main returns.  Nothing waits for the relay tasks: the runtime drops them.
GatewayExits ==
    /\ shutdown
    /\ stage # "ended"
    /\ stage' = "ended"
    /\ holding' = <<>>
    /\ UNCHANGED <<shutdown, watching, wire, out, got, sent, peer, shut>>

-----------------------------------------------------------------------------
Handler == DialFails \/ Upgrade
Forward == (\E s \in Sides : Read(s) \/ ReadEnds(s)) \/ Write \/ WriteFails
Closing == CloseUpstream \/ CloseClient

Next ==
    \/ Handler \/ Forward \/ SeeShutdown \/ Closing
    \/ \E s \in Sides : \/ \E f \in Frames : PeerSends(s, f)
                        \/ PeerVanishes(s) \/ PeerReceives(s)
    \/ BeginShutdown \/ GatewayExits

Spec == Init /\ [][Next]_vars

\* The runtime polls the task; select! picks among the ready branches at
\* random, so each is taken in the end; the sides read what arrives.
Fairness ==
    /\ WF_vars(Handler) /\ WF_vars(Write) /\ WF_vars(WriteFails)
    /\ WF_vars(Closing) /\ SF_vars(SeeShutdown)
    /\ \A s \in Sides :
        SF_vars(Read(s)) /\ SF_vars(ReadEnds(s)) /\ WF_vars(PeerReceives(s))

FairSpec == Spec /\ Fairness

-----------------------------------------------------------------------------
(* Properties.                                                              *)

TypeOK ==
    /\ stage \in {"dialing", "relaying", "closingUpstream", "closingClient", "ended"}
    /\ shutdown \in BOOLEAN /\ watching \in BOOLEAN
    /\ wire \in [Sides -> Buffers] /\ out \in [Sides -> Buffers]
    /\ holding = <<>> \/ holding \in Sides \X Frames
    /\ got \in [Sides -> Seq(Frames)]
    /\ sent \in [Sides -> 0..MaxFrames]
    /\ peer \in [Sides -> {"open", "closed", "gone"}]
    /\ shut \subseteq Sides

Data(q) == Keep(q, Frames \ {Close})
HeldFor(t) == IF holding # <<>> /\ holding[1] = t THEN <<holding[2]>> ELSE <<>>
Sequence(n) == [i \in 1..n |-> i]

\* The frames of side s, in the order in which they are ahead.
Journey(s) ==
    Data(got[Other(s)] \o out[Other(s)] \o HeldFor(Other(s)) \o wire[s])

\* The relay loses, duplicates and reorders nothing for as long as it runs:
\* what one side has sent is what the other has received, followed by what
\* is still on its way.
NothingLost ==
    stage = "relaying" =>
        \A s \in Sides : peer[s] # "gone" => Journey(s) = Sequence(sent[s])

\* However the relay ends, what was received is a prefix of what was sent,
\* and nothing follows a Close frame.
Faithful ==
    \A s \in Sides :
        /\ IsPrefix(Data(got[Other(s)]), Sequence(sent[s]))
        /\ \A i \in DOMAIN got[s] : got[s][i] = Close => i = Len(got[s])

\* When one side ends, the relay ends and so does the other side's
\* connection: a client never hangs on an upstream that is gone.
EndPropagates ==
    \A s \in Sides : stage = "relaying" /\ peer[s] # "open" ~> stage = "ended"

\* A frame that was sent arrives, unless somebody ended the connection.
Delivered ==
    \A s \in Sides :
        sent[s] = MaxFrames ~>
            \/ Data(got[Other(s)]) = Sequence(MaxFrames)
            \/ stage = "ended" \/ peer[Other(s)] = "gone"

\* backend/tests/gateway.rs, shutdown_closes_active_websockets: a shutdown
\* ends the relays that were running when it began.
ShutdownEndsRelay == watching /\ shutdown ~> stage = "ended"
=============================================================================
