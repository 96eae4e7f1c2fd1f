----------------------------- MODULE RpcContract -----------------------------
(***************************************************************************)
(* What the JSON-RPC client promises its callers, with sockets, timers and *)
(* phases left out: a sequence of connections, at most one of them         *)
(* current, and requests that are each issued once on the current          *)
(* connection and settled at most once.  Only the current connection can   *)
(* fulfil a request, and only one that it carried itself.                  *)
(***************************************************************************)
EXTENDS Integers

CONSTANTS Ids, Connections

VARIABLES
    current,   \* the current connection, or 0
    used,      \* connections so far
    issued,    \* requests so far
    on,        \* the connection each request was sent on, 0 before
    outcome    \* what its promise shows

cvars == <<current, used, issued, on, outcome>>

Init ==
    /\ current = 0
    /\ used = 0
    /\ issued = 0
    /\ on = [id \in Ids |-> 0]
    /\ outcome = [id \in Ids |-> "unissued"]

\* Every request still waiting is rejected.
RejectAll ==
    outcome' = [id \in Ids |-> IF outcome[id] = "waiting" THEN "rejected" ELSE outcome[id]]

\* The connection is lost or given up.
Lose ==
    /\ current' = 0
    /\ RejectAll
    /\ UNCHANGED <<used, issued, on>>

\* A new connection replaces the current one, if any.  Requests of the old
\* one are rejected, or left waiting without an answer.
Establish ==
    /\ used + 1 \in Connections
    /\ used' = used + 1
    /\ current' = used + 1
    /\ RejectAll \/ UNCHANGED outcome
    /\ UNCHANGED <<issued, on>>

Issue ==
    /\ current # 0
    /\ issued + 1 \in Ids
    /\ issued' = issued + 1
    /\ on' = [on EXCEPT ![issued + 1] = current]
    /\ outcome' = [outcome EXCEPT ![issued + 1] = "waiting"]
    /\ UNCHANGED <<current, used>>

Fulfil(id) ==
    /\ outcome[id] = "waiting"
    /\ on[id] = current
    /\ outcome' = [outcome EXCEPT ![id] = "ok"]
    /\ UNCHANGED <<current, used, issued, on>>

\* An error answer, or the request's own timeout.
Fail(id) ==
    /\ outcome[id] = "waiting"
    /\ outcome' = [outcome EXCEPT ![id] = "rejected"]
    /\ UNCHANGED <<current, used, issued, on>>

Next ==
    \/ Lose \/ Establish \/ Issue
    \/ \E id \in Ids : Fulfil(id) \/ Fail(id)

Spec == Init /\ [][Next]_cvars
=============================================================================
