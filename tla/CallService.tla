---------------------------- MODULE CallService ----------------------------
(***************************************************************************)
(* What the clients of the router promise those who call them, whatever    *)
(* the transport: a call puts its request to the router, no more than      *)
(* Slots at a time, repeats it at most once after the connection or the    *)
(* session was renewed, and comes back with an answer, an error, or a      *)
(* refusal.  UbusSession and LuciSession implement it.                     *)
(***************************************************************************)
EXTENDS Naturals, FiniteSets

CONSTANTS
    Calls,      \* concurrent calls
    Slots       \* requests on their way at a time

VARIABLE
    request     \* of each call: how often it was made, and where it is

Init == request = [c \in Calls |-> [made |-> 0, at |-> "idle"]]

Sent == {c \in Calls : request[c].at = "sent"}

Becomes(c, made, at) ==
    request' = [request EXCEPT ![c] = [made |-> made, at |-> at]]

Ask(c) == request[c].at = "idle" /\ Becomes(c, 1, "waiting")

Send(c) ==
    /\ request[c].at = "waiting"
    /\ Cardinality(Sent) < Slots
    /\ Becomes(c, request[c].made, "sent")

\* The request is taken back while a session or a connection is made.
Renew(c) == request[c].at = "sent" /\ request[c].made = 1 /\ Becomes(c, 1, "waiting")

Repeat(c) == request[c].made = 1 /\ Becomes(c, 2, "waiting")

Return(c) == request[c].at \in {"waiting", "sent", "refused"} /\ Becomes(c, 0, "idle")

Refuse(c) == request[c].at = "sent" /\ Becomes(c, 0, "refused")

Next == \E c \in Calls :
    Ask(c) \/ Send(c) \/ Renew(c) \/ Repeat(c) \/ Return(c) \/ Refuse(c)

Spec == Init /\ [][Next]_request

=============================================================================
