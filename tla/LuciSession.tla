----------------------------- MODULE LuciSession -----------------------------
(***************************************************************************)
(* The session handling of the LuCI RPC transport                          *)
(* (api/luci_rpc/client.py).  It differs from the ubus transport in what   *)
(* tells a call that it should log in: every HTTP 403 of a first attempt   *)
(* goes to _reauth_lock, and whether a login is still needed is decided    *)
(* INSIDE the lock, by comparing the token the request carried with the    *)
(* current one.  The coordinator's own connect() does not take the lock.   *)
(*                                                                         *)
(* A token is a number; a login makes the next one.  Errors that end a     *)
(* call and leave the client's state alone are one action.                 *)
(***************************************************************************)
EXTENDS Integers, FiniteSets

CONSTANTS
    Calls,      \* concurrent _rpc_call coroutines
    Coord,      \* the coordinator, which connects when it finds no connection
    NoOne,      \* the lock's holder when it is free
    Slots,      \* permits of the semaphore (5)
    MaxToken    \* bound: tokens the router issues

Clients == Calls \cup {Coord}
Tokens == 1..MaxToken

LuciConstants ==
    /\ IsFiniteSet(Calls)
    /\ Coord \notin Calls
    /\ NoOne \notin Clients
    /\ Slots \in Nat \ {0}
    /\ MaxToken \in Nat \ {0}

VARIABLES
    authToken,  \* _auth_token
    connected,  \* _connected
    failed,     \* a fetch of the running poll raised a transport error
    lock,       \* holder of _reauth_lock
    call,       \* the locals of every coroutine
    issued,     \* tokens the router has issued
    valid,      \* tokens the router accepts
    renewals    \* ghost: logins made by calls because of each refused token

client == <<authToken, connected, failed>>
router == <<issued, valid>>
vars == <<client, lock, call, router, renewals>>

Phases == {"idle", "queued", "posted", "locking", "login", "denied"}

Idle == [phase |-> "idle", retried |-> FALSE, token |-> 1]

Posted == {c \in Calls : call[c].phase = "posted"}

TypeOK ==
    /\ authToken \in Tokens
    /\ connected \in BOOLEAN
    /\ failed \in BOOLEAN
    /\ lock \in Calls \cup {NoOne}
    /\ call \in [Clients -> [phase : Phases, retried : BOOLEAN, token : Tokens]]
    /\ issued \in Tokens
    /\ valid \subseteq 1..issued
    /\ authToken <= issued
    /\ renewals \in [Tokens -> Nat]
    /\ Cardinality(Posted) <= Slots

\* Setup has logged in.
Init ==
    /\ authToken = 1
    /\ connected = TRUE
    /\ failed = FALSE
    /\ lock = NoOne
    /\ call = [c \in Clients |-> Idle]
    /\ issued = 1
    /\ valid = {1}
    /\ renewals = [t \in Tokens |-> 0]

-----------------------------------------------------------------------------
(* One call. *)

\* The token goes into the URL here, before the semaphore.
CallStart(c) ==
    /\ call[c].phase = "idle"
    /\ call' = [call EXCEPT ![c] = [phase |-> "queued", retried |-> FALSE,
                                    token |-> authToken]]
    /\ UNCHANGED <<client, router, lock, renewals>>

\* Bug for the tests of the properties: no semaphore.
SlotTakenAtOnce(c) ==
    /\ call[c].phase = "queued"
    /\ call' = [call EXCEPT ![c].phase = "posted"]
    /\ UNCHANGED <<client, router, renewals, lock>>

SlotTaken(c) ==
    /\ call[c].phase = "queued"
    /\ Cardinality(Posted) < Slots
    /\ call' = [call EXCEPT ![c].phase = "posted"]
    /\ UNCHANGED <<client, router, renewals, lock>>

Finish(c) == call' = [call EXCEPT ![c] = Idle]

\* Bug for the tests of the properties: the retry is not marked as one.
RetryUnmarked(c) ==
    call' = [call EXCEPT ![c] = [phase |-> "queued", retried |-> FALSE,
                                 token |-> authToken']]

\* _rpc_call(..., reauthenticated=True)
Retry(c) ==
    call' = [call EXCEPT ![c] = [phase |-> "queued", retried |-> TRUE,
                                 token |-> authToken']]

Answered(c) ==
    /\ call[c].phase = "posted"
    /\ call[c].token \in valid
    /\ Finish(c)
    /\ UNCHANGED <<client, router, renewals, lock>>

\* HTTP 403
Refused(c) ==
    /\ call[c].phase = "posted"
    /\ call[c].token \notin valid
    /\ call' = [call EXCEPT ![c].phase =
                    IF call[c].retried THEN "denied" ELSE "locking"]
    /\ UNCHANGED <<client, router, renewals, lock>>

\* A timeout, a refused connection, a TLS error or an answer that is not JSON.
TransportError(c) ==
    /\ call[c].phase = "posted"
    /\ Finish(c)
    /\ failed' = TRUE
    /\ UNCHANGED <<router, renewals, authToken, connected, lock>>

\* Any other ClientError, an HTTP 500 included: disconnect() and try once more.
ConnectionReset(c) ==
    /\ call[c].phase = "posted"
    /\ connected' = FALSE
    /\ UNCHANGED <<router, authToken, failed, lock, renewals>>
    /\ IF call[c].retried THEN Finish(c) ELSE Retry(c)

\* Bug for the tests of the properties: whether to log in is decided outside.
LockTakenWithoutLooking(c) ==
    /\ call[c].phase = "locking"
    /\ lock = NoOne
    /\ lock' = c
    /\ call' = [call EXCEPT ![c].phase = "login"]
    /\ UNCHANGED <<client, router, renewals>>

\* The first in line logs in; the rest find a new token and use it.
LockTaken(c) ==
    /\ call[c].phase = "locking"
    /\ lock = NoOne
    /\ UNCHANGED <<client, router, renewals>>
    /\ IF authToken = call[c].token
       THEN /\ lock' = c
            /\ call' = [call EXCEPT ![c].phase = "login"]
       ELSE /\ Retry(c)
            /\ UNCHANGED lock

DeniedSeen(c) ==
    /\ call[c].phase = "denied"
    /\ Finish(c)
    /\ UNCHANGED <<client, router, renewals, lock>>

-----------------------------------------------------------------------------
(* connect(), by the call that holds the lock or by the coordinator. *)

\* _async_fetch_all_data connects when it finds the client disconnected, and
\* after a poll that raised.
CoordConnects ==
    /\ call[Coord].phase = "idle"
    /\ ~connected \/ failed
    /\ failed' = FALSE
    /\ call' = [call EXCEPT ![Coord].phase = "login"]
    /\ UNCHANGED <<router, renewals, authToken, connected, lock>>

LoggedIn ==
    /\ issued < MaxToken
    /\ issued' = issued + 1
    /\ valid' = valid \cup {issued'}
    /\ authToken' = issued'
    /\ connected' = TRUE

CallLoginDone(c) ==
    /\ call[c].phase = "login"
    /\ LoggedIn
    /\ lock' = NoOne
    /\ renewals' = [renewals EXCEPT ![call[c].token] = @ + 1]
    /\ Retry(c)
    /\ UNCHANGED failed

CoordLoginDone ==
    /\ call[Coord].phase = "login"
    /\ LoggedIn
    /\ Finish(Coord)
    /\ UNCHANGED <<renewals, failed, lock>>

\* connect() raises; the old token stays, so the next in line tries again.
CallLoginFails(c) ==
    /\ call[c].phase = "login"
    /\ lock' = NoOne
    /\ Finish(c)
    /\ UNCHANGED <<client, router, renewals>>

\* The coordinator also clears _connected.
CoordLoginFails ==
    /\ call[Coord].phase = "login"
    /\ connected' = FALSE
    /\ Finish(Coord)
    /\ UNCHANGED <<router, renewals, authToken, failed, lock>>

-----------------------------------------------------------------------------

\* rpcd forgets a session: idle timeout or restart.
TokenExpires(t) ==
    /\ t \in valid
    /\ valid' = valid \ {t}
    /\ UNCHANGED <<client, lock, call, issued, renewals>>

CallStep(c) ==
    \/ SlotTaken(c)
    \/ Answered(c)
    \/ Refused(c)
    \/ TransportError(c)
    \/ ConnectionReset(c)
    \/ LockTaken(c)
    \/ CallLoginDone(c)
    \/ CallLoginFails(c)

Next ==
    \/ \E c \in Calls : CallStart(c) \/ CallStep(c) \/ DeniedSeen(c)
    \/ CoordConnects \/ CoordLoginDone \/ CoordLoginFails
    \/ \E t \in Tokens : TokenExpires(t)

Spec == Init /\ [][Next]_vars

\* Requests are answered or time out; asyncio serves waiters in order.
Fairness ==
    \A c \in Calls :
        /\ SF_vars(SlotTaken(c))
        /\ SF_vars(LockTaken(c))
        /\ WF_vars(Answered(c) \/ Refused(c) \/ TransportError(c))
        /\ WF_vars(CallLoginDone(c) \/ CallLoginFails(c))

FairSpec == Spec /\ Fairness

-----------------------------------------------------------------------------
(* Properties. *)

\* "An expired token fails every in-flight call at once.  Only the first to
\* get here logs in": the calls a dead token fails open one session for it
\* between them, whatever fails and whatever the coordinator does meanwhile.
OneLoginPerDeadToken == \A t \in Tokens : renewals[t] <= 1

\* What the caller of a call with the locals l sees of it.
AsSeen(l) ==
    CASE l.phase = "idle" -> [made |-> 0, at |-> "idle"]
      [] l.phase = "denied" -> [made |-> 0, at |-> "refused"]
      [] OTHER -> [made |-> IF l.retried THEN 2 ELSE 1,
                   at |-> IF l.phase = "posted" THEN "sent" ELSE "waiting"]

Request == [c \in Calls |-> AsSeen(call[c])]

Service == INSTANCE CallService WITH request <- Request

\* The client keeps the promise of CallService, whatever the coordinator's own
\* logins do meanwhile.
ServesCalls == Service!Spec

=============================================================================
