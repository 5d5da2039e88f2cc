----------------------------- MODULE UbusSession -----------------------------
(***************************************************************************)
(* The session handling of the ubus transport (api/ubus/client.py): many   *)
(* coroutines call the router at once with one shared session id, and any  *)
(* of them may find the session expired.                                   *)
(*                                                                         *)
(* A call reads the session id BEFORE it waits for one of the semaphore's  *)
(* slots, keeps the slot while the router answers and while a refusal is   *)
(* looked into, and logs in again under _reauth_lock when the session it   *)
(* used is dead.  A login within five seconds of the last one is skipped.  *)
(*                                                                         *)
(* A session is a number; a login makes the next one.  The router's two    *)
(* refusals (-32002 and code 6) take the same branches and are one here;   *)
(* so do the errors that leave the client's state alone.                   *)
(***************************************************************************)
EXTENDS Integers, FiniteSets

CONSTANTS
    Calls,      \* concurrent _call coroutines: fetches of a poll, user actions
    Granted,    \* calls whose method the ACL of the user allows
    Coord,      \* the coordinator, which connects when it finds no connection
    NoOne,      \* the lock's holder when it is free
    Slots,      \* permits of the semaphore (5)
    MaxSession  \* bound: sessions the router opens

Clients == Calls \cup {Coord}
Sessions == 1..MaxSession

UbusConstants ==
    /\ Granted \subseteq Calls
    /\ Coord \notin Calls
    /\ NoOne \notin Clients
    /\ Slots \in Nat \ {0}
    /\ MaxSession \in Nat \ {0}

VARIABLES
    session,    \* _session_id
    connected,  \* _connected
    recent,     \* less than 5 s since _last_connect_time
    lock,       \* holder of _reauth_lock
    holding,    \* calls that hold a slot of _semaphore
    call,       \* the locals of every coroutine
    valid       \* sessions the router accepts

vars == <<session, connected, recent, lock, holding, call, valid>>

Phases == {"idle", "queued", "posted", "probing", "locking", "login", "denied"}

Idle == [phase |-> "idle", retried |-> FALSE, token |-> 1, probe |-> 1]

TypeOK ==
    /\ session \in Sessions
    /\ connected \in BOOLEAN
    /\ recent \in BOOLEAN
    /\ lock \in Clients \cup {NoOne}
    /\ holding \subseteq Calls
    /\ call \in [Clients -> [phase : Phases, retried : BOOLEAN,
                             token : Sessions, probe : Sessions]]
    /\ valid \subseteq Sessions
    /\ \A c \in Clients : lock = c <=> call[c].phase = "login"
    /\ \A c \in Calls : c \in holding <=> call[c].phase \in {"posted", "probing"}

\* Setup has logged in.
Init ==
    /\ session = 1
    /\ connected = TRUE
    /\ recent = TRUE
    /\ lock = NoOne
    /\ holding = {}
    /\ call = [c \in Clients |-> Idle]
    /\ valid = {1}

-----------------------------------------------------------------------------
(* One call. *)

\* failed_session and the payload are fixed here, before the semaphore.
CallStart(c) ==
    /\ call[c].phase = "idle"
    /\ call' = [call EXCEPT ![c] = [Idle EXCEPT !.phase = "queued",
                                                !.token = session]]
    /\ UNCHANGED <<session, connected, recent, lock, holding, valid>>

SlotTaken(c) ==
    /\ call[c].phase = "queued"
    /\ Cardinality(holding) < Slots
    /\ holding' = holding \cup {c}
    /\ call' = [call EXCEPT ![c].phase = "posted"]
    /\ UNCHANGED <<session, connected, recent, lock, valid>>

\* The call ends, with a result or an exception the caller sees.
Finish(c) ==
    /\ call' = [call EXCEPT ![c] = Idle]
    /\ holding' = holding \ {c}

Denied(c) ==
    /\ call' = [call EXCEPT ![c] = [Idle EXCEPT !.phase = "denied"]]
    /\ holding' = holding \ {c}

\* Bug for the tests of the properties: the call repeats itself inside its slot.
RetryInTheSlot(c) ==
    /\ call' = [call EXCEPT ![c] = [Idle EXCEPT !.phase = "queued",
                                                !.retried = TRUE,
                                                !.token = session']]
    /\ UNCHANGED holding

\* _call(..., reauthenticated=True), with whatever session is current.
Retry(c) ==
    /\ call' = [call EXCEPT ![c] = [Idle EXCEPT !.phase = "queued",
                                                !.retried = TRUE,
                                                !.token = session']]
    /\ holding' = holding \ {c}

Authorised(c) == call[c].token \in valid /\ c \in Granted

Answered(c) ==
    /\ call[c].phase = "posted"
    /\ Authorised(c)
    /\ Finish(c)
    /\ UNCHANGED <<session, connected, recent, lock, valid>>

\* A refusal is looked into once; the slot stays taken meanwhile.
Refused(c) ==
    /\ call[c].phase = "posted"
    /\ ~Authorised(c)
    /\ IF call[c].retried
       THEN Denied(c)
       ELSE /\ call' = [call EXCEPT ![c].phase = "probing", ![c].probe = session]
            /\ UNCHANGED holding
    /\ UNCHANGED <<session, connected, recent, lock, valid>>

\* _is_session_valid: the CURRENT session works, so the refusal stands.
SessionStillValid(c) ==
    /\ call[c].phase = "probing"
    /\ call[c].probe \in valid
    /\ Denied(c)
    /\ UNCHANGED <<session, connected, recent, lock, valid>>

\* Only the holder of the session that failed logs in; others just try again.
Reauthenticate(c) ==
    IF session = call[c].token
    THEN /\ call' = [call EXCEPT ![c].phase = "locking"]
         /\ holding' = holding \ {c}
    ELSE Retry(c)

SessionNotValid(c) ==
    /\ call[c].phase = "probing"
    /\ call[c].probe \notin valid
    /\ UNCHANGED <<session, connected, recent, lock, valid>>
    /\ Reauthenticate(c)

\* Any failure of the probe counts as "not valid".
ProbeFails(c) ==
    /\ call[c].phase = "probing"
    /\ UNCHANGED <<session, connected, recent, lock, valid>>
    /\ Reauthenticate(c)

\* Timeout, refused connection, TLS or HTTP error: raised, no state changed.
TransportError(c) ==
    /\ call[c].phase = "posted"
    /\ Finish(c)
    /\ UNCHANGED <<session, connected, recent, lock, valid>>

\* Any other ClientError: disconnect() and try once more.  The coordinator
\* clears connected too, after a fetch that failed; it has no action of its own: a
\* call reset after its retry also ends with connected cleared.
ConnectionReset(c) ==
    /\ call[c].phase = "posted"
    /\ connected' = FALSE
    /\ UNCHANGED <<session, recent, lock, valid>>
    /\ IF call[c].retried THEN Finish(c) ELSE Retry(c)

\* The caller has seen the permission error.
DeniedSeen(c) ==
    /\ call[c].phase = "denied"
    /\ call' = [call EXCEPT ![c] = Idle]
    /\ UNCHANGED <<session, connected, recent, lock, holding, valid>>

-----------------------------------------------------------------------------
(* connect(), by a call or by the coordinator. *)

\* _async_fetch_all_data connects when it finds the client disconnected.
CoordConnects ==
    /\ call[Coord].phase = "idle"
    /\ ~connected
    /\ call' = [call EXCEPT ![Coord].phase = "locking"]
    /\ UNCHANGED <<session, connected, recent, lock, holding, valid>>

\* connect() has returned: a call repeats its request, the coordinator polls.
Resume(c) == IF c = Coord THEN Finish(c) ELSE Retry(c)

LockTaken(c) ==
    /\ call[c].phase = "locking"
    /\ lock = NoOne
    /\ UNCHANGED <<session, connected, recent, valid>>
    /\ IF connected /\ recent
       THEN /\ Resume(c)
            /\ UNCHANGED lock
       ELSE /\ lock' = c
            /\ call' = [call EXCEPT ![c].phase = "login"]
            /\ UNCHANGED holding

\* Bug for the tests of the properties: the lock outlives a failed login.
LoginFailsKeepingTheLock(c) ==
    /\ call[c].phase = "login"
    /\ connected' = IF c = Coord THEN FALSE ELSE connected
    /\ Finish(c)
    /\ UNCHANGED <<session, recent, lock, valid>>

LoginDone(c) ==
    /\ call[c].phase = "login"
    /\ session < MaxSession
    /\ session' = session + 1
    /\ valid' = valid \cup {session'}
    /\ connected' = TRUE
    /\ recent' = TRUE
    /\ lock' = NoOne
    /\ Resume(c)

\* Wrong credentials or a transport error: connect() raises.  The coordinator
\* also clears _connected.
LoginFails(c) ==
    /\ call[c].phase = "login"
    /\ lock' = NoOne
    /\ connected' = IF c = Coord THEN FALSE ELSE connected
    /\ Finish(c)
    /\ UNCHANGED <<session, recent, valid>>

-----------------------------------------------------------------------------
(* The router and the clock. *)

\* rpcd forgets a session: idle timeout or restart.
SessionExpires(s) ==
    /\ s \in valid
    /\ valid' = valid \ {s}
    /\ UNCHANGED <<session, connected, recent, lock, holding, call>>

\* Five seconds pass.  A free lock goes to a waiter at once, so they do not
\* pass between the release and the take-over.
FiveSecondsPass ==
    /\ recent
    /\ ~(lock = NoOne /\ \E c \in Clients : call[c].phase = "locking")
    /\ recent' = FALSE
    /\ UNCHANGED <<session, connected, lock, holding, call, valid>>

CallStep(c) ==
    \/ SlotTaken(c)
    \/ Answered(c)
    \/ Refused(c)
    \/ SessionStillValid(c)
    \/ SessionNotValid(c)
    \/ ProbeFails(c)
    \/ TransportError(c)
    \/ ConnectionReset(c)

ConnectStep(c) == LockTaken(c) \/ LoginDone(c) \/ LoginFails(c)

Next ==
    \/ \E c \in Calls : CallStart(c) \/ CallStep(c) \/ DeniedSeen(c)
    \/ CoordConnects
    \/ \E c \in Clients : ConnectStep(c)
    \/ \E s \in Sessions : SessionExpires(s)
    \/ FiveSecondsPass

Spec == Init /\ [][Next]_vars

(***************************************************************************)
(* Fairness.  Every request is answered or times out (aiohttp's total      *)
(* timeout), and asyncio's semaphore and lock serve their waiters in       *)
(* order, so a waiter is not overtaken for ever.                           *)
(***************************************************************************)
Fairness ==
    /\ \A c \in Calls :
        /\ SF_vars(SlotTaken(c))
        /\ WF_vars(Answered(c) \/ Refused(c) \/ TransportError(c))
        /\ WF_vars(SessionStillValid(c) \/ SessionNotValid(c))
    /\ \A c \in Clients :
        /\ SF_vars(LockTaken(c))
        /\ WF_vars(LoginDone(c) \/ LoginFails(c))

FairSpec == Spec /\ Fairness

-----------------------------------------------------------------------------
(* Properties. *)

\* What the caller of a call sees of it.
Request ==
    [c \in Calls |->
        CASE call[c].phase = "idle" -> [made |-> 0, at |-> "idle"]
          [] call[c].phase = "denied" -> [made |-> 0, at |-> "refused"]
          [] OTHER -> [made |-> IF call[c].retried THEN 2 ELSE 1,
                       at |-> IF c \in holding THEN "sent" ELSE "waiting"]]

Service == INSTANCE CallService WITH request <- Request

\* The client keeps the promise of CallService: a request is repeated once at
\* most, through whatever renewals of the session, and the router is asked no more
\* than Slots things at a time, the check of a refusal included.
ServesCalls == Service!Spec

=============================================================================
